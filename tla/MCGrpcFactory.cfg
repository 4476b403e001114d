\* Two server names and two listeners, which may name one server.
CONSTANTS
    s1 = s1  s2 = s2  l1 = l1  l2 = l2
    Names <- MCNames
    Factories <- MCFactories
SPECIFICATION Spec
INVARIANT OneServerInstance
