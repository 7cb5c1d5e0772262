SPECIFICATION Spec
CONSTANTS
    a1 = a1
    a2 = a2
    a3 = a3
    Agent = {a1, a2}
    Binding = {hello}
    Greeting = hello
    Killer = {a1}
    Mortal = {a1, a2}
    Port <- MCPort
    Ephemeral <- MCEphemeral
INVARIANT OneLinkPerPair
CHECK_DEADLOCK FALSE
