SPECIFICATION Spec
CONSTANTS
    a1 = a1
    a2 = a2
    a3 = a3
    Agent = {a1, a2, a3}
    Binding = {hello}
    Greeting = hello
    Killer = {}
    Mortal = {}
    Port <- MCPort
    Ephemeral <- MCEphemeral
INVARIANT OnlyDoublesAreClosed
CHECK_DEADLOCK FALSE
