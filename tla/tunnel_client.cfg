\* One create_stream call, and a tunnel that is connected twice and torn down by its loops
\* and its owner.
SPECIFICATION Spec
CONSTANTS
    s1 = s1
    Streams = {s1}
    MaxConnects = 2
INVARIANTS OpenIsRegistered NoAnswerMissed NoStreamLeaks
PROPERTIES DeathIsNoticed TeardownEnds DeathWakesCallers
CHECK_DEADLOCK FALSE
