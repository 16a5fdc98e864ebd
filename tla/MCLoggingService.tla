-------------------------- MODULE MCLoggingService --------------------------
EXTENDS LoggingService, TLC

CONSTANTS h1, h2, t1, t2

OneHandler == {h1}
TwoHandlers == {h1, h2}
NoTimer == {}
OneTimer == {t1}
TwoTimers == {t1, t2}
HandlerFlow == {h1}
HandlerAndTimer == {h1, t1}
HandlersAndTimer == {h1, h2, t1}
HandlerAndTimers == {h1, t1, t2}

\* Events that deserialize are interchangeable.
Symmetry == Permutations(Messages \ Undecodable)
=============================================================================
