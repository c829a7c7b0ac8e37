-------------------------------- MODULE Fleet --------------------------------
(***************************************************************************)
(* What the supervisor promises, without messages, locks or goroutines: a  *)
(* map from monitors to the settings their checkers run.  A checker starts *)
(* with settings that were read from the table, in place of the one there  *)
(* was, and is stopped for good only after its row is gone; nothing but a  *)
(* crash of the worker takes the checker of a monitor that still exists.   *)
(***************************************************************************)
CONSTANTS
    Monitors,
    Versions  \* what a write may leave in a row; 0 stands for no row

VARIABLES
    table,    \* the settings of a monitor's row
    known,    \* monitors that were ever created
    held,     \* copies of rows that the worker has read and not started yet
    running   \* the settings of a monitor's checkers

vars == <<table, known, held, running>>

Copy(m) == [mon |-> m, version |-> table[m]]

Existing == {m \in Monitors : table[m] # 0}

Init ==
    /\ table = [m \in Monitors |-> 0]
    /\ known = {}
    /\ held = {}
    /\ running = [m \in Monitors |-> {}]

Set(m, v) == table' = [table EXCEPT ![m] = v] /\ UNCHANGED <<held, running>>

\* An identifier is not used again.
Create(m, v) == m \notin known /\ known' = known \cup {m} /\ Set(m, v)

Update(m, v) == m \in Existing /\ Set(m, v) /\ UNCHANGED known

\* One monitor, or all those of a project.
Delete(S) ==
    /\ S \subseteq Existing
    /\ table' = [m \in Monitors |-> IF m \in S THEN 0 ELSE table[m]]
    /\ UNCHANGED <<known, held, running>>

\* The whole table, or one row of it.
Read ==
    /\ \/ held' = held \cup {Copy(m) : m \in Existing}
       \/ \E m \in Existing : held' = held \cup {Copy(m)}
    /\ UNCHANGED <<table, known, running>>

\* Whatever ran before is replaced, even by older settings.
Start(c) ==
    /\ c \in held
    /\ held' \in {held, held \ {c}}
    /\ running' = [running EXCEPT ![c.mon] = {c.version}]
    /\ UNCHANGED <<table, known>>

Stop(m) ==
    /\ m \in known \ Existing
    /\ running' = [running EXCEPT ![m] = {}]
    /\ UNCHANGED <<table, known, held>>

Crash ==
    /\ held' = {}
    /\ running' = [m \in Monitors |-> {}]
    /\ UNCHANGED <<table, known>>

Next ==
    \/ \E m \in Monitors, v \in Versions : Create(m, v) \/ Update(m, v)
    \/ \E S \in SUBSET Monitors : Delete(S)
    \/ \E m \in Monitors : Stop(m)
    \/ \E c \in held : Start(c)
    \/ Read
    \/ Crash

Spec == Init /\ [][Next]_vars
=============================================================================
