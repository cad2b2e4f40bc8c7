------------------------------- MODULE FanOut -------------------------------
(* What execute_command_on_multiple_machines and its two siblings for files  *)
(* (coordinator/util/remote.py) promise their callers: one answer for each   *)
(* machine that was asked, none that is taken back, and no return before the *)
(* last answer; or an exception. Either way no thread is at work afterwards. *)
CONSTANTS Machines, Answers

VARIABLES asked, atWork, answers, call

fanVars == <<asked, atWork, answers, call>>

FanInit ==
    /\ asked \in SUBSET Machines /\ atWork \in SUBSET asked
    /\ answers = [m \in {} |-> m]
    /\ call = "running"

ThreadEnds(m) ==
    /\ m \in atWork
    /\ atWork' = atWork \ {m}
    /\ UNCHANGED <<asked, answers, call>>

Answer(m, r) ==
    /\ call = "running" /\ m \in asked \ (DOMAIN answers \union atWork)
    /\ answers' = [n \in DOMAIN answers \union {m} |-> IF n = m THEN r ELSE answers[n]]
    /\ UNCHANGED <<asked, atWork, call>>

FanReturn ==
    /\ call = "running" /\ DOMAIN answers = asked /\ atWork = {}
    /\ call' = "returned"
    /\ UNCHANGED <<asked, atWork, answers>>

FanRaise ==
    /\ call = "running" /\ atWork = {}
    /\ call' = "raised"
    /\ UNCHANGED <<asked, atWork, answers>>

FanNext ==
    \/ FanReturn \/ FanRaise
    \/ \E m \in Machines : ThreadEnds(m) \/ \E r \in Answers : Answer(m, r)

FanSpec == FanInit /\ [][FanNext]_fanVars
=============================================================================
