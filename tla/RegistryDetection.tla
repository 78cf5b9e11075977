-------------------------- MODULE RegistryDetection --------------------------
(****************************************************************************)
(* How the two managers come to watch the API of ACM's cluster registry,    *)
(* which may be installed after them.  At start a manager asks twice        *)
(* whether the API is ready: add starts the watches if it is, and           *)
(* DetectClusterRegistry starts a poller if it is not, which ends the       *)
(* process once it is.  The Deployment starts an ended process again.       *)
(****************************************************************************)
EXTENDS Naturals

CONSTANTS Managers,
          MaxFlips,  \* bound: how often the API comes or goes
          MaxFaults  \* bound: crashes

ASSUME BoundsAssumption == MaxFlips \in Nat /\ MaxFaults \in Nat

VARIABLES ready,     \* the API answers
          pc,        \* where each manager is
          watching,  \* managers that watch what they schedule on
          polling,   \* managers whose poller runs
          came,      \* history: managers the API has come for between their questions
          flips, faults

vars == <<ready, pc, watching, polling, came, flips, faults>>

TypeOK == /\ ready \in BOOLEAN
          /\ pc \in [Managers -> {"down", "added", "running"}]
          /\ watching \subseteq {m \in Managers : pc[m] # "down"}
          /\ polling \subseteq {m \in Managers : pc[m] = "running"}
          /\ came \subseteq {m \in Managers : pc[m] # "down"}
          /\ flips \in 0 .. MaxFlips /\ faults \in 0 .. MaxFaults

Init == /\ ready \in BOOLEAN
        /\ pc = [m \in Managers |-> "down"]
        /\ watching = {} /\ polling = {} /\ came = {}
        /\ flips = 0 /\ faults = 0

-----------------------------------------------------------------------------
Flip == /\ flips < MaxFlips
        /\ flips' = flips + 1
        /\ ready' = ~ready
        /\ came' = IF ready THEN came ELSE came \cup {m \in Managers : pc[m] = "added"}
        /\ UNCHANGED <<pc, watching, polling, faults>>

\* add: the watches are for this process's life.
Add(m) ==
    /\ pc[m] = "down"
    /\ pc' = [pc EXCEPT ![m] = "added"]
    /\ watching' = IF ready THEN watching \cup {m} ELSE watching
    /\ UNCHANGED <<ready, polling, came, flips, faults>>

\* DetectClusterRegistry, then the manager runs.
Detect(m) ==
    /\ pc[m] = "added"
    /\ pc' = [pc EXCEPT ![m] = "running"]
    /\ polling' = IF ready THEN polling ELSE polling \cup {m}
    /\ UNCHANGED <<ready, watching, came, flips, faults>>

Exit(m) == /\ pc' = [pc EXCEPT ![m] = "down"]
           /\ watching' = watching \ {m}
           /\ polling' = polling \ {m}
           /\ came' = came \ {m}

\* Mutant: the poller goes back to the start instead of ending the process.
PollAndAddAgain(m) ==
    /\ m \in polling
    /\ ready
    /\ pc' = [pc EXCEPT ![m] = "down"]
    /\ UNCHANGED <<ready, watching, polling, came, flips, faults>>

\* Mutant: the poller just ends.
PollAndReturn(m) ==
    /\ m \in polling
    /\ ready
    /\ polling' = polling \ {m}
    /\ UNCHANGED <<ready, pc, watching, came, flips, faults>>

\* A look of the poller that finds the API ready; others change nothing.
Poll(m) ==
    /\ m \in polling
    /\ ready
    /\ Exit(m)
    /\ UNCHANGED <<ready, flips, faults>>

\* Among other things, a start that watches an API which has gone again.
Crash(m) ==
    /\ faults < MaxFaults /\ faults' = faults + 1
    /\ pc[m] # "down"
    /\ Exit(m)
    /\ UNCHANGED <<ready, flips>>

\* All managers run, and the pollers wait for the API.
Quiet == /\ \A m \in Managers : pc[m] = "running"
         /\ ready => polling = {}
         /\ UNCHANGED vars

Next == \/ Flip
        \/ \E m \in Managers : Add(m) \/ Detect(m) \/ Poll(m) \/ Crash(m)
        \/ Quiet

Spec == Init /\ [][Next]_vars

\* Processes run on and pollers poll; the API and the faults do as they like.
Fairness == \A m \in Managers : WF_vars(Add(m)) /\ WF_vars(Detect(m)) /\ WF_vars(Poll(m))

FairSpec == Spec /\ Fairness

-----------------------------------------------------------------------------
\* Between its two questions a manager without watches has yet to see the API, unless
\* it has come meanwhile.
AddedKnows ==
    \A m \in Managers : pc[m] = "added" => /\ m \in watching \/ m \in came \/ ~ready
                                           /\ m \notin polling

\* Only an API that comes just between the two questions of a manager's start leaves
\* it running without watches and without a poller that will end it.
WatchesOrPolls ==
    \A m \in Managers : pc[m] = "running" => m \in watching \cup polling \cup came

Inv == TypeOK /\ AddedKnows /\ WatchesOrPolls

\* "Detect the ACM cluster API service every 10 seconds. the controller will be
\* exited when it is ready [and] auto restarted" (utils/placement.go:135-136): once
\* the API is there to stay, every manager ends up watching it.
EventuallyWatching == <>[]ready => <>[](watching = Managers)

\* So it is for every manager that the API has not come for between its questions,
\* those included that it has gone for there.
EventuallyAllButRaced == <>[]ready => <>[](Managers \ came \subseteq watching)
=============================================================================
