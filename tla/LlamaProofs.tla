---------------------------- MODULE LlamaProofs ----------------------------
(***************************************************************************)
(* Proofs about the llama.cpp back end: the installer of its runtime, for  *)
(* any number of runs (RuntimeInstall), and the engine as the supervisor   *)
(* of the process it starts from there (LlamaServer).  The two share no    *)
(* state: an installed runtime is all that the one leaves to the other.    *)
(***************************************************************************)
EXTENDS RuntimeInstall, LlamaServer, TLAPS

(* The runtime of RuntimeInstall.                                          *)

(* A run that has checked its archive extracts the pinned bytes, so that   *)
(* from the verification to the second rename it has staged a runtime.     *)
StagingInv ==
  /\ \A i \in Installers :
       pc[i] \in {"extracting", "verifying", "staged", "moving", "aside", "swapping"}
         => archive[i] = "good"
  /\ \A i \in Installers :
       pc[i] \in {"verifying", "staged", "moving", "aside", "swapping"}
         => staging[i] = "runtime"

(* What a run has set aside was at the destination: it is as whole.        *)
PreviousInv == \A i \in Installers : previous[i] \notin {"partial", "wrong"}

(* The destination is filled from a staging directory or from what was set *)
(* aside: DestinationIsWhole and RuntimeSurvives need to know both.        *)
IInv == TypeOK /\ StagingInv /\ PreviousInv /\ DestinationIsWhole /\ RuntimeSurvives

(* No run has begun.                                                       *)
LEMMA InitInv == Init => IInv
<1> SUFFICES ASSUME Init PROVE IInv
  OBVIOUS
<1> USE DEF Init
<1>1. TypeOK
  BY DEF TypeOK, Directories, Over
<1>2. StagingInv /\ PreviousInv /\ DestinationIsWhole /\ RuntimeSurvives
  BY DEF StagingInv, PreviousInv, DestinationIsWhole, RuntimeSurvives
<1> QED BY <1>1, <1>2 DEF IInv

(* A step of run i that leaves the destination and the runtime that i may  *)
(* have set aside where they are, for the property that looks at all runs. *)
LEMMA SurvivesElsewhere ==
  ASSUME RuntimeSurvives, NEW i \in Installers,
         \A j \in Installers \ {i} : pc'[j] = pc[j] /\ previous'[j] = previous[j],
         SetAsideIn(i) => SetAsideIn(i)' \/ dest' = "runtime" \/ strayed' \/ ~owed',
         dest = "runtime" => dest' = "runtime" \/ SetAsideIn(i)',
         strayed => strayed',
         owed' => owed \/ dest' = "runtime"
  PROVE  RuntimeSurvives'
<1> SUFFICES ASSUME owed', dest' # "runtime", ~strayed'
             PROVE  \E j \in Installers : SetAsideIn(j)'
  BY DEF RuntimeSurvives
<1>1. CASE dest = "runtime"
  BY <1>1
<1>2. CASE dest # "runtime"
  <2>1. PICK j \in Installers : SetAsideIn(j)
    BY <1>2 DEF RuntimeSurvives
  <2>2. CASE j = i
    BY <2>1, <2>2
  <2>3. CASE j # i
    BY <2>1, <2>3 DEF SetAsideIn
  <2> QED BY <2>2, <2>3
<1> QED BY <1>1, <1>2

(* Up to the first rename a run changes nothing but its own.               *)
LEMMA StagingPreserves ==
  ASSUME IInv, NEW i \in Installers,
         \/ Start(i) \/ Download(i) \/ CheckArchive(i) \/ Extract(i) \/ Verify(i)
         \/ Look(i) \/ Fails(i)
  PROVE  IInv'
<1> USE DEF IInv, TypeOK, Goto
<1>1. /\ UNCHANGED <<dest, previous, strayed, owed>>
      /\ pc[i] \notin Renaming
      /\ \A j \in Installers \ {i} : pc'[j] = pc[j]
  BY DEF Start, Download, CheckArchive, Extract, Verify, Look, Fails, Working,
         Renaming, Over
<1>2. TypeOK'
  BY DEF Start, Download, CheckArchive, Extract, Verify, Look, Fails, Working,
         Renaming, Over, Leaving, Directories
<1>3. StagingInv'
  BY DEF StagingInv, Start, Download, CheckArchive, Extract, Verify, Look, Fails,
         Working, Over
<1>4. PreviousInv' /\ DestinationIsWhole'
  BY <1>1 DEF PreviousInv, DestinationIsWhole
<1>5. RuntimeSurvives'
  BY <1>1, SurvivesElsewhere DEF SetAsideIn
<1> QED BY <1>2, <1>3, <1>4, <1>5

(* The two renames, and how each of them may fail.                         *)
LEMMA RenamingPreserves ==
  ASSUME IInv, NEW i \in Installers,
         \/ SetAside(i) \/ EnterTry(i) \/ Swap(i) \/ SwapFails(i)
         \/ Restore(i) \/ RestoreFails(i) \/ InterruptedAside(i)
  PROVE  IInv'
<1> USE DEF IInv, TypeOK, Goto
<1>1. /\ \A j \in Installers \ {i} : pc'[j] = pc[j] /\ previous'[j] = previous[j]
      /\ strayed' = strayed
  BY DEF SetAside, EnterTry, Swap, SwapFails, Restore, RestoreFails, InterruptedAside
<1>2. TypeOK'
  <2>1. owed' \in BOOLEAN
    BY Zenon DEF SetAside, EnterTry, Swap, SwapFails, Restore, RestoreFails, InterruptedAside
  <2>2. strayed' \in BOOLEAN
    BY ONLY <1>1, TypeOK, Zenon
  <2>3. /\ dest' \in Directories /\ archive' \in [Installers -> {"none", "good", "wrong"}]
        /\ staging' \in [Installers -> Directories]
        /\ previous' \in [Installers -> Directories]
    BY DEF SetAside, EnterTry, Swap, SwapFails, Restore, RestoreFails, InterruptedAside,
           Directories
  <2>4. pc' \in [Installers -> Working \cup Renaming \cup Leaving \cup Over]
    BY DEF SetAside, EnterTry, Swap, SwapFails, Restore, RestoreFails, InterruptedAside,
           Renaming, Leaving
  <2> QED BY ONLY <2>1, <2>2, <2>3, <2>4, Zenon
<1>3. StagingInv'
  BY DEF StagingInv, SetAside, EnterTry, Swap, SwapFails, Restore, RestoreFails,
         InterruptedAside
<1>4. PreviousInv' /\ DestinationIsWhole'
  BY DEF StagingInv, PreviousInv, DestinationIsWhole, SetAside, EnterTry, Swap,
         SwapFails, Restore, RestoreFails, InterruptedAside
<1>5. RuntimeSurvives'
  <2>1. SetAsideIn(i) => SetAsideIn(i)' \/ dest' = "runtime" \/ strayed' \/ ~owed'
    <3> SUFFICES ASSUME SetAsideIn(i), owed'
                 PROVE  SetAsideIn(i)' \/ dest' = "runtime" \/ strayed'
      OBVIOUS
    <3> QED BY DEF SetAsideIn, StagingInv, SetAside, EnterTry, Swap, SwapFails,
                   Restore, RestoreFails, InterruptedAside, Renaming
  <2>2. dest = "runtime" => dest' = "runtime" \/ SetAsideIn(i)'
    BY DEF SetAsideIn, SetAside, EnterTry, Swap, SwapFails, Restore, RestoreFails,
           InterruptedAside, Renaming, Occupied
  <2>3. owed' => owed \/ dest' = "runtime"
    BY DEF StagingInv, SetAside, EnterTry, Swap, SwapFails, Restore, RestoreFails,
           InterruptedAside
  <2> QED BY <1>1, <2>1, <2>2, <2>3, SurvivesElsewhere
<1> QED BY <1>2, <1>3, <1>4, <1>5

(* A run ends, is killed, or all are: a runtime set aside is then strayed. *)
LEMMA EndPreserves ==
  ASSUME IInv, (\E i \in Installers : CleanUp(i) \/ Kill(i)) \/ PowerLoss
  PROVE  IInv'
<1> USE DEF IInv, TypeOK
<1>1. ASSUME NEW i \in Installers, CleanUp(i) PROVE IInv'
  <2>1. TypeOK' /\ StagingInv' /\ PreviousInv' /\ DestinationIsWhole'
    BY <1>1 DEF CleanUp, Goto, StagingInv, PreviousInv, DestinationIsWhole, Leaving,
                Over, Directories
  <2>2. RuntimeSurvives'
    BY <1>1, SurvivesElsewhere DEF CleanUp, Goto, SetAsideIn, Leaving, Renaming
  <2> QED BY <2>1, <2>2
<1>2. ASSUME NEW R \in SUBSET Installers, Abandoned(R) PROVE
        /\ pc' \in [Installers -> Working \cup Renaming \cup Leaving \cup Over]
        /\ archive' \in [Installers -> {"none", "good", "wrong"}]
        /\ staging' \in [Installers -> Directories]
        /\ previous' \in [Installers -> Directories]
        /\ strayed' \in BOOLEAN
        /\ StagingInv' /\ PreviousInv'
        /\ (\E j \in Installers : SetAsideIn(j)) \/ strayed
             => strayed' \/ \E j \in Installers : SetAsideIn(j)'
  <2>1. /\ pc' \in [Installers -> Working \cup Renaming \cup Leaving \cup Over]
        /\ archive' \in [Installers -> {"none", "good", "wrong"}]
        /\ staging' \in [Installers -> Directories]
        /\ previous' \in [Installers -> Directories]
        /\ strayed' \in BOOLEAN
    BY <1>2 DEF Abandoned, Over, Directories
  <2>2. StagingInv' /\ PreviousInv'
    BY <1>2 DEF Abandoned, StagingInv, PreviousInv
  <2>3. ASSUME NEW j \in Installers, SetAsideIn(j)
        PROVE  strayed' \/ SetAsideIn(j)'
    BY <1>2, <2>3 DEF Abandoned, SetAsideIn
  <2>4. strayed => strayed'
    BY <1>2 DEF Abandoned
  <2> QED BY <2>1, <2>2, <2>3, <2>4
<1>3. ASSUME NEW i \in Installers, Kill(i) PROVE IInv'
  <2>1. Abandoned({i}) /\ dest' = dest /\ owed' = owed
    BY <1>3 DEF Kill
  <2> QED BY <1>2, <2>1 DEF DestinationIsWhole, RuntimeSurvives
<1>4. CASE PowerLoss
  <2>1. /\ Abandoned(Installers)
        /\ \/ dest' = dest /\ owed' = owed
           \/ owed' = FALSE /\ dest' = IF dest = "runtime" THEN "torn" ELSE dest
    BY <1>4 DEF PowerLoss
  <2>2. /\ dest' \in Directories /\ owed' \in BOOLEAN
        /\ DestinationIsWhole'
    BY <2>1 DEF DestinationIsWhole, Directories
  <2>3. RuntimeSurvives'
    BY <1>2, <2>1 DEF RuntimeSurvives
  <2> QED BY <1>2, <2>1, <2>2, <2>3
<1> QED BY <1>1, <1>3, <1>4

(* IInv is an invariant of the specification.                              *)
THEOREM Invariance == Spec => []IInv
<1>1. ASSUME IInv, UNCHANGED vars PROVE IInv'
  BY <1>1 DEF vars, IInv, TypeOK, StagingInv, PreviousInv, DestinationIsWhole,
              RuntimeSurvives, SetAsideIn
<1>2. ASSUME IInv, [Next]_vars PROVE IInv'
  BY <1>1, <1>2, StagingPreserves, RenamingPreserves, EndPreserves DEF Next, Run
<1> QED BY <1>2, InitInv, PTL DEF Spec

(* The types, for any number of runs.                                      *)
THEOREM TypeCorrect == Spec => []TypeOK
<1>1. IInv => TypeOK
  BY DEF IInv
<1> QED BY <1>1, Invariance, PTL

(* However many runs install into it at once and wherever they are killed, *)
(* the destination holds what was there before or a runtime that was       *)
(* verified (download_llama_runtime.py:192-228).                           *)
THEOREM DestinationStaysWhole == Spec => []DestinationIsWhole
<1>1. IInv => DestinationIsWhole
  BY DEF IInv
<1> QED BY <1>1, Invariance, PTL

(* A runtime that was at the destination is there, set aside by a run that *)
(* will put it back, or left on the disk by one that was killed; the three *)
(* mishaps of RuntimeSurvives excepted.                                    *)
THEOREM RuntimeIsKept == Spec => []RuntimeSurvives
<1>1. IInv => RuntimeSurvives
  BY DEF IInv
<1> QED BY <1>1, Invariance, PTL

-----------------------------------------------------------------------------
(* The server of LlamaServer.                                              *)

Detached == Ended \cup {"detached", "unaddressed", "cleared", "terminating", "killing"}
Unspawned == {"begun", "keyed", "addressed"}

(* Where the thread in load is tells whether there is a server, and what   *)
(* self.process can hold.                                                  *)
LoadInv ==
  /\ un["load"] # "none" => loader \in {"cleaning", "raised"}
  /\ server = "none" => loader \in Unspawned \cup {"cleaning", "raised"}
  /\ loader \in Unspawned => server = "none"
  /\ attached => server # "none" /\ loader \notin Unspawned \cup {"spawned"}
  /\ loader = "returned" => server \in {"healthy", "dead"}

(* A call of unload that has read the process ends with the process dead,  *)
(* or fails.                                                               *)
HeldInv ==
  \A c \in Callers : held[c] =>
    /\ un[c] \notin {"none", "called"} /\ server # "none"
    /\ un[c] = "done" => ~Alive

(* Until somebody calls unload, load keeps what it has set.                *)
UntouchedInv ==
  (\A c \in Callers : un[c] = "none") =>
    /\ loader \in {"attached", "starting", "polling", "asking", "returned"} => attached
    /\ loader \notin {"begun", "cleaning", "raised"} => key
    /\ loader \notin {"begun", "keyed", "cleaning", "raised"} => url

(* Unless the load is abandoned, its thread and the calls of unload follow *)
(* one another, so that of a process that is no longer attached somebody   *)
(* took care.                                                              *)
SerialInv ==
  ~abandoned =>
    /\ loader \notin Loaded => un["cleanup"] = "none" /\ un["shutdown"] = "none"
    /\ un["shutdown"] # "none" => ~Active("cleanup")
    /\ \A c \in Callers : un[c] = "taken" => held[c] = attached
    /\ \A c \in Callers : un[c] \in Detached => ~attached
    /\ server # "none" /\ loader # "spawned" /\ ~attached =>
         \E c \in Callers : held[c] /\ un[c] \in Detached

ServerInv ==
  ServerTypeOK /\ LoadInv /\ HeldInv /\ UntouchedInv /\ SerialInv /\ FailedLoadIsClean

(* No thread has begun.                                                    *)
LEMMA InitServerInv == ServerInit => ServerInv
<1> SUFFICES ASSUME ServerInit PROVE ServerInv
  OBVIOUS
<1> USE DEF ServerInit, Callers, Ended
<1>1. ServerTypeOK
  BY DEF ServerTypeOK, Active
<1>2. LoadInv /\ HeldInv /\ UntouchedInv
  BY DEF LoadInv, HeldInv, UntouchedInv, Unspawned
<1>3. SerialInv /\ FailedLoadIsClean
  BY DEF SerialInv, FailedLoadIsClean, Active, Detached, Loaded
<1> QED BY <1>1, <1>2, <1>3 DEF ServerInv

(* The process, the deadline and the cancellation: no thread takes a step. *)
LEMMA OutsideStep ==
  ASSUME ServerInv, Answers \/ Dies \/ DeadlinePasses \/ Abandon \/ UNCHANGED serverVars
  PROVE  ServerInv'
<1> USE DEF ServerInv, Answers, Dies, DeadlinePasses, Abandon, serverVars, attributes,
            unloads, Alive
<1>1. ServerTypeOK'
  <2>1. /\ UNCHANGED <<attached, url, key, loader, un, held>>
        /\ server' \in {server, "healthy", "dead"}
    OBVIOUS
  <2>2. (late' = late \/ late' = TRUE) /\ (abandoned' = abandoned \/ abandoned' = TRUE)
    BY Zenon
  <2>3. late' \in BOOLEAN /\ abandoned' \in BOOLEAN
    BY ONLY <2>2, ServerTypeOK, Zenon DEF ServerTypeOK
  <2>4. server' \in {"none", "up", "healthy", "dead"}
    BY ONLY <2>1, ServerTypeOK DEF ServerTypeOK
  <2> QED BY ONLY <2>1, <2>3, <2>4, ServerTypeOK, Zenon DEF ServerTypeOK, Active
<1>2. LoadInv'
  BY DEF LoadInv, Unspawned
<1>3. HeldInv'
  BY DEF HeldInv
<1>4. UntouchedInv'
  BY DEF UntouchedInv
<1>5. SerialInv'
  BY DEF SerialInv, Active
<1>6. FailedLoadIsClean'
  BY DEF FailedLoadIsClean
<1> QED BY <1>1, <1>2, <1>3, <1>4, <1>5, <1>6

(* The thread in load.                                                     *)
LEMMA LoadStep == ASSUME ServerInv, Load PROVE ServerInv'
<1> USE DEF ServerInv, Load, attributes, unloads, GiveUp, Continue,
            SetKey, SetUrl, Refuse, Spawn, SpawnFails, Attach, StartLogThreads,
            CheckInitialized, Poll, GetHealth, CleanedUp, Loaded, Callers, Ended
<1>1. ServerTypeOK'
  <2>1. /\ UNCHANGED <<late, held, abandoned>>
        /\ attached' = attached \/ attached' = TRUE
        /\ url' = url \/ url' = TRUE
        /\ key' = key \/ key' = TRUE
    BY Zenon
  <2>2. /\ attached' \in BOOLEAN /\ url' \in BOOLEAN /\ key' \in BOOLEAN
        /\ late' \in BOOLEAN /\ abandoned' \in BOOLEAN /\ held' \in [Callers -> BOOLEAN]
    BY ONLY <2>1, ServerTypeOK, Zenon DEF ServerTypeOK
  <2>3. /\ server' \in {server, "up"}
        /\ loader' \in Loaded \cup {"keyed", "addressed", "spawned", "attached",
                                     "starting", "polling", "asking", "cleaning"}
    OBVIOUS
  <2>4. un' = un \/ (un' = [un EXCEPT !["load"] = "called"] /\ loader' = "cleaning")
    BY Zenon
  <2>5. un' \in [Callers -> Ended \cup {"none", "called", "taken", "detached",
                  "unaddressed", "cleared", "terminating", "killing"}]
    BY ONLY <2>4, ServerTypeOK DEF ServerTypeOK
  <2>6. loader = "cleaning" => un["load"] \in Ended /\ un' = un
    BY DEF ServerTypeOK
  <2>7. Active("load")' => loader' = "cleaning"
    BY ONLY <2>4, <2>6, ServerTypeOK DEF ServerTypeOK, Active
  <2>8. server' \in {"none", "up", "healthy", "dead"}
    BY ONLY <2>3, ServerTypeOK DEF ServerTypeOK
  <2> QED BY ONLY <2>2, <2>3, <2>5, <2>7, <2>8 DEF ServerTypeOK
<1>2. LoadInv'
  BY DEF ServerTypeOK, LoadInv, Unspawned, Alive
<1>3. HeldInv'
  BY DEF ServerTypeOK, LoadInv, HeldInv, Unspawned, Alive
<1>4. UntouchedInv'
  BY DEF ServerTypeOK, LoadInv, UntouchedInv
<1>5. SerialInv'
  BY DEF ServerTypeOK, LoadInv, HeldInv, SerialInv, Active, Detached, Unspawned
<1>6. FailedLoadIsClean'
  BY DEF ServerTypeOK, LoadInv, HeldInv, SerialInv, FailedLoadIsClean, Detached, Unspawned,
         Alive
<1> QED BY <1>1, <1>2, <1>3, <1>4, <1>5, <1>6

(* The manager calls unload.                                               *)
LEMMA CallStep ==
  ASSUME ServerInv, NEW c \in {"cleanup", "shutdown"}, Call(c)
  PROVE  ServerInv'
<1> USE DEF ServerInv, Call, attributes, Proceed, Loaded, Callers, Ended
<1>1. ServerTypeOK'
  BY DEF ServerTypeOK, Active
<1>2. LoadInv'
  BY DEF ServerTypeOK, LoadInv, Unspawned
<1>3. HeldInv'
  BY DEF ServerTypeOK, HeldInv, Alive
<1>4. UntouchedInv'
  BY DEF ServerTypeOK, UntouchedInv
<1>5. SerialInv'
  BY DEF ServerTypeOK, SerialInv, Active, Detached
<1>6. FailedLoadIsClean'
  BY DEF ServerTypeOK, FailedLoadIsClean, Alive
<1> QED BY <1>1, <1>2, <1>3, <1>4, <1>5, <1>6

(* A thread in unload.                                                     *)
LEMMA UnloadStep ==
  ASSUME ServerInv, NEW c \in Callers, Unload(c)
  PROVE  ServerInv'
<1> USE DEF ServerInv, Unload, attributes, Proceed, Loaded, Callers, Ended,
            Take, Detach, ClearUrl, ClearKey, Terminate, Wait
<1>1. ServerTypeOK'
  <2>1. PICK to \in Detached \cup {"taken"} : Proceed(c, to)
    BY DEF Detached
  <2>2. un' \in [Callers -> Ended \cup {"none", "called", "taken", "detached",
                  "unaddressed", "cleared", "terminating", "killing"}]
    BY <2>1 DEF ServerTypeOK, Detached
  <2>3. Active(c) /\ UNCHANGED <<loader, late, abandoned, server>>
    BY DEF Active
  <2>4. Active("load")' => loader' = "cleaning"
    BY <2>1, <2>3 DEF ServerTypeOK, Active
  <2>5. attached' \in BOOLEAN /\ url' \in BOOLEAN /\ key' \in BOOLEAN
        /\ held' \in [Callers -> BOOLEAN]
    <3>1. /\ attached' = attached \/ attached' = FALSE
          /\ url' = url \/ url' = FALSE
          /\ key' = key \/ key' = FALSE
          /\ held' = held \/ held' = [held EXCEPT ![c] = attached]
      BY Zenon
    <3>2. attached \in BOOLEAN /\ held \in [Callers -> BOOLEAN]
          /\ url \in BOOLEAN /\ key \in BOOLEAN
      BY DEF ServerTypeOK
    <3>3. attached' \in BOOLEAN /\ url' \in BOOLEAN /\ key' \in BOOLEAN
      BY ONLY <3>1, <3>2, Zenon
    <3>4. held' \in [Callers -> BOOLEAN]
      BY ONLY <3>1, <3>2
    <3> QED BY ONLY <3>3, <3>4
  <2> QED BY <2>2, <2>3, <2>4, <2>5 DEF ServerTypeOK
<1>2. LoadInv'
  BY DEF ServerTypeOK, LoadInv, Unspawned
<1>3. HeldInv'
  BY DEF ServerTypeOK, LoadInv, HeldInv, Alive
<1>4. UntouchedInv'
  BY DEF ServerTypeOK, UntouchedInv
<1>5. SerialInv'
  BY DEF ServerTypeOK, SerialInv, Active, Detached
<1>6. FailedLoadIsClean'
  BY DEF ServerTypeOK, FailedLoadIsClean, LoadInv, SerialInv, Alive
<1> QED BY <1>1, <1>2, <1>3, <1>4, <1>5, <1>6

THEOREM ServerInvariance == ServerSpec => []ServerInv
<1>1. ServerInv /\ [ServerNext]_serverVars => ServerInv'
  BY OutsideStep, LoadStep, CallStep, UnloadStep DEF ServerNext, AtRest
<1> QED BY <1>1, InitServerInv, PTL DEF ServerSpec

(* The types, and the thread in load unloads only while it cleans up.      *)
THEOREM ServerTypes == ServerSpec => []ServerTypeOK
<1>1. ServerInv => ServerTypeOK
  BY DEF ServerInv
<1> QED BY <1>1, ServerInvariance, PTL

(* When every call is over, a live server is attached and shutdown has yet *)
(* to come, but for a load that was cancelled (llama_cpp.py:246-260,       *)
(* 410-421).                                                               *)
THEOREM ServerIsKept == ServerSpec => []ServerIsNotLost
<1>1. ServerInv => ServerIsNotLost
  <2> SUFFICES ASSUME ServerInv, Rest, Alive, \A c \in Callers : un[c] # "failed"
               PROVE  /\ ~abandoned => attached /\ un["shutdown"] = "none"
                      /\ \A c \in Callers : ~held[c]
    BY DEF ServerIsNotLost
  <2>1. \A c \in Callers : un[c] \in {"none", "done"}
    BY DEF Rest, Active, Ended
  <2>2. \A c \in Callers : ~held[c]
    BY <2>1 DEF ServerInv, HeldInv
  <2>3. ASSUME ~abandoned PROVE attached
    BY <2>2, <2>3 DEF ServerInv, LoadInv, SerialInv, Rest, Loaded, Alive
  <2>4. ASSUME ~abandoned PROVE un["shutdown"] = "none"
    BY <2>1, <2>3, <2>4 DEF ServerInv, SerialInv, Callers, Detached, Ended
  <2> QED BY <2>2, <2>3, <2>4
<1> QED BY <1>1, ServerInvariance, PTL

(* A load that raises has ended its server itself (llama_cpp.py:258-260).  *)
THEOREM FailedLoadStaysClean == ServerSpec => []FailedLoadIsClean
<1>1. ServerInv => FailedLoadIsClean
  BY DEF ServerInv
<1> QED BY <1>1, ServerInvariance, PTL

(* A load that returns leaves a server that has answered and all that a    *)
(* request needs to reach it (llama_cpp.py:205-224, 279-283).              *)
THEOREM LoadedStaysServing == ServerSpec => []LoadedIsServing
<1>1. ServerInv => LoadedIsServing
  BY DEF ServerInv, LoadInv, UntouchedInv, LoadedIsServing
<1> QED BY <1>1, ServerInvariance, PTL

-----------------------------------------------------------------------------
(* The engine that EngineLife describes.                                   *)

LEMMA ServerRefinesInit == ServerInit => Engine!Init
BY DEF ServerInit, Engine!Init, EngineJob, LoadFailed, EngineCalls, CallState, Callers, Ended

(* Only Attach publishes, only GetHealth returns, and load fails where it  *)
(* refuses or where its own unload resets self.process.                    *)
LEMMA ServerRefinesNext ==
  ASSUME ServerInv, [ServerNext]_serverVars
  PROVE  [Engine!Next]_(Engine!vars)
<1> USE DEF CallState, Ended, Callers, Loaded, EngineJob, LoadFailed, EngineCalls
<1>1. CASE Answers \/ Dies \/ DeadlinePasses \/ Abandon \/ AtRest \/ UNCHANGED serverVars
  <2>1. UNCHANGED <<attached, loader, un>> /\ (server = "none") = (server' = "none")
    BY <1>1 DEF Answers, Dies, Alive, DeadlinePasses, Abandon, AtRest, serverVars, attributes,
                unloads
  <2> QED BY <2>1 DEF Engine!vars
<1>2. CASE Load
  <2> USE DEF Load, attributes, unloads, ServerInv, LoadInv, ServerTypeOK, Unspawned
  <2>1. CASE Attach
    BY <2>1 DEF Attach, Engine!Next, Engine!Publish
  <2>2. CASE GetHealth
    BY <2>2 DEF GetHealth, Engine!Next, Engine!Return, Engine!vars
  <2>3. CASE Refuse
    BY <2>3 DEF Refuse, Engine!Next, Engine!Fail
  <2>4. CASE SetKey \/ SetUrl \/ Spawn
    BY <2>4 DEF SetKey, SetUrl, Spawn, Engine!vars
  <2>5. CASE SpawnFails \/ StartLogThreads \/ CheckInitialized \/ Poll
    BY <2>5 DEF SpawnFails, StartLogThreads, CheckInitialized, Poll, GiveUp, Continue,
                Engine!vars
  <2>6. CASE CleanedUp
    <3>1. CallState[un["load"]] \in {"cleared", "returned", "raised"}
      BY <2>6 DEF CleanedUp
    <3> QED BY <2>6, <3>1 DEF CleanedUp, Engine!vars
  <2> QED BY <1>2, <2>1, <2>2, <2>3, <2>4, <2>5, <2>6
<1>3. ASSUME NEW c \in {"cleanup", "shutdown"}, Call(c) PROVE Engine!Call(c)
  BY <1>3 DEF Call, Proceed, attributes, ServerInv, ServerTypeOK, Engine!Call
<1>4. ASSUME NEW c \in Callers, Unload(c) PROVE [Engine!Next]_(Engine!vars)
  <2> USE DEF Unload, attributes, Proceed, ServerInv, LoadInv, ServerTypeOK
  <2>1. CASE Detach(c)
    <3>1. CASE c = "load"
      <4>1. loader = "cleaning" /\ un["load"] = "taken" /\ un'["load"] = "detached"
        BY <2>1, <3>1 DEF Detach, Active
      <4>2. EngineJob \in {"loading", "published"}
        BY <4>1
      <4>3. EngineJob' = "failed"
        BY <2>1, <4>1 DEF Detach
      <4>4. UNCHANGED EngineCalls
        BY <2>1, <3>1 DEF Detach
      <4>5. attached' \in {attached, FALSE}
        BY <2>1 DEF Detach
      <4> QED BY <4>2, <4>3, <4>4, <4>5 DEF Engine!Fail, Engine!Next
    <3>2. CASE c # "load"
      <4>1. Engine!Clear(c)
        BY <2>1, <3>2 DEF Detach, Engine!Clear
      <4> QED BY <3>2, <4>1 DEF Engine!Next
    <3> QED BY <3>1, <3>2
  <2>2. CASE Take(c) \/ ClearUrl(c) \/ ClearKey(c)
    BY <2>2 DEF Take, ClearUrl, ClearKey, Engine!vars
  <2>3. CASE Terminate(c) \/ Wait(c)
    <3>1. PICK to \in Ended \cup {"terminating", "killing"} : Proceed(c, to)
      BY <2>3 DEF Terminate, Wait
    <3>2. CASE c = "load" \/ to \notin Ended
      BY <2>3, <3>1, <3>2 DEF Terminate, Wait, Engine!vars
    <3>3. CASE c # "load" /\ to \in Ended
      <4>1. Engine!End(c)
        <5>1. CallState[un[c]] = "cleared" /\ CallState[to] \in {"returned", "raised"}
          BY <2>3, <3>3 DEF Terminate, Wait
        <5>2. EngineCalls' = [EngineCalls EXCEPT ![c] = CallState[to]]
          BY <3>1, <3>3
        <5>3. UNCHANGED <<attached, loader, server, un["load"]>>
          BY <2>3, <3>1, <3>3 DEF Terminate, Wait
        <5> QED BY <3>3, <5>1, <5>2, <5>3 DEF Engine!End
      <4> QED BY <3>3, <4>1 DEF Engine!Next
    <3> QED BY <3>2, <3>3
  <2> QED BY <1>4, <2>1, <2>2, <2>3
<1> QED BY <1>1, <1>2, <1>3, <1>4 DEF ServerNext, Engine!Next

(* The llama.cpp engine is what the life cycle takes an engine for,        *)
(* however its threads interleave (llama_cpp.py:246-260, 410-424).         *)
THEOREM ServerImplementsEngine == ServerSpec => ImplementsEngine
<1>1. ServerInv /\ [ServerNext]_serverVars => [Engine!Next]_(Engine!vars)
  BY ServerRefinesNext
<1> QED BY <1>1, ServerRefinesInit, ServerInvariance, PTL
        DEF ServerSpec, ImplementsEngine, Engine!Spec
=============================================================================
