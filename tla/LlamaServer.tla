---------------------------- MODULE LlamaServer ----------------------------
(***************************************************************************)
(* The llama.cpp engine as the supervisor of a llama-server process        *)
(* (engines/llama_cpp.py): the thread in load, with the poll of /health    *)
(* until the server is ready, and the calls of unload by load itself, by   *)
(* the cleanup of ModelManager.initialize and by ModelManager.shutdown.    *)
(* Threads interleave between any two reads and writes of the engine's     *)
(* attributes.  When the manager calls what is Lifecycle's subject; here   *)
(* it calls whenever the code may.                                         *)
(***************************************************************************)
VARIABLES
  attached, url, key,  \* self.process, self._base_url and self._api_key are set
  server,     \* the process
  loader,     \* where the thread in load is
  late,       \* the startup deadline is past
  un,         \* where each call of unload is
  held,       \* it read the process from self.process
  abandoned   \* the load task was cancelled: nobody hears of the thread

serverVars == <<attached, url, key, server, loader, late, un, held, abandoned>>
attributes == <<attached, url, key>>
unloads == <<un, held>>

Callers == {"load", "cleanup", "shutdown"}
Alive == server \in {"up", "healthy"}  \* "up" does not answer yet, if ever
Loaded == {"returned", "raised"}
Ended == {"done", "failed"}
Active(c) == un[c] \notin Ended \cup {"none"}

ServerInit ==
  /\ attached = FALSE /\ url = FALSE /\ key = FALSE
  /\ server = "none" /\ loader = "begun" /\ late = FALSE
  /\ un = [c \in Callers |-> "none"] /\ held = [c \in Callers |-> FALSE]
  /\ abandoned = FALSE

-----------------------------------------------------------------------------
(* The process.                                                           *)

Answers ==
  /\ server = "up" /\ server' = "healthy"
  /\ UNCHANGED <<attributes, loader, late, unloads, abandoned>>

(* It crashes, cannot have its port, or does as a signal says.            *)
Dies ==
  /\ Alive /\ server' = "dead"
  /\ UNCHANGED <<attributes, loader, late, unloads, abandoned>>

-----------------------------------------------------------------------------
(* load, which initialize calls once.                                     *)

SetKey ==
  /\ loader = "begun" /\ loader' = "keyed" /\ key' = TRUE
  /\ UNCHANGED <<attached, url, server, late, unloads, abandoned>>

SetUrl ==
  /\ loader = "keyed" /\ loader' = "addressed" /\ url' = TRUE
  /\ UNCHANGED <<attached, key, server, late, unloads, abandoned>>

(* A manifest, binary or version that will not do: nothing to clean up.   *)
Refuse ==
  /\ loader \in {"begun", "keyed"} /\ loader' = "raised"
  /\ UNCHANGED <<attributes, server, late, unloads, abandoned>>

Spawn ==
  /\ loader = "addressed" /\ loader' = "spawned" /\ server' = "up"
  /\ UNCHANGED <<attributes, late, unloads, abandoned>>

Attach ==
  /\ loader = "spawned" /\ loader' = "attached" /\ attached' = TRUE
  /\ UNCHANGED <<url, key, server, late, unloads, abandoned>>

(* Defect: a startup that fails raises at once.                           *)
GiveUpRunning == loader' = "raised" /\ UNCHANGED unloads

(* Defect: it raises while its unload runs on.                            *)
GiveUpEarly ==
  /\ loader' = "raised" /\ un' = [un EXCEPT !["load"] = "called"]
  /\ UNCHANGED held

GiveUp ==  \* except BaseException: self.unload()
  /\ loader' = "cleaning" /\ un' = [un EXCEPT !["load"] = "called"]
  /\ UNCHANGED held

Continue(to) == loader' = to /\ UNCHANGED unloads

SpawnFails ==
  /\ loader = "addressed" /\ GiveUp
  /\ UNCHANGED <<attributes, server, late, abandoned>>

StartLogThreads ==
  /\ loader = "attached"
  /\ IF attached THEN Continue("starting") ELSE GiveUp
  /\ UNCHANGED <<attributes, server, late, abandoned>>

CheckInitialized ==
  /\ loader = "starting"
  /\ IF attached /\ url /\ key THEN Continue("polling") ELSE GiveUp
  /\ UNCHANGED <<attributes, server, late, abandoned>>

Poll ==
  /\ loader = "polling"
  /\ IF ~late /\ attached /\ Alive THEN Continue("asking") ELSE GiveUp
  /\ UNCHANGED <<attributes, server, late, abandoned>>

DeadlinePasses ==
  /\ ~late /\ late' = TRUE
  /\ UNCHANGED <<attributes, server, loader, unloads, abandoned>>

(* Defect: any answer will do.                                            *)
GetAnything ==
  /\ loader = "asking" /\ loader' \in {"polling", "returned"}
  /\ UNCHANGED <<attributes, server, late, unloads, abandoned>>

GetHealth ==
  /\ loader = "asking"
  /\ \/ loader' = "polling"
     \/ server = "healthy" /\ loader' = "returned"
  /\ UNCHANGED <<attributes, server, late, unloads, abandoned>>

CleanedUp ==
  /\ loader = "cleaning" /\ un["load"] \in Ended /\ loader' = "raised"
  /\ UNCHANGED <<attributes, server, late, unloads, abandoned>>

-----------------------------------------------------------------------------
(* unload.                                                                *)

Proceed(c, to) == un' = [un EXCEPT ![c] = to]

(* The cleanup follows the end of load, or its cancellation; shutdown     *)
(* follows both, or the cancellation.                                     *)
Call(c) ==
  /\ un[c] = "none" /\ Proceed(c, "called")
  /\ \/ abandoned
     \/ /\ loader \in Loaded
        /\ c = "cleanup" => un["shutdown"] = "none"
        /\ c = "shutdown" => ~Active("cleanup")
        /\ c = "shutdown" /\ loader = "raised" => un["cleanup"] \in Ended
  /\ UNCHANGED <<attributes, server, loader, late, held, abandoned>>

Abandon ==
  /\ ~abandoned /\ abandoned' = TRUE
  /\ UNCHANGED <<attributes, server, loader, late, unloads>>

Take(c) ==
  /\ un[c] = "called" /\ Proceed(c, "taken")
  /\ held' = [held EXCEPT ![c] = attached]
  /\ UNCHANGED <<attributes, server, loader, late, abandoned>>

(* Defect: the process stays in the attribute.                            *)
DetachNot(c) ==
  /\ un[c] = "taken" /\ Proceed(c, "detached")
  /\ UNCHANGED <<attributes, server, loader, late, held, abandoned>>

Detach(c) ==
  /\ un[c] = "taken" /\ Proceed(c, "detached") /\ attached' = FALSE
  /\ UNCHANGED <<url, key, server, loader, late, held, abandoned>>

ClearUrl(c) ==
  /\ un[c] = "detached" /\ Proceed(c, "unaddressed") /\ url' = FALSE
  /\ UNCHANGED <<attached, key, server, loader, late, held, abandoned>>

ClearKey(c) ==
  /\ un[c] = "unaddressed" /\ Proceed(c, "cleared") /\ key' = FALSE
  /\ UNCHANGED <<attached, url, server, loader, late, held, abandoned>>

Terminate(c) ==
  /\ un[c] = "cleared"
  /\ Proceed(c, IF held[c] /\ Alive THEN "terminating" ELSE "done")
  /\ UNCHANGED <<attributes, server, loader, late, held, abandoned>>

(* Defect: a server that does not hear SIGTERM is left alone.             *)
WaitOnce(c) ==
  /\ un[c] = "terminating" /\ Proceed(c, "done")
  /\ UNCHANGED <<attributes, server, loader, late, held, abandoned>>

(* Defect: wait() has no timeout.                                         *)
WaitForEver(c) ==
  /\ un[c] \in {"terminating", "killing"} /\ ~Alive /\ Proceed(c, "done")
  /\ UNCHANGED <<attributes, server, loader, late, held, abandoned>>

(* wait(10) after SIGTERM, wait(5) after SIGKILL.                         *)
Wait(c) ==
  /\ \/ un[c] \in {"terminating", "killing"} /\ ~Alive /\ Proceed(c, "done")
     \/ un[c] = "terminating" /\ Alive /\ Proceed(c, "killing")
     \/ un[c] = "killing" /\ Alive /\ Proceed(c, "failed")
  /\ UNCHANGED <<attributes, server, loader, late, held, abandoned>>

AtRest == loader \in Loaded /\ (\A c \in Callers : ~Active(c)) /\ UNCHANGED serverVars

-----------------------------------------------------------------------------
Load == \/ SetKey \/ SetUrl \/ Refuse \/ Spawn \/ SpawnFails \/ Attach
        \/ StartLogThreads \/ CheckInitialized \/ Poll \/ GetHealth \/ CleanedUp

Unload(c) == Take(c) \/ Detach(c) \/ ClearUrl(c) \/ ClearKey(c) \/ Terminate(c) \/ Wait(c)

ServerNext ==
  \/ Answers \/ Dies \/ DeadlinePasses \/ Abandon \/ Load \/ AtRest
  \/ \E c \in {"cleanup", "shutdown"} : Call(c)
  \/ \E c \in Callers : Unload(c)

ServerSpec == ServerInit /\ [][ServerNext]_serverVars

(* Threads run and time passes; the server promises nothing.              *)
FairSpec == /\ ServerSpec /\ WF_serverVars(Load) /\ WF_serverVars(DeadlinePasses)
            /\ \A c \in Callers : WF_serverVars(Unload(c))

-----------------------------------------------------------------------------
ServerTypeOK ==
  /\ attached \in BOOLEAN /\ url \in BOOLEAN /\ key \in BOOLEAN
  /\ server \in {"none", "up", "healthy", "dead"}
  /\ loader \in Loaded \cup {"begun", "keyed", "addressed", "spawned", "attached",
                             "starting", "polling", "asking", "cleaning"}
  /\ un \in [Callers -> Ended \cup {"none", "called", "taken", "detached",
               "unaddressed", "cleared", "terminating", "killing"}]
  /\ Active("load") => loader = "cleaning"
  /\ late \in BOOLEAN /\ abandoned \in BOOLEAN /\ held \in [Callers -> BOOLEAN]

Rest == loader \in Loaded /\ \A c \in Callers : ~Active(c)

(* When every call is over, a live server is in self.process and shutdown *)
(* has yet to come.  A load that was cancelled may lose its server, but   *)
(* not one that some call of unload has seen; and none can help a server  *)
(* that outlives SIGKILL (llama_cpp.py:246-260, 410-421).                 *)
ServerIsNotLost ==
  Rest /\ Alive /\ (\A c \in Callers : un[c] # "failed") =>
    /\ ~abandoned => attached /\ un["shutdown"] = "none"
    /\ \A c \in Callers : ~held[c]

(* A load that raises has ended its server itself (llama_cpp.py:258-260). *)
FailedLoadIsClean ==
  loader = "raised" => (attached \/ Alive => abandoned \/ un["load"] = "failed")

(* A load that returns leaves a server that has answered, and all that    *)
(* a request needs to reach it, until somebody unloads it: no other       *)
(* thread can have cleared an attribute in between (205-224, 279-283).    *)
LoadedIsServing ==
  loader = "returned" /\ (\A c \in Callers : un[c] = "none") =>
    attached /\ url /\ key /\ server \in {"healthy", "dead"}

(* load ends by its deadline whatever the server does, and unload within  *)
(* its timeouts, even against a server that cannot be killed.             *)
CallsEnd == <>[]Rest

CallState ==
  [none |-> "none", called |-> "queued", taken |-> "queued", detached |-> "cleared",
   unaddressed |-> "cleared", cleared |-> "cleared", terminating |-> "cleared",
   killing |-> "cleared", done |-> "returned", failed |-> "raised"]

LoadFailed ==
  loader = "raised" \/ CallState[un["load"]] \in {"cleared", "returned", "raised"}

EngineJob ==
  IF loader = "returned" THEN "ok"
  ELSE IF LoadFailed THEN "failed"
  ELSE IF server = "none" \/ loader = "spawned" THEN "loading"
  ELSE "published"

EngineCalls == [c \in Callers \ {"load"} |-> CallState[un[c]]]

Engine == INSTANCE EngineLife WITH
  Callers <- Callers \ {"load"}, resident <- attached, job <- EngineJob, unload <- EngineCalls

(* The engine is what the life cycle takes it for, however its threads    *)
(* interleave: self.process is set by load alone, once, before it         *)
(* returns, and reset by unload, whoever calls it.                        *)
ImplementsEngine == Engine!Spec
=============================================================================
