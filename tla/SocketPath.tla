---------------------------- MODULE SocketPath ----------------------------
(***************************************************************************)
(* The Unix socket's path and the daemons that take turns on it:           *)
(* prepare_socket_path, bind_with_registry and Drop of ProxyServer in      *)
(* crates/proxy/src/lib.rs, and serve_unix of main.rs.                     *)
(*                                                                         *)
(* Each look at the path and each change of it is a step.  A daemon that   *)
(* is killed (a Unix daemon registers no signal handler, so SIGTERM kills  *)
(* it) leaves its socket behind, with nobody listening.  Binding a socket  *)
(* and listening on it, one call of the library, are two system calls.     *)
(***************************************************************************)
CONSTANT Daemon

ASSUME DaemonAssumption == Daemon \cap {"absent", "stale", "file"} = {}

VARIABLES
  path,    \* what is at the path: a daemon's socket, a stale one, a file, nothing
  proc,    \* where each daemon is
  past     \* history: the mishaps since all daemons were down

vars == <<path, proc, past>>

Mishaps == {"overlap",   \* two starts were under way at once
            "error",     \* a connect failed although a daemon was listening
            "end"}       \* a daemon that could bind, or had, has ended

Down      == {"down", "refused"}   \* no process; the last start was refused
Starts    == {"stat", "connect", "remove", "bind", "listen", "chmod"}
Listening == {"chmod", "serving"}
Bound     == {"listen"} \cup Listening
States    == Down \cup Starts \cup {"serving"}

Go(d, pc)  == proc' = [proc EXCEPT ![d] = pc]
Alone(d)   == \A e \in Daemon \ {d} : proc[e] \in Down
Overlaps(d) == \E e \in Daemon \ {d} : proc[e] \in Starts

(* Somebody listens at the path. *)
Answers == path \in Daemon /\ proc[path] \in Listening

Init ==
  /\ path \in {"absent", "stale", "file"}
  /\ proc = [d \in Daemon |-> "down"]
  /\ past = {}

-----------------------------------------------------------------------------
(***************************************************************************)
(* prepare_socket_path.                                                    *)
(***************************************************************************)

(* The parent directory is made, and made private. *)
Start(d) ==
  /\ proc[d] \in Down
  /\ Go(d, "stat")
  /\ past' = IF Alone(d) THEN {}
             ELSE IF Overlaps(d) THEN past \cup {"overlap"} ELSE past
  /\ UNCHANGED path

(* symlink_metadata: nothing there, no socket, or a socket to try. *)
Stat(d) ==
  /\ proc[d] = "stat"
  /\ Go(d, CASE path = "absent" -> "bind"
             [] path = "file"   -> "refused"
             [] OTHER           -> "connect")
  /\ UNCHANGED <<path, past>>

(* Mutated form: the socket of whoever answers is removed too. *)
ConnectIgnored(d) ==
  /\ proc[d] = "connect"
  /\ Go(d, "remove")
  /\ UNCHANGED <<path, past>>

(* connect: somebody who answers is a daemon that is already running.  Every *)
(* error counts as a stale socket: there is no listener, or the call fails  *)
(* for a reason of its own (no descriptor is left, a signal comes, the      *)
(* listener's backlog is full).                                             *)
Connect(d) ==
  /\ proc[d] = "connect"
  /\ \/ Answers /\ Go(d, "refused") /\ UNCHANGED past
     \/ Go(d, "remove") /\ past' = IF Answers THEN past \cup {"error"} ELSE past
  /\ UNCHANGED path

(* Mutated form: a stale socket is left where it is. *)
RemoveSkipped(d) ==
  /\ proc[d] = "remove"
  /\ Go(d, "bind")
  /\ UNCHANGED <<path, past>>

(* remove_file removes what is there now, and fails if nothing is. *)
Remove(d) ==
  /\ proc[d] = "remove"
  /\ Go(d, IF path = "absent" THEN "refused" ELSE "bind")
  /\ path' = "absent"
  /\ UNCHANGED past

-----------------------------------------------------------------------------
(***************************************************************************)
(* bind_with_registry, after it.                                           *)
(***************************************************************************)

(* Mutated form: a start that cannot bind clears the path for the next one. *)
BindClears(d) ==
  /\ proc[d] = "bind"
  /\ IF path = "absent" THEN Go(d, "listen") /\ path' = d
                        ELSE Go(d, "refused") /\ path' = "absent"
  /\ UNCHANGED past

Bind(d) ==
  /\ proc[d] = "bind"
  /\ IF path = "absent" THEN Go(d, "listen") /\ path' = d
                        ELSE Go(d, "refused") /\ UNCHANGED path
  /\ UNCHANGED past

Listen(d) ==
  /\ proc[d] = "listen"
  /\ Go(d, "chmod")
  /\ UNCHANGED <<path, past>>

(* set_permissions fails if the path is gone again; there is no ProxyServer *)
(* yet whose drop would remove anything.                                    *)
Chmod(d) ==
  /\ proc[d] = "chmod"
  /\ Go(d, IF path = "absent" THEN "refused" ELSE "serving")
  /\ UNCHANGED <<path, past>>

-----------------------------------------------------------------------------
(* Mutated form: there is no Drop. *)
ServeEndsUndropped(d) ==
  /\ proc[d] = "serving"
  /\ Go(d, "down")
  /\ UNCHANGED <<path, past>>

(* serve returns, and Drop removes what is at the path, whosever it is. *)
ServeEnds(d) ==
  /\ proc[d] = "serving"
  /\ Go(d, "down")
  /\ path' = "absent"
  /\ past' = past \cup {"end"}

(* The process is killed, or a call of its start other than connect fails   *)
(* for a reason of its own: either way nothing is removed.                  *)
Crash(d) ==
  /\ proc[d] \notin Down
  /\ Go(d, "down")
  /\ path' = IF path = d THEN "stale" ELSE path
  /\ past' = IF proc[d] \in {"bind"} \cup Bound THEN past \cup {"end"} ELSE past

-----------------------------------------------------------------------------
Starting(d) == Stat(d) \/ Connect(d) \/ Remove(d) \/ Bind(d) \/ Listen(d) \/ Chmod(d)

Next == \E d \in Daemon : Start(d) \/ Starting(d) \/ ServeEnds(d) \/ Crash(d)

Spec == Init /\ [][Next]_vars

(* A start goes on until it is through. *)
FairSpec == Spec /\ \A d \in Daemon : WF_vars(Starting(d))

-----------------------------------------------------------------------------
(***************************************************************************)
(* Properties.                                                             *)
(***************************************************************************)

(* Every variable has its type, and a socket with an owner is one that its  *)
(* owner has bound.                                                         *)
TypeOK ==
  /\ path \in Daemon \cup {"absent", "stale", "file"}
  /\ path \in Daemon => proc[path] \in Bound
  /\ proc \in [Daemon -> States]
  /\ past \subseteq Mishaps

(* "Clear a stale socket from a previous daemon": whatever crashes, failed  *)
(* starts and shutdowns came before, a daemon that serves owns the path,    *)
(* and clients reach it.  Two things can take it away: starts that overlap, *)
(* and a connect that fails although the daemon listens, which              *)
(* prepare_socket_path takes for a stale socket.  Nothing else does.        *)
Reachable ==
  past \cap {"overlap", "error"} = {} => \A d \in Daemon : proc[d] = "serving" => path = d

(* Even those two leave clients somebody to talk to.  However many starts   *)
(* race over one path and whichever of their connects fail, the last to     *)
(* remove a socket or another binds its own: when no start is under way and *)
(* a daemon serves, one that serves is reached, unless a daemon that had    *)
(* cleared the path or bound it has ended since.                            *)
SomeoneReachable ==
  (/\ "end" \notin past
   /\ \A d \in Daemon : proc[d] \notin Starts
   /\ \E d \in Daemon : proc[d] = "serving")
    => path \in Daemon /\ proc[path] = "serving"

(* A daemon that is started when no other is up, over whatever a crash has  *)
(* left, comes to serve; it is not refused for its predecessor's socket.    *)
Recovers ==
  \A d \in Daemon :
    (proc[d] = "stat" /\ Alone(d) /\ path # "file")
      ~> (proc[d] \in {"serving", "down"} \/ ~Alone(d))
=============================================================================
