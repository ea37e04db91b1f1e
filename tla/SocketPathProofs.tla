------------------------- MODULE SocketPathProofs -------------------------
(***************************************************************************)
(* What clients find at the path, for any number of daemons: every daemon  *)
(* that serves, unless starts overlapped or a connect failed at a daemon   *)
(* that listened; and one that serves, even then.                          *)
(*                                                                         *)
(* Neither is inductive.  For Reachable, a start that is about to remove   *)
(* or to bind must know that nobody serves, which it learned one or two    *)
(* steps before: Undisturbed says that only one start is under way, that   *)
(* past its look nobody else serves, and that from its bind on the path is *)
(* its own.  For SomeoneReachable, PathKept says that a daemon which has   *)
(* bound leaves its socket only to another's, or to a start that has       *)
(* removed it and is about to bind.                                        *)
(***************************************************************************)
EXTENDS SocketPath, TLAPS

OneStart   == \A d, e \in Daemon : proc[d] \in Starts /\ proc[e] \in Starts => d = e

NobodyServes ==
  \A d, e \in Daemon :
    proc[d] \in Starts \ {"stat", "connect"} => proc[e] # "serving"

OwnsPath ==
  \A d \in Daemon : proc[d] \in Bound => path = d

Undisturbed == OneStart /\ NobodyServes /\ OwnsPath

PathKept ==
  (\E d \in Daemon : proc[d] \in Bound) =>
    path \in Daemon \/ (path = "absent" /\ \E d \in Daemon : proc[d] = "bind")

SInv ==
  /\ TypeOK
  /\ past \cap {"overlap", "error"} = {} => Undisturbed
  /\ "end" \notin past => PathKept

LEMMA InitSInv == Init => SInv
  BY DaemonAssumption
  DEF Init, SInv, TypeOK, Undisturbed, OneStart, NobodyServes, OwnsPath, PathKept, States, Down,
      Starts, Listening, Bound, Mishaps

LEMMA NextSInv == SInv /\ [Next]_vars => SInv'
<1> SUFFICES ASSUME SInv, [Next]_vars PROVE SInv'
  OBVIOUS
<1> USE DaemonAssumption
    DEF SInv, TypeOK, Undisturbed, OneStart, NobodyServes, OwnsPath, PathKept, States, Down,
        Starts, Listening, Bound, Mishaps, Go
<1>1. CASE UNCHANGED vars
  BY <1>1 DEF vars
<1>2. ASSUME NEW d \in Daemon, Start(d) PROVE SInv'
  <2>1. TypeOK'
    BY <1>2 DEF Start, Alone, Overlaps
  <2>2. ASSUME past' \cap {"overlap", "error"} = {} PROVE Undisturbed'
    BY <1>2, <2>2 DEF Start, Alone, Overlaps
  <2>3. ASSUME "end" \notin past' PROVE PathKept'
    BY <1>2, <2>3 DEF Start, Alone, Overlaps
  <2>4. QED
    BY <2>1, <2>2, <2>3 DEF SInv
<1>3. ASSUME NEW d \in Daemon, Stat(d) PROVE SInv'
  BY <1>3 DEF Stat
<1>4. ASSUME NEW d \in Daemon, Connect(d) PROVE SInv'
  <2>1. TypeOK'
    BY <1>4 DEF Connect, Answers
  <2>2. ASSUME past' \cap {"overlap", "error"} = {} PROVE Undisturbed'
    BY <1>4, <2>2 DEF Connect, Answers
  <2>3. ASSUME "end" \notin past' PROVE PathKept'
    BY <1>4, <2>3 DEF Connect, Answers
  <2>4. QED
    BY <2>1, <2>2, <2>3 DEF SInv
<1>5. ASSUME NEW d \in Daemon, Remove(d) PROVE SInv'
  <2>1. TypeOK'
    BY <1>5 DEF Remove
  <2>2. ASSUME past' \cap {"overlap", "error"} = {} PROVE Undisturbed'
    BY <1>5, <2>2 DEF Remove
  <2>3. ASSUME "end" \notin past' PROVE PathKept'
    BY <1>5, <2>3 DEF Remove
  <2>4. QED
    BY <2>1, <2>2, <2>3 DEF SInv
<1>6. ASSUME NEW d \in Daemon, Bind(d) PROVE SInv'
  BY <1>6 DEF Bind
<1>7. ASSUME NEW d \in Daemon, Listen(d) PROVE SInv'
  BY <1>7 DEF Listen
<1>8. ASSUME NEW d \in Daemon, Chmod(d) PROVE SInv'
  BY <1>8 DEF Chmod
<1>9. ASSUME NEW d \in Daemon, ServeEnds(d) PROVE SInv'
  BY <1>9 DEF ServeEnds
<1>10. ASSUME NEW d \in Daemon, Crash(d) PROVE SInv'
  BY <1>10 DEF Crash
<1>11. QED
  BY <1>1, <1>2, <1>3, <1>4, <1>5, <1>6, <1>7, <1>8, <1>9, <1>10 DEF Next, Starting

(* Every variable keeps its type, and an owned socket is a bound one. *)
THEOREM TypeCorrect == Spec => []TypeOK
<1>1. SInv => TypeOK
  BY DEF SInv
<1>2. QED
  BY <1>1, InitSInv, NextSInv, PTL DEF Spec

(* A daemon that serves owns the path, however many daemons came and went   *)
(* before it, by shutdown or by crash, unless two starts overlapped or a    *)
(* connect failed at a daemon that listened (prepare_socket_path,           *)
(* bind_with_registry, Drop).                                               *)
THEOREM ServingIsReachable == Spec => []Reachable
<1>1. SInv => Reachable
  BY DEF SInv, Reachable, Undisturbed, OwnsPath, Bound, Listening
<1>2. QED
  BY <1>1, InitSInv, NextSInv, PTL DEF Spec

(* However starts race and connects fail, when no start is under way and a  *)
(* daemon serves, the path leads to one that serves, unless one that had    *)
(* cleared the path or bound it has ended (remove_file and the bind that    *)
(* follows it).                                                             *)
THEOREM RaceLeavesSomeone == Spec => []SomeoneReachable
<1>1. SInv => SomeoneReachable
  BY DEF SInv, TypeOK, SomeoneReachable, PathKept, Bound, Listening, Starts
<1>2. QED
  BY <1>1, InitSInv, NextSInv, PTL DEF Spec
=============================================================================
