----------------------------- MODULE ChatServer_proof -----------------------------
(* Theorems about ChatServer, for any descriptors, any USER_LIMIT and any bounds *)
(* on the environment.                                                          *)
EXTENDS ChatServer, FiniteSetTheorems, TLAPS

\* The first user_count entries of fds name the connections, each of them once.
UsersInv == /\ UsersAreConnections
            /\ \A i, j \in UserSlots : fds[i] = fds[j] => i = j

\* Interest and events are those of connections, and cur is the connection of the
\* reading under way: it has no event left, and what was read of it is bounded.
\* The event of listenfd is dealt with before main() waits again.
HoldInv == /\ \A f \in Fds : armed[f] # {} \/ events[f] # {} => f \in open
           /\ pc \in {"recv", "spin"} <=> cur # NoFd
           /\ cur # NoFd => /\ cur \in open /\ events[cur] = {}
                            /\ len + inbox[cur] <= MaxText
           /\ cur = NoFd => len = 0
           /\ pc = "wait" => ~acceptEvent

\* Whoever is not armed has an event to come, and EPOLLOUT finds words to send.
ArmedInv == /\ NobodyDisarmed
            /\ pc = "wait" => \A f \in Fds : events[f] = {}
            /\ \A f \in Fds : "out" \in armed[f] \/ "out" \in events[f] => write_buf[f] # NoFd

IInv == TypeOK /\ UsersInv /\ HoldInv /\ ArmedInv /\ NoStrandedConnection

USE ChatAssumption DEF ChatAssumption

-----------------------------------------------------------------------------
(* The array of users *)

\* delete_user() at the close() of a user.
LEMMA DeletedUser ==
  ASSUME TypeOK, UsersInv, NEW f \in open, DeleteUser(f), open' = open \ {f}
  PROVE  /\ UsersInv'
         /\ user_count' \in 0..UserLimit
         /\ fds' \in [0..(UserLimit - 1) -> Fds \cup {NoFd}]
<1> DEFINE n == user_count - 1
<1> USE DEF TypeOK, UsersInv, UsersAreConnections, Users, UserSlots
<1>1. PICK k \in UserSlots : fds[k] = f
  OBVIOUS
<1>2. /\ user_count \in 1..UserLimit /\ n \in 0..(UserLimit - 1) /\ user_count' = n
      /\ k \in 0..n
  BY <1>1 DEF DeleteUser
<1>3. /\ DOMAIN fds = 0..(UserLimit - 1)
      /\ fds' = [i \in DOMAIN fds |-> IF i < n /\ fds[i] = f THEN fds[n] ELSE fds[i]]
  BY DEF DeleteUser
<1>4. fds' \in [0..(UserLimit - 1) -> Fds \cup {NoFd}]
  BY <1>2, <1>3
<1>5. UserSlots' = 0..(n - 1)
  BY <1>2
<1>6. \A i \in 0..(n - 1) : fds'[i] = IF i = k THEN fds[n] ELSE fds[i]
  BY <1>1, <1>2, <1>3
<1>7. ASSUME NEW i \in UserSlots', NEW j \in UserSlots', fds'[i] = fds'[j] PROVE i = j
  <2>1. i \in 0..(n - 1) /\ j \in 0..(n - 1) /\ n \in UserSlots /\ i \in UserSlots /\ j \in UserSlots
    BY <1>2, <1>5
  <2>2. \A a, b \in UserSlots : fds[a] = fds[b] => a = b
    OBVIOUS
  <2>3. n # i /\ n # j
    BY <1>2, <2>1
  <2> QED BY ONLY <1>6, <1>7, <2>1, <2>2, <2>3
<1>8. Users' = open \ {f}
  <2>1. ASSUME NEW i \in 0..(n - 1) PROVE fds'[i] \in open \ {f}
    BY <1>1, <1>2, <1>6
  <2>2. ASSUME NEW g \in open \ {f} PROVE \E i \in 0..(n - 1) : fds'[i] = g
    <3>1. PICK j \in UserSlots : fds[j] = g
      OBVIOUS
    <3>2. CASE j = n
      <4>1. k \in 0..(n - 1) /\ fds'[k] = g
        BY <1>1, <1>2, <1>6, <3>1, <3>2
      <4> QED BY <4>1
    <3>3. CASE j # n
      <4>1. j \in 0..(n - 1) /\ fds'[j] = g
        BY <1>1, <1>2, <1>6, <3>1, <3>3
      <4> QED BY <4>1
    <3> QED BY <3>2, <3>3
  <2>3. Users' = {fds'[i] : i \in 0..(n - 1)}
    BY <1>5
  <2> QED BY ONLY <2>1, <2>2, <2>3
<1>9. Cardinality(open \ {f}) = Cardinality(open) - 1
  BY FS_RemoveElement, FS_Subset
<1> QED BY <1>2, <1>4, <1>7, <1>8, <1>9

\* A user who arrives takes the next entry.
LEMMA AddedUser ==
  ASSUME TypeOK, UsersInv, NEW f \in Fds \ open, ~Full, open' = open \cup {f},
         user_count' = user_count + 1,
         fds' = [i \in DOMAIN fds \cup {user_count} |-> IF i = user_count THEN f ELSE fds[i]]
  PROVE  /\ UsersInv'
         /\ user_count' \in 0..UserLimit
         /\ fds' \in [0..(UserLimit - 1) -> Fds \cup {NoFd}]
<1> USE DEF TypeOK, UsersInv, UsersAreConnections, Users, UserSlots
<1>1. user_count \in 0..(UserLimit - 1)
  BY DEF Full
<1>2. /\ fds' = [i \in 0..(UserLimit - 1) |-> IF i = user_count THEN f ELSE fds[i]]
      /\ UserSlots' = 0..user_count
  BY <1>1
<1>3. fds' \in [0..(UserLimit - 1) -> Fds \cup {NoFd}]
  BY <1>2
<1>4. \A i \in 0..user_count : fds'[i] = IF i = user_count THEN f ELSE fds[i]
  BY <1>1, <1>2
<1>5. \A i \in 0..user_count : i # user_count => i \in UserSlots /\ fds[i] \in open
  BY <1>1
<1>6. \A i, j \in UserSlots' : fds'[i] = fds'[j] => i = j
  BY <1>2, <1>4, <1>5
<1>7. Users' = open \cup {f}
  <2>1. ASSUME NEW g \in open PROVE \E i \in 0..user_count : fds'[i] = g
    <3>1. PICK i \in UserSlots : fds[i] = g
      OBVIOUS
    <3>2. i \in 0..user_count /\ i # user_count
      BY <1>1
    <3> QED BY <1>4, <3>1, <3>2
  <2>2. fds'[user_count] = f /\ user_count \in 0..user_count
    BY <1>1, <1>4
  <2>3. Users' = {fds'[i] : i \in 0..user_count}
    BY <1>2
  <2>4. \A i \in 0..user_count : fds'[i] \in open \cup {f}
    BY <1>4, <1>5
  <2> QED BY ONLY <2>1, <2>2, <2>3, <2>4
<1>8. Cardinality(open \cup {f}) = Cardinality(open) + 1
  BY FS_AddElement, FS_Subset
<1>9. user_count' \in 0..UserLimit
  BY <1>1
<1>10. Cardinality(open') = user_count'
  BY <1>8
<1> QED BY <1>3, <1>6, <1>7, <1>9, <1>10

\* A step that leaves array and connections alone.
LEMMA SameUsers ==
  ASSUME UsersInv, UNCHANGED <<open, users>> PROVE UsersInv'
  BY DEF UsersInv, UsersAreConnections, Users, UserSlots, users

-----------------------------------------------------------------------------
(* The steps *)

LEMMA InitHolds == Init => IInv
<1> SUFFICES ASSUME Init PROVE IInv
  OBVIOUS
<1>1. TypeOK
  <2>1. /\ fds \in [0..(UserLimit - 1) -> Fds \cup {NoFd}]
        /\ write_buf \in [Fds -> Fds \cup {NoFd}]
        /\ armed \in [Fds -> SUBSET {"in", "out"}]
        /\ events \in [Fds -> SUBSET {"err", "hup", "in", "out"}]
    BY DEF Init
  <2>2. inbox \in [Fds -> 0..MaxText] /\ len \in 0..MaxText /\ backlog \in 0..MaxBacklog
    BY DEF Init
  <2>3. gone \in [Fds -> {"no", "closed", "reset", "cleared"}] /\ user_count \in 0..UserLimit
    BY DEF Init
  <2>4. edge \in BOOLEAN /\ acceptEvent \in BOOLEAN
    BY DEF Init
  <2> QED BY <2>1, <2>2, <2>3, <2>4 DEF Init, TypeOK
<1>2. UsersInv
  <2>1. UserSlots = {} /\ open = {} /\ Cardinality(open) = 0
    BY FS_EmptySet DEF Init, UserSlots
  <2> QED BY <2>1 DEF Init, UsersInv, UsersAreConnections, Users
<1>3. HoldInv /\ ArmedInv /\ NoStrandedConnection
  BY DEF Init, HoldInv, ArmedInv, NobodyDisarmed, NoStrandedConnection
<1> QED BY <1>1, <1>2, <1>3 DEF IInv

\* A client connects, speaks or leaves: a connection that waits comes with an edge.
LEMMA ClientKeeps ==
  ASSUME IInv, Connect \/ \E f \in Fds : Say(f) \/ Leave(f) PROVE IInv'
<1> USE DEF IInv, ClientStep
<1>1. UsersInv'
  BY SameUsers DEF Connect, Say, Leave
<1>2. ArmedInv'
  BY DEF ArmedInv, NobodyDisarmed, Connect, Say, Leave, texts
<1>3. CASE Connect
  <2>1. TypeOK' /\ NoStrandedConnection'
    BY <1>3 DEF Connect, TypeOK, NoStrandedConnection, client, users, texts
  <2>2. HoldInv'
    BY <1>3 DEF Connect, HoldInv, client, texts
  <2> QED BY <1>1, <1>2, <2>1, <2>2
<1>4. ASSUME NEW f \in Fds, Say(f) PROVE IInv'
  <2>1. inbox[f] + Collected(f) < MaxText /\ inbox' = [inbox EXCEPT ![f] = inbox[f] + 1]
    BY <1>4 DEF Say
  <2>2. Collected(f) \in 0..MaxText /\ (cur = f => Collected(f) = len)
    BY DEF Collected, TypeOK
  <2>3. TypeOK'
    BY <1>4, <2>1, <2>2 DEF Say, TypeOK, users, texts
  <2>4. HoldInv'
    BY <1>4, <2>1, <2>2 DEF Say, HoldInv, TypeOK, texts
  <2>5. NoStrandedConnection'
    BY <1>4 DEF Say, NoStrandedConnection
  <2> QED BY <1>1, <1>2, <2>3, <2>4, <2>5
<1>5. ASSUME NEW f \in Fds, Leave(f) PROVE IInv'
  <2>1. TypeOK'
    BY <1>5 DEF Leave, TypeOK, users, texts
  <2>2. HoldInv' /\ NoStrandedConnection'
    BY <1>5 DEF Leave, HoldInv, NoStrandedConnection, texts
  <2> QED BY <1>1, <1>2, <2>1, <2>2
<1> QED BY <1>3, <1>4, <1>5

\* The batch, and the ends of the accept loop: the edge goes over into acceptEvent, and
\* that into the loop, which is left when nobody waits.
LEMMA WaitKeeps ==
  ASSUME IInv, EpollWait \/ BatchDone \/ AcceptStart \/ TurnAway \/ AcceptDone PROVE IInv'
<1> USE DEF IInv
<1>1. UsersInv'
  BY SameUsers DEF EpollWait, BatchDone, AcceptStart, TurnAway, AcceptDone, users
<1>3. CASE EpollWait
  <2>1. \A f \in Fds : Reported(f) # {} => f \in open
    BY DEF Reported, HoldInv
  <2>2. \A f \in Fds : Reported(f) \in SUBSET {"err", "hup", "in", "out"}
    BY DEF Reported
  <2>3. TypeOK'
    BY <1>3, <2>2 DEF EpollWait, TypeOK, client, users, texts
  <2>4. NoStrandedConnection'
    <3>1. backlog' = backlog /\ acceptEvent' = edge /\ pc = "wait"
      BY <1>3 DEF EpollWait
    <3>2. backlog > 0 => edge
      BY <3>1 DEF NoStrandedConnection, HoldInv
    <3> QED BY <3>1, <3>2, Zenon DEF NoStrandedConnection
  <2>5. pc' = "loop" /\ cur' = cur /\ cur = NoFd /\ len' = len /\ open' = open
    BY <1>3 DEF EpollWait, HoldInv, texts
  <2>6. \A f \in Fds : armed'[f] # {} \/ events'[f] # {} => f \in open
    BY <1>3, <2>1 DEF EpollWait, HoldInv
  <2>7. HoldInv'
    BY <2>5, <2>6 DEF HoldInv
  <2>8. ArmedInv'
    <3>1. /\ pc = "wait" /\ pc' = "loop" /\ write_buf' = write_buf /\ open' = open
          /\ events' = [f \in Fds |-> Reported(f)]
          /\ armed' = [f \in Fds |-> IF Reported(f) # {} THEN {} ELSE armed[f]]
      BY <1>3 DEF EpollWait, texts
    <3>2. \A f \in open : armed[f] # {} /\ f \in Fds
      BY <2>5, <3>1 DEF ArmedInv, NobodyDisarmed, TypeOK
    <3>3. NobodyDisarmed'
      BY <3>1, <3>2 DEF NobodyDisarmed
    <3>4. \A f \in Fds : "out" \in Reported(f) => "out" \in armed[f]
      BY DEF Reported
    <3> QED BY <3>1, <3>3, <3>4 DEF ArmedInv
  <2> QED BY <1>1, <2>3, <2>4, <2>7, <2>8
<1>4. CASE BatchDone \/ AcceptStart \/ TurnAway \/ AcceptDone
  <2>1. /\ pc' = "wait" => ~acceptEvent'
        /\ UNCHANGED <<edge, client, open, armed, events, users, texts, cur>>
        /\ pc \in {"loop", "accept"}
        /\ pc' \in {"wait", "loop", "accept", "killed"}
    BY <1>4 DEF BatchDone, AcceptStart, TurnAway, AcceptDone, AcceptEnds
  <2>2. backlog' \in 0..MaxBacklog /\ acceptEvent' \in BOOLEAN
    <3>1. CASE TurnAway
      BY <3>1 DEF TurnAway, TypeOK
    <3>2. CASE BatchDone \/ AcceptStart \/ AcceptDone
      BY <3>2 DEF BatchDone, AcceptStart, AcceptDone, TypeOK
    <3> QED BY <1>4, <3>1, <3>2
  <2>3. TypeOK'
    BY <2>1, <2>2 DEF TypeOK, client, users, texts
  <2>4. HoldInv'
    BY <2>1 DEF HoldInv, client, texts
  <2>5. NoStrandedConnection'
    BY <1>4 DEF BatchDone, AcceptStart, TurnAway, AcceptDone, AcceptEnds, TypeOK,
                NoStrandedConnection
  <2>6. ArmedInv'
    BY <1>4, <2>1 DEF BatchDone, AcceptStart, TurnAway, AcceptDone, ArmedInv, NobodyDisarmed, texts
  <2> QED BY <1>1, <2>3, <2>4, <2>5, <2>6
<1> QED BY <1>3, <1>4

LEMMA AcceptUserKeeps == ASSUME IInv, NEW f \in Fds, AcceptUser(f) PROVE IInv'
<1> USE DEF IInv
<1>1. /\ UsersInv'
      /\ user_count' \in 0..UserLimit
      /\ fds' \in [0..(UserLimit - 1) -> Fds \cup {NoFd}]
  BY AddedUser DEF AcceptUser
<1>2. TypeOK'
  BY <1>1 DEF AcceptUser, AddFd, TypeOK, client
<1>3. HoldInv'
  BY DEF AcceptUser, AddFd, HoldInv, TypeOK, client
<1>4. NoStrandedConnection'
  BY DEF AcceptUser, TypeOK, NoStrandedConnection
<1>5. ArmedInv'
  <2>1. /\ open' = open \cup {f} /\ f \notin open
        /\ armed' = [armed EXCEPT ![f] = {"in"}] /\ events' = events
        /\ write_buf' = [write_buf EXCEPT ![f] = NoFd] /\ pc = "accept"
        /\ UNCHANGED <<pc, cur>>
    BY DEF AcceptUser, AddFd
  <2>2. events[f] = {}
    BY <2>1 DEF HoldInv
  <2>3. NobodyDisarmed'
    <3>1. ASSUME NEW g \in open' PROVE armed'[g] # {} \/ events'[g] # {} \/ cur' = g
      <4>1. CASE g = f
        BY <2>1, <4>1 DEF TypeOK
      <4>2. CASE g # f
        <5>1. g \in open /\ armed'[g] = armed[g] /\ events'[g] = events[g] /\ cur' = cur
          BY <2>1, <3>1, <4>2 DEF TypeOK
        <5> QED BY <5>1 DEF ArmedInv, NobodyDisarmed
      <4> QED BY <4>1, <4>2
    <3> QED BY <3>1 DEF NobodyDisarmed
  <2>4. ASSUME NEW g \in Fds, "out" \in armed'[g] \/ "out" \in events'[g]
        PROVE  write_buf'[g] # NoFd
    <3>1. armed'[f] = {"in"} /\ "out" \notin events'[f]
      BY <2>1, <2>2 DEF TypeOK
    <3>2. g # f
      BY <2>4, <3>1
    <3>3. armed'[g] = armed[g] /\ events'[g] = events[g] /\ write_buf'[g] = write_buf[g]
      BY <2>1, <3>2 DEF TypeOK
    <3> QED BY <2>4, <3>3 DEF ArmedInv
  <2> QED BY <2>1, <2>3, <2>4 DEF ArmedInv
<1> QED BY <1>1, <1>2, <1>3, <1>4, <1>5

\* The branch of EPOLLOUT is taken for EPOLLOUT.
LEMMA FirstOut ==
  ASSUME NEW E \in SUBSET {"err", "hup", "in", "out"}, E # {}, First(E) = "out"
  PROVE  "out" \in E
<1>1. "err" \in E => First(E) = "err"
  BY Zenon DEF First
<1>2. "err" \notin E /\ "hup" \in E => First(E) = "hup"
  BY Zenon DEF First
<1>3. E \cap {"err", "hup"} = {} /\ "in" \in E => First(E) = "in"
  BY Zenon DEF First
<1>4. "err" \notin E
  BY <1>1
<1>5. "hup" \notin E
  BY <1>2, <1>4
<1>6. "in" \notin E
  <2>1. E \cap {"err", "hup"} = {}
    BY <1>4, <1>5
  <2> QED BY <1>3, <2>1
<1> QED BY <1>4, <1>5, <1>6

\* The branches for one event of f, which is taken from the batch.
LEMMA HandleKeeps ==
  ASSUME IInv, NEW f \in Fds, HandleErr(f) \/ HandleHup(f) \/ HandleIn(f) \/ HandleOut(f)
  PROVE  IInv'
<1> USE DEF IInv, Take
<1>1. /\ pc = "loop" /\ cur = NoFd /\ f \in open /\ len = 0
      /\ events' = [events EXCEPT ![f] = {}]
      /\ UNCHANGED <<backlog, edge, acceptEvent>>
  BY DEF HandleErr, HandleHup, HandleIn, HandleOut, HoldInv
<1>2. NoStrandedConnection'
  BY <1>1 DEF NoStrandedConnection
<1>3. CASE HandleErr(f)
  <2>1. UsersInv'
    BY <1>3, SameUsers DEF HandleErr
  <2>2. TypeOK'
    BY <1>3 DEF HandleErr, ResetOneshot, TypeOK, users, texts
  <2>3. HoldInv'
    BY <1>1, <1>3 DEF HandleErr, ResetOneshot, HoldInv, TypeOK, texts
  <2>4. ArmedInv'
    BY <1>1, <1>3 DEF HandleErr, ResetOneshot, ArmedInv, NobodyDisarmed, TypeOK, texts
  <2> QED BY <1>2, <2>1, <2>2, <2>3, <2>4
<1>4. CASE HandleHup(f)
  <2>1. /\ UsersInv'
        /\ user_count' \in 0..UserLimit
        /\ fds' \in [0..(UserLimit - 1) -> Fds \cup {NoFd}]
    BY <1>1, <1>4, DeletedUser DEF HandleHup, Close
  <2>2. TypeOK'
    BY <1>4, <2>1 DEF HandleHup, Close, TypeOK, texts
  <2>3. HoldInv'
    BY <1>1, <1>4 DEF HandleHup, Close, HoldInv, TypeOK, texts
  <2>4. ArmedInv'
    BY <1>1, <1>4 DEF HandleHup, Close, ArmedInv, NobodyDisarmed, TypeOK, texts
  <2> QED BY <1>2, <2>1, <2>2, <2>3, <2>4
<1>5. CASE HandleIn(f)
  <2>1. UsersInv'
    BY <1>5, SameUsers DEF HandleIn
  <2>2. TypeOK'
    BY <1>5 DEF HandleIn, TypeOK, client, users, texts
  <2>3. HoldInv'
    BY <1>1, <1>5 DEF HandleIn, HoldInv, TypeOK, client, texts
  <2>4. ArmedInv'
    <3>1. cur' = f /\ pc' = "recv" /\ UNCHANGED <<armed, open, write_buf>>
      BY <1>5 DEF HandleIn, texts
    <3>2. ASSUME NEW g \in open PROVE armed'[g] # {} \/ events'[g] # {} \/ cur' = g
      <4>1. g \in Fds /\ cur # g
        BY <1>1 DEF TypeOK
      <4>2. armed[g] # {} \/ events[g] # {}
        BY <4>1 DEF ArmedInv, NobodyDisarmed
      <4> QED BY <1>1, <3>1, <4>1, <4>2 DEF TypeOK
    <3>3. \A g \in Fds : events'[g] \subseteq events[g]
      BY <1>1 DEF TypeOK
    <3> QED BY <3>1, <3>2, <3>3 DEF ArmedInv, NobodyDisarmed
  <2> QED BY <1>2, <2>1, <2>2, <2>3, <2>4
<1>6. CASE HandleOut(f)
  <2>1. UsersInv'
    BY <1>6, SameUsers DEF HandleOut
  <2>2. /\ UNCHANGED <<client, open, users, len, cur>>
        /\ pc' \in {"loop", "killed"}
    BY <1>1, <1>6 DEF HandleOut
  <2>3. /\ write_buf' = write_buf \/ write_buf' = [write_buf EXCEPT ![f] = NoFd]
        /\ armed' = armed \/ armed' = [armed EXCEPT ![f] = {"in"}]
    BY <1>6 DEF HandleOut, ResetOneshot
  <2>4. TypeOK'
    <3>1. /\ armed' \in [Fds -> SUBSET {"in", "out"}]
          /\ write_buf' \in [Fds -> Fds \cup {NoFd}]
          /\ events' \in [Fds -> SUBSET {"err", "hup", "in", "out"}]
      <4>1. TypeOK
        OBVIOUS
      <4>2. armed' \in [Fds -> SUBSET {"in", "out"}]
        <5>1. CASE armed' = armed
          BY <4>1, <5>1 DEF TypeOK
        <5>2. CASE armed' = [armed EXCEPT ![f] = {"in"}]
          <6>1. \A g \in Fds : armed'[g] = IF g = f THEN {"in"} ELSE armed[g]
            BY <4>1, <5>2 DEF TypeOK
          <6> QED BY <4>1, <5>2, <6>1 DEF TypeOK
        <5> QED BY <2>3, <5>1, <5>2
      <4>3. write_buf' \in [Fds -> Fds \cup {NoFd}]
        BY ONLY <2>3, <4>1, f \in Fds DEF TypeOK
      <4>4. events' \in [Fds -> SUBSET {"err", "hup", "in", "out"}]
        BY ONLY <1>1, <4>1, f \in Fds DEF TypeOK
      <4> QED BY <4>2, <4>3, <4>4
    <3>2. UNCHANGED <<backlog, edge, acceptEvent, inbox, gone, open, fds, user_count, len, cur>>
      BY <1>1, <2>2 DEF client, users
    <3>3. pc' \in {"loop", "killed"}
      BY <2>2
    <3> QED BY ONLY TypeOK, <3>1, <3>2, <3>3 DEF TypeOK
  <2>5. HoldInv'
    BY <1>1, <2>2, <2>3 DEF HoldInv, TypeOK, client
  <2>6. ArmedInv'
    <3>1. "out" \in events[f]
      <4>1. /\ events[f] \in SUBSET {"err", "hup", "in", "out"}
            /\ events[f] # {} /\ First(events[f]) = "out"
        BY <1>6 DEF HandleOut, TypeOK
      <4> QED BY <4>1, FirstOut
    <3>2. write_buf[f] # NoFd
      BY <3>1 DEF ArmedInv
    <3>3. /\ armed' = [armed EXCEPT ![f] = {"in"}]
          /\ write_buf' = [write_buf EXCEPT ![f] = NoFd]
      BY <1>6, <3>2 DEF HandleOut, ResetOneshot
    <3>4. NobodyDisarmed'
      BY <1>1, <2>2, <3>3 DEF ArmedInv, NobodyDisarmed, TypeOK
    <3> QED BY <1>1, <2>2, <3>3, <3>4 DEF ArmedInv, TypeOK
  <2> QED BY <1>2, <2>1, <2>4, <2>5, <2>6
<1> QED BY <1>3, <1>4, <1>5, <1>6

\* The reading: at its end the loop over the users R tells all but cur.
LEMMA Told ==
  ASSUME IInv, NEW R \in SUBSET Fds, NEW own \in SUBSET {"in", "out"}, Tell(R, own)
  PROVE  /\ armed' \in [Fds -> SUBSET {"in", "out"}]
         /\ write_buf' \in [Fds -> Fds \cup {NoFd}]
         /\ \A f \in Fds : armed'[f] # {} => \/ f \in R \ {cur}
                                             \/ f = cur /\ own # {}
                                             \/ f # cur /\ armed[f] # {}
         /\ \A f \in Fds : \/ (f \in R \ {cur} /\ armed'[f] # {} /\ write_buf'[f] = cur)
                            \/ (f = cur /\ armed'[f] = own /\ write_buf'[f] = write_buf[f])
                            \/ (/\ f # cur /\ f \notin R
                                /\ armed'[f] = armed[f] /\ write_buf'[f] = write_buf[f])
         /\ pc' = "loop" /\ cur' = NoFd /\ len' = 0
<1>1. ToldTo(R) = R \ {cur}
  BY DEF ToldTo
<1>2. /\ armed \in [Fds -> SUBSET {"in", "out"}] /\ write_buf \in [Fds -> Fds \cup {NoFd}]
      /\ cur \in Fds \cup {NoFd}
  BY DEF IInv, TypeOK
<1>3. /\ write_buf' = [f \in Fds |-> IF f \in R \ {cur} THEN cur ELSE write_buf[f]]
      /\ pc' = "loop" /\ cur' = NoFd /\ len' = 0
  BY <1>1 DEF Tell
<1>4. armed' = [f \in Fds |-> IF f \in R \ {cur} THEN {"in", "out"}
                              ELSE IF f = cur THEN own ELSE armed[f]]
  BY <1>1 DEF Tell
<1>5. armed' \in [Fds -> SUBSET {"in", "out"}]
  BY <1>2, <1>4
<1>6. write_buf' \in [Fds -> Fds \cup {NoFd}]
  BY <1>2, <1>3
<1>7. \A f \in Fds : armed'[f] # {} => \/ f \in R \ {cur}
                                       \/ f = cur /\ own # {}
                                       \/ f # cur /\ armed[f] # {}
  BY <1>4
<1>8. \A f \in Fds : \/ (f \in R \ {cur} /\ armed'[f] # {} /\ write_buf'[f] = cur)
                     \/ (f = cur /\ armed'[f] = own /\ write_buf'[f] = write_buf[f])
                     \/ (/\ f # cur /\ f \notin R
                         /\ armed'[f] = armed[f] /\ write_buf'[f] = write_buf[f])
  BY <1>3, <1>4
<1>9. pc' = "loop" /\ cur' = NoFd /\ len' = 0
  BY <1>3
<1> QED BY ONLY <1>5, <1>6, <1>7, <1>8, <1>9, Zenon

LEMMA RecvKeeps ==
  ASSUME IInv, RecvData \/ RecvAgain \/ RecvFails \/ RecvEof PROVE IInv'
<1> USE DEF IInv, Receiving
<1>1. /\ pc \in {"recv", "spin"} /\ cur \in open /\ cur \in Fds /\ events[cur] = {}
      /\ len + inbox[cur] <= MaxText
      /\ UNCHANGED <<backlog, edge, events, acceptEvent>>
  BY DEF RecvData, RecvAgain, RecvFails, RecvEof, HoldInv, TypeOK
<1>2. NoStrandedConnection'
  BY <1>1 DEF NoStrandedConnection
<1>3. CASE RecvData
  <2>1. UsersInv'
    BY <1>3, SameUsers DEF RecvData
  <2>2. TypeOK'
    BY <1>1, <1>3 DEF RecvData, TypeOK, users
  <2>3. HoldInv' /\ ArmedInv'
    BY <1>1, <1>3 DEF RecvData, HoldInv, ArmedInv, NobodyDisarmed, TypeOK
  <2> QED BY <1>2, <2>1, <2>2, <2>3
<1>4. CASE RecvAgain
  <2>1. UsersInv'
    BY <1>4, SameUsers DEF RecvAgain
  <2>2. Users = open /\ Users \in SUBSET Fds
    BY DEF UsersInv, UsersAreConnections, TypeOK
  <2>3. Tell(Users, {"in"})
    BY <1>4 DEF RecvAgain
  <2>4. TypeOK'
    <3>1. /\ armed' \in [Fds -> SUBSET {"in", "out"}]
          /\ write_buf' \in [Fds -> Fds \cup {NoFd}]
          /\ pc' = "loop" /\ cur' = NoFd /\ len' = 0
      BY <2>2, <2>3, Told
    <3> QED BY <1>1, <1>4, <3>1 DEF RecvAgain, TypeOK, client, users
  <2>5. /\ \A f \in Fds : armed'[f] # {} => f \in open
        /\ \A f \in Fds : \/ (f \in open \ {cur} /\ armed'[f] # {} /\ write_buf'[f] = cur)
                           \/ (f = cur /\ armed'[f] = {"in"} /\ write_buf'[f] = write_buf[f])
                           \/ (f # cur /\ f \notin open)
        /\ pc' = "loop" /\ cur' = NoFd /\ len' = 0 /\ UNCHANGED <<open, events, acceptEvent>>
    <3>1. UNCHANGED <<open, client, events, acceptEvent>>
      BY <1>1, <1>4 DEF RecvAgain
    <3>2. \A f \in Fds : armed[f] # {} => f \in open
      BY DEF HoldInv
    <3>3. /\ \A f \in Fds : \/ (f \in open \ {cur} /\ armed'[f] # {} /\ write_buf'[f] = cur)
                             \/ (f = cur /\ armed'[f] = {"in"} /\ write_buf'[f] = write_buf[f])
                             \/ (/\ f # cur /\ f \notin open
                                 /\ armed'[f] = armed[f] /\ write_buf'[f] = write_buf[f])
          /\ pc' = "loop" /\ cur' = NoFd /\ len' = 0
      <4>1. {"in"} \in SUBSET {"in", "out"}
        OBVIOUS
      <4> QED BY <2>2, <2>3, <4>1, Told
    <3> QED BY <1>1, <3>1, <3>2, <3>3
  <2>6. HoldInv'
    BY <2>5 DEF HoldInv
  <2>7. ASSUME NEW f \in Fds, "out" \in armed'[f] \/ "out" \in events'[f]
        PROVE  write_buf'[f] # NoFd
    <3>1. f \in open
      BY <2>5, <2>7 DEF HoldInv
    <3>2. f = cur => "out" \notin armed'[f] /\ "out" \notin events'[f]
      BY <1>1, <2>5
    <3> QED BY <1>1, <2>5, <2>7, <3>1, <3>2
  <2>8. NobodyDisarmed'
    BY <2>5 DEF NobodyDisarmed, TypeOK
  <2>9. ArmedInv'
    BY <2>5, <2>7, <2>8 DEF ArmedInv
  <2> QED BY <1>2, <2>1, <2>4, <2>6, <2>9
<1>5. CASE RecvFails
  <2>1. /\ UsersInv'
        /\ user_count' \in 0..UserLimit
        /\ fds' \in [0..(UserLimit - 1) -> Fds \cup {NoFd}]
    BY <1>1, <1>5, DeletedUser DEF RecvFails, Close
  <2>2. Users = open /\ Users \ {cur} \in SUBSET Fds
    BY DEF UsersInv, UsersAreConnections, TypeOK
  <2>3. Tell(Users \ {cur}, {})
    BY <1>5 DEF RecvFails
  <2>4. TypeOK'
    <3>1. /\ armed' \in [Fds -> SUBSET {"in", "out"}]
          /\ write_buf' \in [Fds -> Fds \cup {NoFd}]
          /\ pc' = "loop" /\ cur' = NoFd /\ len' = 0
      BY <2>2, <2>3, Told
    <3> QED BY <1>1, <1>5, <2>1, <3>1 DEF RecvFails, Close, TypeOK
  <2>5. HoldInv'
    <3>1. /\ open' = open \ {cur} /\ UNCHANGED <<events, acceptEvent>>
          /\ pc' = "loop" /\ cur' = NoFd /\ len' = 0
      BY <1>1, <1>5, <2>2, <2>3, Told DEF RecvFails, Close
    <3>2. \A f \in Fds : armed'[f] # {} => f \in open \ {cur}
      BY <2>2, <2>3, Told DEF HoldInv
    <3> QED BY <1>1, <3>1, <3>2 DEF HoldInv
  <2>6. /\ \A f \in Fds : \/ (f \in open \ {cur} /\ armed'[f] # {} /\ write_buf'[f] = cur)
                           \/ (f = cur /\ armed'[f] = {})
                           \/ (f \notin open /\ armed'[f] = armed[f])
        /\ pc' = "loop" /\ open' = open \ {cur} /\ events' = events
    <3>1. open' = open \ {cur} /\ events' = events
      BY <1>1, <1>5 DEF RecvFails, Close
    <3> QED BY <2>2, <2>3, <3>1, Told
  <2>7. ASSUME NEW f \in Fds, "out" \in armed'[f] \/ "out" \in events'[f]
        PROVE  write_buf'[f] # NoFd
    <3>1. f \in open
      BY <1>1, <2>6, <2>7 DEF HoldInv
    <3>2. f = cur => "out" \notin armed'[f] /\ "out" \notin events'[f]
      BY <1>1, <2>6
    <3> QED BY <1>1, <2>6, <2>7, <3>1, <3>2
  <2>8. NobodyDisarmed'
    BY <2>6 DEF NobodyDisarmed, TypeOK
  <2>9. ArmedInv'
    BY <2>6, <2>7, <2>8 DEF ArmedInv
  <2> QED BY <1>2, <2>1, <2>4, <2>5, <2>9
<1>6. CASE RecvEof
  <2>1. UsersInv'
    BY <1>6, SameUsers DEF RecvEof
  <2>2. TypeOK'
    BY <1>1, <1>6 DEF RecvEof, TypeOK, client, users, texts
  <2>3. HoldInv' /\ ArmedInv'
    BY <1>1, <1>6 DEF RecvEof, HoldInv, ArmedInv, NobodyDisarmed, client, texts
  <2> QED BY <1>2, <2>1, <2>2, <2>3
<1> QED BY <1>3, <1>4, <1>5, <1>6

LEMMA StutterKeeps == ASSUME IInv, UNCHANGED vars PROVE IInv'
<1>1. UsersInv'
  BY SameUsers DEF IInv, vars
<1>2. TypeOK' /\ HoldInv' /\ ArmedInv' /\ NoStrandedConnection'
  BY DEF IInv, vars, client, users, texts, TypeOK, HoldInv, ArmedInv, NobodyDisarmed,
         NoStrandedConnection
<1> QED BY <1>1, <1>2 DEF IInv

-----------------------------------------------------------------------------

\* The invariant is inductive.
THEOREM ChatInvariant == Spec => []IInv
<1>1. IInv /\ [Next]_vars => IInv'
  BY ClientKeeps, WaitKeeps, AcceptUserKeeps, HandleKeeps, RecvKeeps, StutterKeeps
     DEF Next, Server
<1> QED BY <1>1, InitHolds, PTL DEF Spec

\* fds is never written beyond USER_LIMIT entries, however many connections come.
THEOREM ChatTypeOK == Spec => []TypeOK
<1>1. IInv => TypeOK
  BY DEF IInv
<1> QED BY <1>1, ChatInvariant, PTL

\* Through every order of arrivals, departures and errors fds names each connection once.
THEOREM ChatUsersAreConnections == Spec => []UsersAreConnections
<1>1. IInv => UsersAreConnections
  BY DEF IInv, UsersInv
<1> QED BY <1>1, ChatInvariant, PTL

\* A connection that waits for accept() is never without an edge or a loop to come.
THEOREM ChatNoStrandedConnection == Spec => []NoStrandedConnection
<1>1. IInv => NoStrandedConnection
  BY DEF IInv
<1> QED BY <1>1, ChatInvariant, PTL

\* No user is left without an interest, in the batch or out of it: EPOLLOUT is awaited only
\* while words are pending.
THEOREM ChatNobodyDisarmed == Spec => []NobodyDisarmed
<1>1. IInv => NobodyDisarmed
  BY DEF IInv, ArmedInv
<1> QED BY <1>1, ChatInvariant, PTL
==============================================================================
