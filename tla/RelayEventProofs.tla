--------------------------- MODULE RelayEventProofs ---------------------------
(***************************************************************************)
(* The event of a socket reaches only a task that waits for that socket,   *)
(* a task that waits for an open socket stays registered, no task is       *)
(* forgotten, and a connect is reported as failed only for a reason, for   *)
(* any number of clients and file numbers: although closed numbers are     *)
(* reused at once, callbacks of the closed sockets' tasks may still be on  *)
(* the loop's list, and asyncio keeps their keys.                          *)
(***************************************************************************)
EXTENDS RelayProofs, WellFoundedInduction, FiniteSetTheorems, FunctionTheorems
(***************************************************************************)
(* The invariant                                                           *)
(***************************************************************************)
Waiting(t) == at[t] \in {"connect", "recv", "sending"}

SelShape ==
  /\ DOMAIN sel = {"key", "epoll", "cancelled"}
  /\ sel = [key |-> sel.key, epoll |-> sel.epoll, cancelled |-> sel.cancelled]
  /\ sel.key \in [Fds -> [Mode -> Sock \cup {None}]]
  /\ sel.epoll \in [Fds -> SUBSET Mode]

\* Open sockets have different numbers.
Numbers ==
  /\ fd \in [Sock -> Fds \cup {0}]
  /\ \A s \in open : fd[s] \in Fds
  /\ \A r, s \in open : fd[r] = fd[s] => r = s

WaitsAt(t, n, m) == Waiting(t) /\ fd[Awaited(t).sock] = n /\ Awaited(t).mode = m

\* A key names a task that waits for a socket which has, or had, the number.
Keys ==
  \A n \in Fds : \A m \in Mode : \A t \in Sock :
    sel.key[n][m] = t => t \notin sel.cancelled /\ WaitsAt(t, n, m)

\* What the kernel reports is awaited on an open socket ...
Heard ==
  \A n \in Fds : \A m \in sel.epoll[n] :
    \E t \in Sock : sel.key[n][m] = t /\ Awaited(t).sock \in open

\* ... and it reports of a number all that asyncio has for it, or nothing.
AllOrNone == \A n \in Fds : sel.epoll[n] = {} \/ modes(sel, n) \subseteq sel.epoll[n]

EventInv == SelShape /\ Numbers /\ Keys /\ Heard /\ AllOrNone

LEMMA AwaitedIs ==
  ASSUME NEW t \in Sock
  PROVE  /\ at[t] = "connect" => Awaited(t) = [sock |-> Out(t[1]), mode |-> "write"]
         /\ at[t] = "recv" => Awaited(t) = [sock |-> t, mode |-> "read"]
         /\ at[t] = "sending" => Awaited(t) = [sock |-> Other(t), mode |-> "write"]
<1>1. ASSUME at[t] = "connect" PROVE Awaited(t) = [sock |-> Out(t[1]), mode |-> "write"]
  BY <1>1, Zenon DEF Awaited
<1>2. ASSUME at[t] = "recv" PROVE Awaited(t) = [sock |-> t, mode |-> "read"]
  BY <1>2, Zenon DEF Awaited
<1>3. ASSUME at[t] = "sending" PROVE Awaited(t) = [sock |-> Other(t), mode |-> "write"]
  BY <1>3, Zenon DEF Awaited
<1> QED  BY <1>1, <1>2, <1>3

LEMMA AwaitedOf ==
  ASSUME NEW t \in Sock, Waiting(t)
  PROVE  /\ Awaited(t).sock \in Sock /\ Awaited(t).mode \in Mode
         /\ Awaited(t) = [sock |-> Awaited(t).sock, mode |-> Awaited(t).mode]
<1>1. Out(t[1]) \in Sock /\ Other(t) \in Sock
  BY Ends, Others
<1> QED  BY <1>1, AwaitedIs DEF Waiting, Mode

LEMMA AwaitedKept ==
  ASSUME NEW t \in Sock, Waiting(t), at'[t] = at[t]
  PROVE  Waiting(t)' /\ Awaited(t)' = Awaited(t)
<1>1. Waiting(t)'
  BY DEF Waiting
<1>2. Awaited(t)' = Awaited(t)
  BY Zenon DEF Awaited
<1> QED  BY <1>1, <1>2

LEMMA OneKey ==
  ASSUME Keys, NEW t \in Sock, NEW k \in Fds, NEW e \in Mode, NEW n \in Fds, NEW m \in Mode,
         sel.key[k][e] = t, sel.key[n][m] = t
  PROVE  k = n /\ e = m
BY DEF Keys, WaitsAt

LEMMA AwaitedNext ==
  ASSUME NEW t \in Sock
  PROVE  /\ at'[t] = "connect" => Awaited(t)' = [sock |-> Out(t[1]), mode |-> "write"]
         /\ at'[t] = "recv" => Awaited(t)' = [sock |-> t, mode |-> "read"]
         /\ at'[t] = "sending" => Awaited(t)' = [sock |-> Other(t), mode |-> "write"]
<1>1. ASSUME at'[t] = "connect" PROVE Awaited(t)' = [sock |-> Out(t[1]), mode |-> "write"]
  BY <1>1, Zenon DEF Awaited
<1>2. ASSUME at'[t] = "recv" PROVE Awaited(t)' = [sock |-> t, mode |-> "read"]
  BY <1>2, Zenon DEF Awaited
<1>3. ASSUME at'[t] = "sending" PROVE Awaited(t)' = [sock |-> Other(t), mode |-> "write"]
  BY <1>3, Zenon DEF Awaited
<1> QED  BY <1>1, <1>2, <1>3

\* The selector stays as it is; a socket may be opened.
LEMMA SelStays ==
  ASSUME EventInv, sel' = sel, Numbers', open \subseteq open',
         \A t \in Sock :
           Waiting(t) => at'[t] = at[t] /\ fd'[Awaited(t).sock] = fd[Awaited(t).sock]
  PROVE  EventInv'
<1>1. SelShape' /\ AllOrNone'
  BY DEF EventInv, SelShape, AllOrNone, modes
<1>2. Keys'
  BY AwaitedKept DEF EventInv, Keys, WaitsAt
<1>3. Heard'
  BY AwaitedKept DEF EventInv, Keys, WaitsAt, Heard, SelShape
<1> QED  BY <1>1, <1>2, <1>3 DEF EventInv

LEMMA NothingMoves ==
  ASSUME EventInv, UNCHANGED <<sel, fd, open>>, \A t \in Sock : Waiting(t) => at'[t] = at[t]
  PROVE  EventInv'
<1>1. Numbers'
  BY DEF EventInv, Numbers
<1> QED  BY <1>1, SelStays

\* Keys go, and what is left of them is still awaited.
LEMMA FewerKeys ==
  ASSUME EventInv, SelShape', UNCHANGED <<fd, open>>,
         \A k \in Fds : \A e \in Mode : \A u \in Sock :
           sel'.key[k][e] = u =>
             sel.key[k][e] = u /\ at'[u] = at[u] /\ u \notin sel'.cancelled,
         \A k \in Fds : \A e \in sel'.epoll[k] :
           e \in sel.epoll[k] /\ sel'.key[k][e] = sel.key[k][e],
         \A k \in Fds : sel'.epoll[k] = {} \/ modes(sel', k) \subseteq sel'.epoll[k]
  PROVE  EventInv'
<1>1. SelShape /\ Numbers /\ Keys /\ Heard
  BY DEF EventInv
<1>2. Numbers' /\ AllOrNone'
  BY <1>1 DEF Numbers, AllOrNone, modes
<1>3. ASSUME NEW k \in Fds, NEW e \in Mode, NEW u \in Sock, sel'.key[k][e] = u
      PROVE  u \notin sel'.cancelled /\ WaitsAt(u, k, e)' /\ Awaited(u)' = Awaited(u)
  <2>1. sel.key[k][e] = u /\ at'[u] = at[u] /\ u \notin sel'.cancelled
    BY <1>3
  <2>2. WaitsAt(u, k, e)
    BY <1>1, <2>1 DEF Keys
  <2>3. Waiting(u)' /\ Awaited(u)' = Awaited(u)
    BY <2>1, <2>2, AwaitedKept DEF WaitsAt
  <2> QED  BY <2>1, <2>2, <2>3 DEF WaitsAt
<1>4. Keys'
  BY <1>3 DEF Keys
<1>5. Heard'
  <2> SUFFICES ASSUME NEW k \in Fds, NEW e \in sel'.epoll[k]
               PROVE  \E u \in Sock : sel'.key[k][e] = u /\ Awaited(u)'.sock \in open'
    BY Zenon DEF Heard
  <2>1. e \in Mode /\ e \in sel.epoll[k] /\ sel'.key[k][e] = sel.key[k][e]
    BY <1>1 DEF SelShape
  <2>2. PICK u \in Sock : sel.key[k][e] = u /\ Awaited(u).sock \in open
    BY <1>1, <2>1 DEF Heard
  <2>3. Awaited(u)' = Awaited(u)
    BY <1>3, <2>1, <2>2
  <2> QED  BY <2>1, <2>2, <2>3
<1> QED  BY <1>2, <1>4, <1>5 DEF EventInv

\* A task takes its handle out of the selector.
LEMMA Removing ==
  ASSUME EventInv, NEW t \in Sock, Waiting(t), UNCHANGED <<fd, open>>,
         sel' = RemoveHandler(sel, t, fd[Awaited(t).sock], Awaited(t).mode),
         fd[Awaited(t).sock] \in Fds,
         \A u \in Sock : u # t /\ Waiting(u) => at'[u] = at[u]
  PROVE  EventInv'
<1> DEFINE n == fd[Awaited(t).sock]
           m == Awaited(t).mode
           rest == modes(sel, n) \ {m}
<1>1. n \in Fds /\ m \in Mode
  BY AwaitedOf
<1>2. SelShape /\ Numbers /\ Keys /\ Heard /\ AllOrNone
  BY DEF EventInv
<1>3. \A k \in Fds : \A e \in Mode : sel.key[k][e] = t => k = n /\ e = m
  BY <1>2 DEF Keys, WaitsAt
<1>4. \A k \in Fds : \A e \in Mode : \A u \in Sock :
        sel.key[k][e] = u => u \notin sel.cancelled /\ Waiting(u)
  BY <1>2 DEF Keys, WaitsAt
<1>5. None \notin Sock
  BY DEF None, Sock
<1>6. CASE t \in sel.cancelled \/ m \notin modes(sel, n)
  <2>1. sel' = sel
    BY <1>6 DEF RemoveHandler
  <2>2. \A k \in Fds : \A e \in Mode : sel.key[k][e] # t
    BY <1>1, <1>3, <1>4, <1>5, <1>6 DEF modes
  <2> HIDE DEF n, m, rest
  <2>3. SelShape'
    BY <1>2, <2>1 DEF SelShape
  <2>4. \A k \in Fds : \A e \in Mode : \A u \in Sock :
          sel.key[k][e] = u => at'[u] = at[u]
    BY <1>4, <2>2
  <2>5. modes(sel', n) = modes(sel, n)
    BY <2>1
  <2> QED  BY <1>2, <1>4, <2>1, <2>3, <2>4, FewerKeys DEF AllOrNone
<1>7. CASE ~(t \in sel.cancelled \/ m \notin modes(sel, n)) /\ rest # {} /\ sel.epoll[n] = {}
  <2>1. sel' = [sel EXCEPT !.key[n] = NoKey]
    BY <1>7 DEF RemoveHandler
  <2> HIDE DEF n, m, rest
  <2>2. /\ sel'.key = [sel.key EXCEPT ![n] = NoKey] /\ sel'.epoll = sel.epoll
        /\ sel'.cancelled = sel.cancelled
    BY <1>2, <2>1 DEF SelShape
  <2>3. SelShape'
    BY <1>1, <1>2, <2>1, <2>2 DEF SelShape, NoKey, Mode
  <2>4. /\ \A k \in Fds : k # n => sel'.key[k] = sel.key[k]
        /\ \A e \in Mode : sel'.key[n][e] = None
    BY <1>1, <1>2, <2>2 DEF SelShape, NoKey, Mode
  <2>5. \A k \in Fds : \A e \in Mode : \A u \in Sock :
          sel'.key[k][e] = u => sel.key[k][e] = u /\ k # n
    BY <1>5, <2>4
  <2>6. \A k \in Fds : \A e \in sel'.epoll[k] :
          e \in sel.epoll[k] /\ sel'.key[k][e] = sel.key[k][e]
    BY <1>7, <2>2, <2>4
  <2>7. \A k \in Fds : sel'.epoll[k] = {} \/ modes(sel', k) \subseteq sel'.epoll[k]
    BY <1>2, <1>7, <2>2, <2>4 DEF AllOrNone, modes
  <2> QED  BY <1>3, <1>4, <2>2, <2>3, <2>5, <2>6, <2>7, FewerKeys
<1>8. CASE ~(t \in sel.cancelled \/ m \notin modes(sel, n)) /\ ~(rest # {} /\ sel.epoll[n] = {})
  <2>1. sel' = [key |-> [sel.key EXCEPT ![n][m] = None],
                epoll |-> [sel.epoll EXCEPT ![n] = rest],
                cancelled |-> sel.cancelled \cup {sel.key[n][m]}]
    BY <1>8, Zenon DEF RemoveHandler
  <2>2. rest \subseteq sel.epoll[n] /\ rest \subseteq Mode /\ m \notin rest
    BY <1>1, <1>2, <1>8 DEF AllOrNone, modes
  <2>3. \A e \in Mode : e # m /\ sel.key[n][e] # None => e \in rest
    BY <1>1 DEF modes
  <2>4. sel.key[n][m] \in Sock
    BY <1>1, <1>2, <1>8 DEF SelShape, modes
  <2> HIDE DEF n, m, rest
  <2>5. /\ sel'.key = [sel.key EXCEPT ![n][m] = None]
        /\ sel'.epoll = [sel.epoll EXCEPT ![n] = rest]
        /\ sel'.cancelled = sel.cancelled \cup {sel.key[n][m]}
    BY <2>1
  <2>6. SelShape'
    BY <1>1, <1>2, <2>1, <2>2, <2>5 DEF SelShape
  <2>7. /\ sel'.epoll[n] = rest /\ \A k \in Fds : k # n => sel'.epoll[k] = sel.epoll[k]
        /\ \A k \in Fds : k # n => sel'.key[k] = sel.key[k]
        /\ sel'.key[n][m] = None
        /\ \A e \in Mode : e # m => sel'.key[n][e] = sel.key[n][e]
    BY <1>1, <1>2, <2>5 DEF SelShape
  <2>8. ASSUME NEW k \in Fds, NEW e \in Mode, NEW u \in Sock, sel'.key[k][e] = u
        PROVE  sel.key[k][e] = u /\ at'[u] = at[u] /\ u \notin sel'.cancelled
    <3>1. sel.key[k][e] = u /\ (k # n \/ e # m)
      BY <1>5, <2>7, <2>8
    <3>2. u # t /\ u # sel.key[n][m]
      BY <1>1, <1>2, <1>3, <2>4, <3>1, OneKey
    <3> QED  BY <1>4, <2>5, <3>1, <3>2
  <2>9. \A k \in Fds : \A e \in sel'.epoll[k] :
          e \in sel.epoll[k] /\ sel'.key[k][e] = sel.key[k][e]
    BY <2>2, <2>7
  <2>10. \A k \in Fds : sel'.epoll[k] = {} \/ modes(sel', k) \subseteq sel'.epoll[k]
    BY <1>2, <2>3, <2>7 DEF AllOrNone, modes
  <2> QED  BY <2>6, <2>8, <2>9, <2>10, FewerKeys
<1> QED  BY <1>6, <1>7, <1>8

\* A task puts its handle into the selector, for a socket that is open or new.
LEMMA Adding ==
  ASSUME EventInv, Numbers', NEW t \in Sock, ~Waiting(t), NEW n \in Fds, NEW m \in Mode,
         open \subseteq open', NEW s \in open', fd'[s] = n,
         \A u \in Sock : Waiting(u) => fd'[Awaited(u).sock] = fd[Awaited(u).sock],
         \A u \in Sock : u # t => at'[u] = at[u],
         sel' = AddHandler(sel, t, n, m),
         Raises(sel, n, m) \/ (Waiting(t)' /\ Awaited(t)' = [sock |-> s, mode |-> m])
  PROVE  EventInv'
<1>1. SelShape /\ Keys /\ Heard /\ AllOrNone
  BY DEF EventInv
<1>2. \A k \in Fds : \A e \in Mode : \A u \in Sock :
        sel.key[k][e] = u => u # t /\ u \notin sel.cancelled
  BY <1>1 DEF Keys, WaitsAt
<1>3. ASSUME NEW k \in Fds, NEW e \in Mode, NEW u \in Sock, sel.key[k][e] = u
      PROVE  WaitsAt(u, k, e)' /\ Awaited(u)' = Awaited(u)
  <2>1. u # t /\ WaitsAt(u, k, e)
    BY <1>1, <1>2, <1>3 DEF Keys
  <2>2. Waiting(u)' /\ Awaited(u)' = Awaited(u)
    BY <2>1, AwaitedKept DEF WaitsAt
  <2> QED  BY <2>1, <2>2 DEF WaitsAt
<1>4. None \notin Sock
  BY DEF None, Sock
<1>5. CASE Raises(sel, n, m)
  <2>1. sel' = [sel EXCEPT !.key[n] = NoKey]
    BY <1>5 DEF AddHandler
  <2>2. /\ sel'.key = [sel.key EXCEPT ![n] = NoKey] /\ sel'.epoll = sel.epoll
        /\ sel'.cancelled = sel.cancelled
    BY <1>1, <2>1 DEF SelShape
  <2>3. SelShape'
    <3>1. NoKey \in [Mode -> Sock \cup {None}]
      BY DEF NoKey, Mode
    <3>2. sel'.key \in [Fds -> [Mode -> Sock \cup {None}]]
      BY <1>1, <2>2, <3>1 DEF SelShape
    <3>3. /\ DOMAIN sel' = {"key", "epoll", "cancelled"}
          /\ sel' = [key |-> sel'.key, epoll |-> sel'.epoll, cancelled |-> sel'.cancelled]
      BY <1>1, <2>1 DEF SelShape
    <3> QED  BY <1>1, <2>2, <3>2, <3>3 DEF SelShape
  <2>4. /\ \A k \in Fds : k # n => sel'.key[k] = sel.key[k]
        /\ \A e \in Mode : sel'.key[n][e] = None
    BY <1>1, <2>2 DEF SelShape, NoKey, Mode
  <2>5. Keys'
    BY <1>2, <1>3, <1>4, <2>2, <2>4 DEF Keys
  <2>6. ASSUME NEW k \in Fds, NEW e \in sel'.epoll[k]
        PROVE  \E u \in Sock : sel'.key[k][e] = u /\ Awaited(u)'.sock \in open'
    <3>1. k # n /\ e \in Mode
      BY <1>1, <1>5, <2>2 DEF Raises, SelShape
    <3>2. PICK u \in Sock : sel.key[k][e] = u /\ Awaited(u).sock \in open
      BY <1>1, <2>2 DEF Heard
    <3> QED  BY <1>3, <2>4, <3>1, <3>2
  <2>7. Heard'
    BY <2>6 DEF Heard
  <2>8. AllOrNone'
    BY <1>1, <2>2, <2>4 DEF AllOrNone, modes
  <2> QED  BY <2>3, <2>5, <2>7, <2>8 DEF EventInv
<1>6. CASE ~Raises(sel, n, m)
  <2> DEFINE told == IF m \in modes(sel, n) THEN sel.epoll[n] ELSE modes(sel, n) \cup {m}
  <2>1. sel' = [key |-> [sel.key EXCEPT ![n][m] = t],
                epoll |-> [sel.epoll EXCEPT ![n] = told],
                cancelled |-> (sel.cancelled \cup ({sel.key[n][m]} \ {None})) \ {t}]
    <3>1. sel.epoll = [sel.epoll EXCEPT ![n] = sel.epoll[n]]
      BY <1>1 DEF SelShape
    <3>2. sel' = [key |-> [sel.key EXCEPT ![n][m] = t],
                  epoll |-> IF m \in modes(sel, n) THEN sel.epoll
                            ELSE [sel.epoll EXCEPT ![n] = modes(sel, n) \cup {m}],
                  cancelled |-> (sel.cancelled \cup ({sel.key[n][m]} \ {None})) \ {t}]
      BY <1>6, Zenon DEF AddHandler
    <3>3. CASE m \in modes(sel, n)
      BY <3>1, <3>2, <3>3, Zenon
    <3>4. CASE m \notin modes(sel, n)
      BY <3>2, <3>4, Zenon
    <3> QED  BY <3>3, <3>4
  <2>2. told \subseteq sel.epoll[n] \cup {m} /\ told \subseteq Mode
    BY <1>1, <1>6 DEF Raises, AllOrNone, SelShape, modes
  <2>3. told = {} \/ \A e \in Mode : e # m /\ sel.key[n][e] # None => e \in told
    BY <1>1 DEF AllOrNone, modes
  <2>4. told # {} => m \in told
    BY <1>1 DEF AllOrNone, modes
  <2> HIDE DEF told
  <2>5. /\ sel'.key = [sel.key EXCEPT ![n][m] = t]
        /\ sel'.epoll = [sel.epoll EXCEPT ![n] = told]
        /\ sel'.cancelled = (sel.cancelled \cup ({sel.key[n][m]} \ {None})) \ {t}
    BY <2>1
  <2>6. SelShape'
    BY <1>1, <2>1, <2>2, <2>5 DEF SelShape
  <2>7. /\ sel'.epoll[n] = told /\ \A k \in Fds : k # n => sel'.epoll[k] = sel.epoll[k]
        /\ \A k \in Fds : k # n => sel'.key[k] = sel.key[k]
        /\ sel'.key[n][m] = t
        /\ \A e \in Mode : e # m => sel'.key[n][e] = sel.key[n][e]
    BY <1>1, <2>5 DEF SelShape
  <2>8. Waiting(t)' /\ Awaited(t)' = [sock |-> s, mode |-> m]
    BY <1>6
  <2>9. WaitsAt(t, n, m)' /\ Awaited(t)'.sock \in open'
    BY <2>8 DEF WaitsAt
  <2>10. ASSUME NEW k \in Fds, NEW e \in Mode, NEW u \in Sock, sel'.key[k][e] = u
         PROVE  u \notin sel'.cancelled /\ WaitsAt(u, k, e)'
    <3>1. CASE k = n /\ e = m
      BY <2>5, <2>7, <2>9, <2>10, <3>1
    <3>2. CASE k # n \/ e # m
      <4>1. sel.key[k][e] = u
        BY <2>7, <2>10, <3>2
      <4>2. u # sel.key[n][m]
        BY <1>1, <3>2, <4>1, OneKey
      <4> QED  BY <1>2, <1>3, <2>5, <4>1, <4>2
    <3> QED  BY <3>1, <3>2
  <2>11. Keys'
    BY <2>10 DEF Keys
  <2>12. ASSUME NEW k \in Fds, NEW e \in sel'.epoll[k]
         PROVE  \E u \in Sock : sel'.key[k][e] = u /\ Awaited(u)'.sock \in open'
    <3>1. CASE k = n /\ e = m
      BY <2>7, <2>9, <3>1
    <3>2. CASE k # n \/ e # m
      <4>1. e \in sel.epoll[k] /\ e \in Mode
        BY <1>1, <2>2, <2>7, <3>2 DEF SelShape
      <4>2. PICK u \in Sock : sel.key[k][e] = u /\ Awaited(u).sock \in open
        BY <1>1, <4>1 DEF Heard
      <4>3. sel'.key[k][e] = u /\ Awaited(u)' = Awaited(u)
        BY <1>3, <2>7, <3>2, <4>1, <4>2
      <4> QED  BY <4>2, <4>3
    <3> QED  BY <3>1, <3>2
  <2>13. Heard'
    BY <2>12 DEF Heard
  <2>14. ASSUME NEW k \in Fds, sel'.epoll[k] # {} PROVE modes(sel', k) \subseteq sel'.epoll[k]
    <3>1. CASE k = n
      BY <2>3, <2>4, <2>7, <2>14, <3>1 DEF modes
    <3>2. CASE k # n
      BY <1>1, <2>7, <2>14, <3>2 DEF AllOrNone, modes
    <3> QED  BY <3>1, <3>2
  <2>15. AllOrNone'
    BY <2>14 DEF AllOrNone
  <2> QED  BY <2>6, <2>11, <2>13, <2>15 DEF EventInv
<1> QED  BY <1>5, <1>6

\* Both sockets of a client are closed: the kernel drops their numbers.
LEMMA Dropping ==
  ASSUME EventInv, open \subseteq Sock, NEW c \in Clients, open' = open \ {In(c), Out(c)},
         fd' = fd, sel' = Dropped(sel, c), \A t \in Sock : Waiting(t) => at'[t] = at[t]
  PROVE  EventInv'
<1>1. SelShape /\ Numbers /\ Keys /\ Heard /\ AllOrNone
  BY DEF EventInv
<1> DEFINE gone(k) == \E s \in {In(c), Out(c)} \cap open : fd[s] = k
<1>2. /\ sel'.key = sel.key /\ sel'.cancelled = sel.cancelled
      /\ sel'.epoll = [k \in Fds |-> IF gone(k) THEN {} ELSE sel.epoll[k]]
      /\ sel' = [key |-> sel'.key, epoll |-> sel'.epoll, cancelled |-> sel'.cancelled]
      /\ DOMAIN sel' = {"key", "epoll", "cancelled"}
  BY <1>1 DEF Dropped, SelShape
<1>3. SelShape'
  BY <1>1, <1>2 DEF SelShape
<1>4. Numbers'
  BY <1>1 DEF Numbers
<1>5. Keys'
  BY <1>1, <1>2, AwaitedKept DEF Keys, WaitsAt
<1>6. ASSUME NEW k \in Fds, NEW e \in sel'.epoll[k]
      PROVE  \E u \in Sock : sel'.key[k][e] = u /\ Awaited(u)'.sock \in open'
  <2>1. e \in sel.epoll[k] /\ ~gone(k) /\ e \in Mode
    BY <1>1, <1>2 DEF SelShape
  <2>2. PICK u \in Sock : sel.key[k][e] = u /\ Awaited(u).sock \in open
    BY <1>1, <2>1 DEF Heard
  <2>3. Waiting(u) /\ fd[Awaited(u).sock] = k
    BY <1>1, <2>1, <2>2 DEF Keys, WaitsAt
  <2>4. Awaited(u).sock \notin {In(c), Out(c)}
    BY <2>1, <2>2, <2>3
  <2>5. Awaited(u)' = Awaited(u)
    BY <2>3, AwaitedKept
  <2> QED  BY <1>2, <2>2, <2>4, <2>5
<1>7. Heard'
  BY <1>6 DEF Heard
<1>8. AllOrNone'
  BY <1>1, <1>2 DEF AllOrNone, modes
<1> QED  BY <1>3, <1>4, <1>5, <1>7, <1>8 DEF EventInv

(***************************************************************************)
(* New sockets                                                             *)
(***************************************************************************)
LEMMA Smallest ==
  ASSUME NEW S, S \subseteq Nat, S # {}
  PROVE  \E n \in S : \A k \in S : n <= k
<1>1. PICK n \in S : \A k \in S : <<k, n>> \notin OpToRel(<, Nat)
  BY NatLessThanWellFounded, WFMin, Zenon
<1>2. \A k \in S : ~(k < n)
  BY <1>1, Zenon DEF OpToRel
<1> QED  BY <1>2

LEMMA NewNumber ==
  ASSUME Numbers, NEW s \in Sock, s \notin open, OpenSocket(s)
  PROVE  /\ Lowest \in Fds /\ fd'[s] = Lowest /\ Numbers' /\ open \subseteq open' /\ s \in open'
         /\ \A r \in Sock : r # s => fd'[r] = fd[r]
<1>1. Lowest \in Free
  <2>1. Free # {} /\ Free \subseteq Nat
    BY RelayAssumption DEF OpenSocket, Free
  <2> QED  BY <2>1, Smallest DEF Lowest
<1>2. Lowest \in Fds /\ \A r \in open : fd[r] # Lowest
  BY <1>1 DEF Free
<1>3. fd' = [fd EXCEPT ![s] = Lowest] /\ open' = open \cup {s}
  BY DEF OpenSocket
<1>4. fd' \in [Sock -> Fds \cup {0}] /\ fd'[s] = Lowest /\ \A r \in Sock : r # s => fd'[r] = fd[r]
  BY <1>2, <1>3 DEF Numbers
<1> QED  BY <1>2, <1>3, <1>4 DEF Numbers

\* A task waits for a socket of its own client.
LEMMA NobodyWaits ==
  ASSUME DataInv, NEW c \in Clients, at[In(c)] \in {"new", "start"}, NEW t \in Sock, Waiting(t)
  PROVE  Awaited(t).sock \notin {In(c), Out(c)}
<1>1. PICK d \in Clients : (t = In(d) \/ t = Out(d)) /\ t[1] = d
  BY Ends
<1>2. Other(t) \in {In(d), Out(d)}
  BY <1>1, Ends
<1>3. Awaited(t).sock \in {In(d), Out(d)}
  BY <1>1, <1>2, AwaitedIs DEF Waiting
<1>4. d # c
  BY <1>1 DEF DataInv, Early, Waiting
<1> QED  BY <1>3, <1>4, Ends

(***************************************************************************)
(* The actions                                                             *)
(***************************************************************************)
\* A client that is past its start has its numbers.
Numbered ==
  \A c \in Clients : /\ at[In(c)] # "new" => fd[In(c)] \in Fds
                     /\ at[In(c)] \notin {"new", "start"} => fd[Out(c)] \in Fds

Inv == DataInv /\ EventInv /\ Numbered

LEMMA NumberedKept ==
  ASSUME Numbered, fd' = fd, \A s \in Sock : at[s] \in {"new", "start"} => at'[s] = at[s]
  PROVE  Numbered'
BY Ends DEF Numbered

LEMMA WaitedNumber ==
  ASSUME Inv, NEW t \in Sock, Waiting(t)
  PROVE  fd[Awaited(t).sock] \in Fds
<1>1. PICK c \in Clients : (t = In(c) \/ t = Out(c)) /\ t[1] = c
  BY Ends
<1>2. Other(t) \in {In(c), Out(c)}
  BY <1>1, Ends
<1>3. Awaited(t).sock \in {In(c), Out(c)}
  BY <1>1, <1>2, AwaitedIs DEF Waiting
<1>4. at[In(c)] \notin {"new", "start"}
  BY <1>1 DEF Inv, DataInv, Early, Waiting
<1> QED  BY <1>3, <1>4 DEF Inv, Numbered

LEMMA StillEvents ==
  ASSUME Inv,
         \/ Select
         \/ \E t \in Sock : Callback(t) \/ PeerWrites(t) \/ PeerReads(t) \/ PeerEnds(t)
         \/ \E c \in Clients : Answer(c) \/ Verdict(c)
         \/ UNCHANGED vars
  PROVE  EventInv' /\ Numbered'
<1>1. UNCHANGED <<sel, fd, open, at>>
  BY DEF Select, Callback, Cancelled, ConnectCallback, RecvCallback, SendCallback, HandleRuns,
         PeerWrites, PeerReads, PeerEnds, Answer, Verdict, Decide,
         vars, loop_vars, task_vars, sock_vars
<1> QED  BY <1>1, NothingMoves, NumberedKept DEF Inv

LEMMA ResumeEvents ==
  ASSUME Inv, NEW t \in Sock, Resume(t)
  PROVE  EventInv' /\ Numbered'
<1>1. UNCHANGED <<fd, open>>
  BY DEF Resume, sock_vars
<1>2. /\ \A u \in Sock : u # t /\ Waiting(u) => at'[u] = at[u]
      /\ \A u \in Sock :
           at[u] \in {"new", "start"} /\ (\E c \in Clients : u = In(c)) => at'[u] = at[u]
  <2>1. at \in [Sock -> Place] /\ Other(t) \in Sock
    BY Others DEF Inv, DataInv, Shape
  <2>2. CASE \E place : /\ at' = [at EXCEPT ![t] = place]
                        /\ at[t] \in {"new", "start"} => place = at[t]
    BY <2>1, <2>2
  <2>3. CASE at[t] = "gate" /\ at' = [at EXCEPT ![t] = "receive", ![Other(t)] = "receive"]
    <3>1. PICK c \in Clients : t = In(c)
      BY <2>3, Ends DEF Inv, DataInv, Early
    <3>2. Other(t) = Out(c) /\ at[Out(c)] = "new"
      BY <2>3, <3>1, Ends DEF Inv, DataInv, Early
    <3>3. \A d \in Clients : In(d) # Out(c)
      BY Ends
    <3> QED  BY <2>1, <2>3, <3>1, <3>2, <3>3 DEF Waiting
  <2>4. \/ at[t] = "gate" /\ at' = [at EXCEPT ![t] = "receive", ![Other(t)] = "receive"]
        \/ \E place : /\ at' = [at EXCEPT ![t] = place]
                      /\ at[t] \in {"new", "start"} => place = at[t]
    <3>1. CASE at[t] = "connect" /\ fut[t] = "ok" /\ WaitVerdict(t)
      BY <3>1, Zenon DEF WaitVerdict
    <3>2. CASE at[t] = "connect" /\ fut[t] # "ok" /\ GoOn(t, "failed")
      BY <3>2, Zenon DEF GoOn
    <3>3. CASE at[t] = "gate" /\ ActOnVerdict(t)
      BY <3>3, Zenon DEF ActOnVerdict
    <3>4. CASE at[t] = "recv" /\ GoOn(t, IF fut[t] = "data" THEN "send" ELSE "break")
      BY <3>4, Zenon DEF GoOn
    <3>5. CASE at[t] = "sending" /\ GoOn(t, IF fut[t] = "ok" THEN "receive" ELSE "break")
      BY <3>5, Zenon DEF GoOn
    <3>6. CASE at[t] \notin {"connect", "gate", "recv", "sending"} /\ GoOn(t, at[t])
      BY <3>6, Zenon DEF GoOn
    <3> QED  BY <3>1, <3>2, <3>3, <3>4, <3>5, <3>6, Zenon DEF Resume
  <2> QED  BY <2>2, <2>3, <2>4
<1>3. Numbered'
  BY <1>1, <1>2, Ends DEF Inv, Numbered
<1>4. CASE Waiting(t)
  <2>1. sel' = RemoveHandler(sel, t, fd[Awaited(t).sock], Awaited(t).mode)
    BY <1>4 DEF Resume, Waiting
  <2>2. fd[Awaited(t).sock] \in Fds
    BY <1>4, WaitedNumber
  <2> QED  BY <1>1, <1>2, <1>3, <1>4, <2>1, <2>2, Removing DEF Inv
<1>5. CASE ~Waiting(t)
  <2>1. sel' = sel
    BY <1>5 DEF Resume, Waiting
  <2>2. \A u \in Sock : Waiting(u) => at'[u] = at[u]
    BY <1>2, <1>5
  <2> QED  BY <1>1, <1>3, <2>1, <2>2, NothingMoves DEF Inv
<1> QED  BY <1>4, <1>5

\* A task that is not waiting goes on, or waits for an open socket.
LEMMA AwaitEvents ==
  ASSUME Inv, NEW t \in Sock, at[t] \in {"receive", "send"}, UNCHANGED <<fd, open>>,
         NEW s \in open, NEW m \in Mode, NEW place \in Place, ~(place \in {"new", "start"}),
         at' = [at EXCEPT ![t] = place],
         \/ sel' = sel
         \/ /\ sel' = AddHandler(sel, t, fd[s], m)
            /\ Raises(sel, fd[s], m) \/ (Waiting(t)' /\ Awaited(t)' = [sock |-> s, mode |-> m])
  PROVE  EventInv' /\ Numbered'
<1>1. /\ \A u \in Sock : u # t => at'[u] = at[u]
      /\ ~Waiting(t)
  BY DEF Inv, DataInv, Shape, Waiting
<1>2. Numbered'
  BY <1>1, NumberedKept DEF Inv
<1>3. Numbers' /\ fd[s] \in Fds
  BY DEF Inv, EventInv, Numbers
<1>4. CASE sel' = sel
  BY <1>1, <1>2, <1>4, NothingMoves DEF Inv
<1>5. CASE /\ sel' = AddHandler(sel, t, fd[s], m)
           /\ Raises(sel, fd[s], m) \/ (Waiting(t)' /\ Awaited(t)' = [sock |-> s, mode |-> m])
  BY <1>1, <1>2, <1>3, <1>5, Adding DEF Inv
<1> QED  BY <1>4, <1>5

LEMMA ReceiveEvents ==
  ASSUME Inv, NEW t \in Sock, SockRecv(t)
  PROVE  EventInv' /\ Numbered'
<1>1. at[t] = "receive" /\ UNCHANGED <<fd, open>> /\ at \in [Sock -> Place]
  BY DEF SockRecv, sock_vars, Inv, DataInv, Shape
<1>2. {"break", "send", "recv"} \subseteq Place /\ "read" \in Mode
  BY DEF Place, Mode
<1>3. CASE (at' = [at EXCEPT ![t] = "break"] \/ at' = [at EXCEPT ![t] = "send"]) /\ sel' = sel
  <2>1. \A u \in Sock : u # t => at'[u] = at[u]
    BY <1>1, <1>3
  <2>2. Numbered'
    BY <1>1, <2>1, NumberedKept DEF Inv
  <2>3. \A u \in Sock : Waiting(u) => at'[u] = at[u]
    BY <1>1, <2>1 DEF Waiting
  <2> QED  BY <1>1, <1>3, <2>2, <2>3, NothingMoves DEF Inv
<1>4. CASE RecvOutcome(t) = "pending" /\ Await(t, fd[t], "recv", "read", "break")
  <2>1. t \in open
    BY <1>4 DEF RecvOutcome
  <2>2. sel' = AddHandler(sel, t, fd[t], "read")
    BY <1>4, Zenon DEF Await
  <2>3. CASE Raises(sel, fd[t], "read")
    <3>1. at' = [at EXCEPT ![t] = "break"]
      BY <1>4, <2>3, Zenon DEF Await
    <3> QED  BY <1>1, <1>2, <2>1, <2>2, <2>3, <3>1, AwaitEvents
  <2>4. CASE ~Raises(sel, fd[t], "read")
    <3>1. at' = [at EXCEPT ![t] = "recv"]
      BY <1>4, <2>4, Zenon DEF Await
    <3>2. at'[t] = "recv"
      BY <1>1, <3>1
    <3>3. Waiting(t)' /\ Awaited(t)' = [sock |-> t, mode |-> "read"]
      BY <3>2, AwaitedNext DEF Waiting
    <3> QED  BY <1>1, <1>2, <2>1, <2>2, <3>1, <3>3, AwaitEvents
  <2> QED  BY <2>3, <2>4
<1> QED  BY <1>3, <1>4, Zenon DEF SockRecv

LEMMA SendallEvents ==
  ASSUME Inv, NEW t \in Sock, SockSendall(t)
  PROVE  EventInv' /\ Numbered'
<1>1. at[t] = "send" /\ UNCHANGED <<fd, open>> /\ at \in [Sock -> Place]
  BY DEF SockSendall, sock_vars, Inv, DataInv, Shape
<1>2. {"break", "receive", "sending"} \subseteq Place /\ "write" \in Mode
  BY DEF Place, Mode
<1>3. CASE (at' = [at EXCEPT ![t] = "break"] \/ at' = [at EXCEPT ![t] = "receive"]) /\ sel' = sel
  <2>1. \A u \in Sock : u # t => at'[u] = at[u]
    BY <1>1, <1>3
  <2>2. Numbered'
    BY <1>1, <2>1, NumberedKept DEF Inv
  <2>3. \A u \in Sock : Waiting(u) => at'[u] = at[u]
    BY <1>1, <2>1 DEF Waiting
  <2> QED  BY <1>1, <1>3, <2>2, <2>3, NothingMoves DEF Inv
<1>4. CASE SendOutcome(t) = "pending" /\ Await(t, fd[Other(t)], "sending", "write", "break")
  <2>1. Other(t) \in open
    BY <1>4 DEF SendOutcome
  <2>2. sel' = AddHandler(sel, t, fd[Other(t)], "write")
    BY <1>4, Zenon DEF Await
  <2>3. CASE Raises(sel, fd[Other(t)], "write")
    <3>1. at' = [at EXCEPT ![t] = "break"]
      BY <1>4, <2>3, Zenon DEF Await
    <3> QED  BY <1>1, <1>2, <2>1, <2>2, <2>3, <3>1, AwaitEvents
  <2>4. CASE ~Raises(sel, fd[Other(t)], "write")
    <3>1. at' = [at EXCEPT ![t] = "sending"]
      BY <1>4, <2>4, Zenon DEF Await
    <3>2. at'[t] = "sending"
      BY <1>1, <3>1
    <3>3. Waiting(t)' /\ Awaited(t)' = [sock |-> Other(t), mode |-> "write"]
      BY <3>2, AwaitedNext DEF Waiting
    <3> QED  BY <1>1, <1>2, <2>1, <2>2, <3>1, <3>3, AwaitEvents
  <2> QED  BY <2>3, <2>4
<1> QED  BY <1>3, <1>4, Zenon DEF SockSendall

LEMMA ClosingEvents ==
  ASSUME Inv, NEW c \in Clients, CloseBoth(c), sel' = Dropped(sel, c),
         at[In(c)] \notin {"new", "start"},
         \A s \in Sock : at'[s] = at[s] \/ at[s] \in {"failed", "break"}
  PROVE  EventInv' /\ Numbered'
<1>1. open' = open \ {In(c), Out(c)} /\ fd' = fd /\ open \subseteq Sock
  BY DEF CloseBoth, Inv, DataInv, Shape
<1>2. \A s \in Sock : Waiting(s) => at'[s] = at[s]
  BY DEF Waiting
<1>3. Numbered'
  BY <1>1, NumberedKept DEF Inv
<1> QED  BY <1>1, <1>2, <1>3, Dropping DEF Inv

LEMMA LeaveEvents ==
  ASSUME Inv, NEW t \in Sock, Leave(t)
  PROVE  EventInv' /\ Numbered'
<1>1. PICK c \in Clients : (t = In(c) \/ t = Out(c)) /\ t[1] = c
  BY Ends
<1>2. /\ CloseBoth(c) /\ sel' = Dropped(sel, c) /\ at[t] \in {"failed", "break"}
      /\ at' = [at EXCEPT ![t] = "done"]
  BY <1>1, Zenon DEF Leave
<1>3. at[In(c)] \notin {"new", "start"}
  BY <1>1, <1>2 DEF Inv, DataInv, Early
<1>4. \A s \in Sock : at'[s] = at[s] \/ at[s] \in {"failed", "break"}
  BY <1>2 DEF Inv, DataInv, Shape
<1> QED  BY <1>2, <1>3, <1>4, ClosingEvents

LEMMA AbortEvents ==
  ASSUME Inv, NEW c \in Clients, Abort(c)
  PROVE  EventInv' /\ Numbered'
<1>1. CloseBoth(c) /\ sel' = Dropped(sel, c) /\ at[In(c)] \in {"connect", "gate"} /\ at' = at
  BY DEF Abort, Decide
<1> QED  BY <1>1, ClosingEvents

LEMMA AcceptEvents ==
  ASSUME Inv, NEW c \in Clients, Accept(c)
  PROVE  EventInv' /\ Numbered'
<1>1. /\ at[In(c)] = "new" /\ OpenSocket(In(c)) /\ at' = [at EXCEPT ![In(c)] = "start"]
      /\ sel' = sel
  BY DEF Accept
<1>2. In(c) \in Sock /\ In(c) \notin open /\ at \in [Sock -> Place] /\ Numbers
  BY <1>1, Ends DEF Inv, DataInv, Early, Shape, EventInv
<1>3. /\ Lowest \in Fds /\ fd'[In(c)] = Lowest /\ Numbers' /\ open \subseteq open'
      /\ \A r \in Sock : r # In(c) => fd'[r] = fd[r]
  BY <1>1, <1>2, NewNumber
<1>4. at'[In(c)] = "start" /\ \A s \in Sock : s # In(c) => at'[s] = at[s]
  BY <1>1, <1>2
<1>5. \A t \in Sock :
        Waiting(t) => at'[t] = at[t] /\ fd'[Awaited(t).sock] = fd[Awaited(t).sock]
  <2> SUFFICES ASSUME NEW t \in Sock, Waiting(t)
               PROVE  at'[t] = at[t] /\ fd'[Awaited(t).sock] = fd[Awaited(t).sock]
    OBVIOUS
  <2>1. t # In(c)
    BY <1>1 DEF Waiting
  <2>2. Awaited(t).sock # In(c) /\ Awaited(t).sock \in Sock
    BY <1>1, NobodyWaits, AwaitedOf DEF Inv
  <2> QED  BY <1>3, <1>4, <2>1, <2>2
<1>6. EventInv'
  BY <1>1, <1>3, <1>5, SelStays DEF Inv
<1>7. Numbered'
  <2>1. ASSUME NEW d \in Clients
        PROVE  /\ at'[In(d)] # "new" => fd'[In(d)] \in Fds
               /\ at'[In(d)] \notin {"new", "start"} => fd'[Out(d)] \in Fds
    <3>1. In(d) \in Sock /\ Out(d) \in Sock /\ Out(d) # In(c)
      BY Ends
    <3>2. CASE In(d) = In(c)
      BY <1>3, <1>4, <3>2
    <3>3. CASE In(d) # In(c)
      BY <1>3, <1>4, <3>1, <3>3 DEF Inv, Numbered
    <3> QED  BY <3>2, <3>3
  <2> QED  BY <2>1 DEF Numbered
<1> QED  BY <1>6, <1>7

LEMMA ConnectEvents ==
  ASSUME Inv, NEW c \in Clients, Connect(c)
  PROVE  EventInv' /\ Numbered'
<1>1. /\ at[In(c)] = "start" /\ OpenSocket(Out(c)) /\ sel' = AddHandler(sel, In(c), Lowest, "write")
  BY Zenon DEF Connect, Await
<1>2. /\ In(c) \in Sock /\ Out(c) \in Sock /\ Out(c) \notin open /\ at \in [Sock -> Place]
      /\ Numbers
  BY <1>1, Ends DEF Inv, DataInv, Early, Shape, EventInv
<1>3. /\ Lowest \in Fds /\ fd'[Out(c)] = Lowest /\ Numbers' /\ open \subseteq open'
      /\ Out(c) \in open' /\ \A r \in Sock : r # Out(c) => fd'[r] = fd[r]
  BY <1>1, <1>2, NewNumber
<1>4. \/ Raises(sel, Lowest, "write") /\ at' = [at EXCEPT ![In(c)] = "failed"]
      \/ at' = [at EXCEPT ![In(c)] = "connect"]
  BY Zenon DEF Connect, Await
<1>5. /\ at'[In(c)] = "connect" \/ Raises(sel, Lowest, "write")
      /\ \A s \in Sock : s # In(c) => at'[s] = at[s]
  BY <1>2, <1>4
<1>6. at'[In(c)] = "connect" =>
        Waiting(In(c))' /\ Awaited(In(c))' = [sock |-> Out(c), mode |-> "write"]
  <2>1. In(c)[1] = c
    BY Ends
  <2> QED  BY <1>2, <2>1, AwaitedNext DEF Waiting
<1>7. \A t \in Sock : Waiting(t) => fd'[Awaited(t).sock] = fd[Awaited(t).sock]
  BY <1>1, <1>3, NobodyWaits, AwaitedOf DEF Inv
<1>8. EventInv'
  <2>1. "write" \in Mode /\ ~Waiting(In(c))
    BY <1>1 DEF Mode, Waiting
  <2> QED  BY <1>1, <1>2, <1>3, <1>5, <1>6, <1>7, <2>1, Adding DEF Inv
<1>9. Numbered'
  <2>1. ASSUME NEW d \in Clients
        PROVE  /\ at'[In(d)] # "new" => fd'[In(d)] \in Fds
               /\ at'[In(d)] \notin {"new", "start"} => fd'[Out(d)] \in Fds
    <3>1. In(d) \in Sock /\ Out(d) \in Sock /\ In(d) # Out(c) /\ In(c) # Out(c)
      BY Ends
    <3>2. CASE In(d) = In(c)
      <4>1. d = c
        BY <3>2, Ends
      <4> QED  BY <1>1, <1>2, <1>3, <3>1, <4>1 DEF Inv, Numbered
    <3>3. CASE In(d) # In(c)
      <4>1. Out(d) # Out(c)
        BY <3>3, Ends
      <4> QED  BY <1>3, <1>5, <3>1, <3>3, <4>1 DEF Inv, Numbered
    <3> QED  BY <3>2, <3>3
  <2> QED  BY <2>1 DEF Numbered
<1> QED  BY <1>8, <1>9

(***************************************************************************)
(* The theorem                                                             *)
(***************************************************************************)
LEMMA EventsInitially ==
  ASSUME Init
  PROVE  Inv
<1>1. DataInv
  BY Initially
<1>2. /\ fd = [s \in Sock |-> 0] /\ open = {} /\ at = [s \in Sock |-> "new"]
      /\ sel = [key |-> [n \in Fds |-> NoKey], epoll |-> [n \in Fds |-> {}], cancelled |-> {}]
  BY DEF Init
<1>3. sel.key = [n \in Fds |-> NoKey] /\ sel.epoll = [n \in Fds |-> {}]
  BY <1>2
<1>4. NoKey \in [Mode -> Sock \cup {None}] /\ \A m \in Mode : NoKey[m] = None
  BY DEF NoKey, Mode
<1>5. SelShape
  BY <1>2, <1>3, <1>4 DEF SelShape
<1>6. Numbers /\ Numbered
  BY <1>2, Ends DEF Numbers, Numbered
<1>7. None \notin Sock
  BY DEF None, Sock
<1>8. Keys /\ Heard /\ AllOrNone
  BY <1>3, <1>4, <1>7 DEF Keys, Heard, AllOrNone
<1> QED  BY <1>1, <1>5, <1>6, <1>8 DEF Inv, EventInv

LEMMA EventsStep ==
  ASSUME Inv, [Next]_vars
  PROVE  Inv'
<1>1. DataInv'
  BY Step DEF Inv
<1>2. EventInv' /\ Numbered'
  <2>1. CASE Select \/ UNCHANGED vars
    BY <2>1, StillEvents
  <2>2. ASSUME NEW t \in Sock, Resume(t) PROVE EventInv' /\ Numbered'
    BY <2>2, ResumeEvents
  <2>3. ASSUME NEW t \in Sock, Callback(t) PROVE EventInv' /\ Numbered'
    BY <2>3, StillEvents
  <2>4. ASSUME NEW t \in Sock, Coroutine(t) PROVE EventInv' /\ Numbered'
    BY <2>4, ReceiveEvents, SendallEvents, LeaveEvents DEF Coroutine
  <2>5. ASSUME NEW c \in Clients, Connect(c) PROVE EventInv' /\ Numbered'
    BY <2>5, ConnectEvents
  <2>6. ASSUME NEW c \in Clients, Accept(c) \/ Answer(c) \/ Verdict(c) \/ Abort(c)
        PROVE  EventInv' /\ Numbered'
    BY <2>6, AcceptEvents, AbortEvents, StillEvents
  <2>7. ASSUME NEW s \in Sock, PeerWrites(s) \/ PeerReads(s) \/ PeerEnds(s)
        PROVE  EventInv' /\ Numbered'
    BY <2>7, StillEvents
  <2> QED  BY <2>1, <2>2, <2>3, <2>4, <2>5, <2>6, <2>7, Zenon DEF Next, Loop, Environment
<1> QED  BY <1>1, <1>2 DEF Inv

LEMMA InvGivesOwnEvents ==
  ASSUME Inv
  PROVE  OwnEvents
<1>1. ASSUME NEW s \in open, NEW m \in sel.epoll[fd[s]]
      PROVE  Awaited(sel.key[fd[s]][m]) = [sock |-> s, mode |-> m]
  <2>1. fd[s] \in Fds /\ m \in Mode
    BY DEF Inv, EventInv, Numbers, SelShape
  <2>2. PICK t \in Sock : sel.key[fd[s]][m] = t /\ Awaited(t).sock \in open
    BY <2>1 DEF Inv, EventInv, Heard
  <2>3. Waiting(t) /\ fd[Awaited(t).sock] = fd[s] /\ Awaited(t).mode = m
    BY <2>1, <2>2 DEF Inv, EventInv, Keys, WaitsAt
  <2>4. Awaited(t).sock = s
    BY <2>2, <2>3 DEF Inv, EventInv, Numbers
  <2> QED  BY <2>2, <2>3, <2>4, AwaitedOf
<1> QED  BY <1>1 DEF OwnEvents

\* Closed file numbers are reused at once, callbacks of the closed sockets' tasks may
\* still be on the loop's list, and old keys stay in the selector: even so the event of
\* a socket only ever reaches a task that waits for that very socket.
THEOREM EventsReachTheirTask == Spec => []OwnEvents
<1>1. Init => Inv
  BY EventsInitially
<1>2. Inv /\ [Next]_vars => Inv'
  BY EventsStep
<1>3. Inv => OwnEvents
  BY InvGivesOwnEvents
<1> QED  BY <1>1, <1>2, <1>3, PTL DEF Spec

(***************************************************************************)
(* The loop's list of callbacks                                            *)
(***************************************************************************)
Results == {"data", "ok", "error"}

\* An item finds its task where the one who put it on the list left it.
Fits(x) ==
  /\ cur # x.task
  /\ x.run = "start" => fut[x.task] = "none" /\ at[x.task] \in {"start", "receive"}
  /\ x.run = "wake" => \/ at[x.task] = "gate" /\ verdict[x.task[1]] # "none"
                       \/ Waiting(x.task) /\ fut[x.task] \in Results
  /\ x.run = "event" => Waiting(x.task) /\ fut[x.task] = "pending"

Queue ==
  /\ ready \in Seq(Item) /\ batch \in 0 .. Len(ready)
  /\ cur \in Sock \cup {None}
  /\ verdict \in [Clients -> {"none", "good", "bad"}]

\* A task has one item at most; what the kernel reported is in this iteration's batch.
Listed ==
  /\ \A i \in 1 .. Len(ready) : \A x \in Item :
       x = ready[i] => Fits(x) /\ (x.run = "event" => i <= batch)
  /\ \A i, j \in 1 .. Len(ready) : ready[i].task = ready[j].task => i = j

FutureOf == \A t \in Sock : fut[t] # "none" <=> Waiting(t)

Running == cur # None => at[cur] \in {"start", "receive", "send", "failed", "break"}

ListInv == Queue /\ Listed /\ FutureOf /\ Running

HasItem(t) == \E i \in 1 .. Len(ready) : ready[i].task = t

\* The list loses its first k items, and gets one of X at its end, or none.
Moved(k, X) ==
  /\ ready' \in Seq(Item)
  /\ Len(ready) - k <= Len(ready')
  /\ \A i \in 1 .. Len(ready') :
       \/ i + k <= Len(ready) /\ ready'[i] = ready[i + k]
       \/ i + k = Len(ready) + 1 /\ ready'[i] \in X

LEMMA ListMoves ==
  ASSUME ready \in Seq(Item), NEW x \in Item
  PROVE  /\ ready' = ready => Moved(0, {})
         /\ ready' = Append(ready, x) => Moved(0, {x})
         /\ ready' = Tail(ready) /\ ready # <<>> => Moved(1, {})
         /\ ready' = Append(Tail(ready), x) /\ ready # <<>> => Moved(1, {x})
<1>1. Len(ready) \in Nat
  BY LenProperties
<1>2. ready' = ready => Moved(0, {})
  BY <1>1 DEF Moved
<1>3. ready' = Append(ready, x) => Moved(0, {x})
  <2>1. /\ Append(ready, x) \in Seq(Item) /\ Len(Append(ready, x)) = Len(ready) + 1
        /\ \A i \in 1 .. Len(ready) : Append(ready, x)[i] = ready[i]
        /\ Append(ready, x)[Len(ready) + 1] = x
    BY AppendProperties
  <2> DEFINE q == Append(ready, x)
  <2> HIDE DEF q
  <2>2. /\ q \in Seq(Item) /\ Len(q) = Len(ready) + 1
        /\ \A i \in 1 .. Len(ready) : q[i] = ready[i]
        /\ q[Len(ready) + 1] = x
    BY <2>1 DEF q
  <2>3. ready' = q => Moved(0, {x})
    BY <1>1, <2>2 DEF Moved
  <2> QED  BY <2>3 DEF q
<1>4. ASSUME ready # <<>>
      PROVE  /\ Tail(ready) \in Seq(Item) /\ Len(Tail(ready)) = Len(ready) - 1
             /\ \A i \in 1 .. Len(ready) - 1 : Tail(ready)[i] = ready[i + 1]
             /\ Len(ready) >= 1
  BY <1>1, <1>4, HeadTailProperties, EmptySeq
<1>5. ready' = Tail(ready) /\ ready # <<>> => Moved(1, {})
  <2> DEFINE q == Tail(ready)
  <2> HIDE DEF q
  <2>1. ASSUME ready # <<>>
        PROVE  /\ q \in Seq(Item) /\ Len(q) = Len(ready) - 1 /\ Len(ready) >= 1
               /\ \A i \in 1 .. Len(ready) - 1 : q[i] = ready[i + 1]
    BY <1>4, <2>1 DEF q
  <2>2. ready' = q /\ ready # <<>> => Moved(1, {})
    BY <1>1, <2>1 DEF Moved
  <2> QED  BY <2>2 DEF q
<1>6. ready' = Append(Tail(ready), x) /\ ready # <<>> => Moved(1, {x})
  <2> DEFINE q == Append(Tail(ready), x)
  <2>1. ASSUME ready # <<>>
        PROVE  /\ q \in Seq(Item) /\ Len(q) = Len(ready) /\ Len(ready) >= 1
               /\ \A i \in 1 .. Len(ready) - 1 : q[i] = ready[i + 1]
               /\ q[Len(ready)] = x
    <3>1. /\ Tail(ready) \in Seq(Item) /\ Len(Tail(ready)) = Len(ready) - 1
          /\ \A i \in 1 .. Len(ready) - 1 : Tail(ready)[i] = ready[i + 1]
          /\ Len(ready) >= 1
      BY <1>4, <2>1
    <3>2. /\ q \in Seq(Item) /\ Len(q) = Len(Tail(ready)) + 1
          /\ \A i \in 1 .. Len(Tail(ready)) : q[i] = Tail(ready)[i]
          /\ q[Len(Tail(ready)) + 1] = x
      BY <3>1, AppendProperties
    <3> QED  BY <1>1, <3>1, <3>2
  <2> HIDE DEF q
  <2>2. ready' = q /\ ready # <<>> => Moved(1, {x})
    BY <1>1, <2>1 DEF Moved
  <2> QED  BY <2>2 DEF q
<1> QED  BY <1>2, <1>3, <1>5, <1>6

\* The task stays where it is, and does not run.
Stays(t) ==
  /\ at'[t] = at[t] /\ fut'[t] = fut[t] /\ cur' # t
  /\ verdict[t[1]] # "none" => verdict'[t[1]] # "none"

LEMMA ListKept ==
  ASSUME ListInv, NEW k \in {0, 1}, NEW X, X \subseteq Item, Moved(k, X), k <= batch,
         batch' = batch - k,
         \A x \in X : x.run # "event" /\ Fits(x)',
         \A i \in 1 .. Len(ready) : i > k => Stays(ready[i].task),
         \A i \in 1 .. Len(ready) : i > k => \A x \in X : x.task # ready[i].task
  PROVE  ready' \in Seq(Item) /\ batch' \in 0 .. Len(ready)' /\ Listed'
<1>1. ready \in Seq(Item) /\ Len(ready) \in Nat /\ batch \in 0 .. Len(ready)
  BY LenProperties DEF ListInv, Queue
<1>2. ready' \in Seq(Item) /\ Len(ready') \in Nat /\ Len(ready)' = Len(ready')
  BY LenProperties DEF Moved
<1>3. batch' \in 0 .. Len(ready)'
  BY <1>1, <1>2 DEF Moved
<1>4. ASSUME NEW i \in 1 .. Len(ready'), NEW x \in Item, x = ready'[i]
      PROVE  Fits(x)' /\ (x.run = "event" => i <= batch')
  <2>1. CASE i + k <= Len(ready) /\ ready'[i] = ready[i + k]
    <3>1. i + k \in 1 .. Len(ready) /\ i + k > k
      BY <2>1, <1>1, <1>2
    <3>2. Fits(x) /\ (x.run = "event" => i + k <= batch) /\ Stays(x.task)
      BY <1>4, <2>1, <3>1 DEF ListInv, Listed
    <3>3. Fits(x)'
      BY <3>2 DEF Fits, Stays, Waiting
    <3> QED  BY <1>1, <3>2, <3>3
  <2>2. CASE i + k = Len(ready) + 1 /\ ready'[i] \in X
    BY <1>4, <2>2
  <2> QED  BY <2>1, <2>2 DEF Moved
<1>5. ASSUME NEW i \in 1 .. Len(ready'), NEW j \in 1 .. Len(ready'), ready'[i].task = ready'[j].task
      PROVE  i = j
  <2>1. /\ \A m \in 1 .. Len(ready) : m > k => \A x \in X : x.task # ready[m].task
        /\ \A l, m \in 1 .. Len(ready) : ready[l].task = ready[m].task => l = m
    BY DEF ListInv, Listed
  <2>2. /\ \/ i + k <= Len(ready) /\ ready'[i] = ready[i + k]
           \/ i + k = Len(ready) + 1 /\ ready'[i] \in X
        /\ \/ j + k <= Len(ready) /\ ready'[j] = ready[j + k]
           \/ j + k = Len(ready) + 1 /\ ready'[j] \in X
    BY DEF Moved
  <2>3. (i + k <= Len(ready) => i + k \in 1 .. Len(ready) /\ i + k > k)
        /\ (j + k <= Len(ready) => j + k \in 1 .. Len(ready) /\ j + k > k)
    BY <1>1, <1>2
  <2>4. CASE i + k <= Len(ready) /\ j + k <= Len(ready)
    BY <1>1, <1>2, <1>5, <2>1, <2>2, <2>3, <2>4
  <2>5. CASE ~(i + k <= Len(ready) /\ j + k <= Len(ready))
    BY <1>1, <1>2, <1>5, <2>1, <2>2, <2>3, <2>5
  <2> QED  BY <2>4, <2>5
<1>6. Listed'
  BY <1>2, <1>4, <1>5 DEF Listed
<1> QED  BY <1>2, <1>3, <1>6

LEMMA ItemOf ==
  ASSUME ListInv, NEW i \in 1 .. Len(ready)
  PROVE  /\ ready[i] \in Item /\ ready[i].task \in Sock /\ Fits(ready[i])
         /\ ready[i].run \in {"start", "event", "wake"}
         /\ at[ready[i].task] \in {"start", "receive", "gate", "connect", "recv", "sending"}
<1>1. ready[i] \in Item
  BY LenProperties, ElementOfSeq DEF ListInv, Queue
<1>2. Fits(ready[i])
  BY <1>1 DEF ListInv, Listed
<1> QED  BY <1>1, <1>2 DEF Item, Fits, Waiting

LEMMA HeadItem ==
  ASSUME ListInv, NEW t \in Sock, NEW run \in {"start", "event", "wake"}, Runs(t, run)
  PROVE  /\ ready # <<>> /\ 1 \in 1 .. Len(ready) /\ batch \in Nat /\ 1 <= batch
         /\ batch' = batch - 1
         /\ ready[1].task = t /\ ready[1].run = run
         /\ cur = None
         /\ run = "start" => fut[t] = "none" /\ at[t] \in {"start", "receive"}
         /\ run = "wake" => \/ at[t] = "gate" /\ verdict[t[1]] # "none"
                            \/ Waiting(t) /\ fut[t] \in Results
         /\ run = "event" => Waiting(t) /\ fut[t] = "pending"
         /\ \A i \in 1 .. Len(ready) : i > 1 => ready[i].task # t
<1>1. /\ batch > 0 /\ batch \in 0 .. Len(ready) /\ batch' = batch - 1 /\ cur = None
      /\ Head(ready) = [task |-> t, run |-> run] /\ ready \in Seq(Item) /\ Len(ready) \in Nat
  BY LenProperties DEF Runs, ListInv, Queue
<1>2. ready # <<>> /\ 1 \in 1 .. Len(ready) /\ batch \in Nat /\ 1 <= batch
  BY <1>1, EmptySeq
<1>3. ready[1] = [task |-> t, run |-> run]
  BY <1>1, <1>2, HeadTailProperties
<1>4. ready[1].task = t /\ ready[1].run = run
  BY <1>3
<1>5. Fits(ready[1])
  BY <1>2, ItemOf
<1>6. \A i \in 1 .. Len(ready) : i > 1 => ready[i].task # t
  BY <1>2, <1>4 DEF ListInv, Listed
<1> QED  BY <1>1, <1>2, <1>4, <1>5, <1>6 DEF Fits

LEMMA NoneIsNoSocket == None \notin Sock
BY DEF None, Sock

\* A step that takes the first item from the list, of which it may put another.
LEMMA HeadGoes ==
  ASSUME ListInv, NEW t \in Sock, NEW run \in {"start", "event", "wake"}, Runs(t, run),
         NEW x \in Item, ready' = Tail(ready) \/ (ready' = Append(Tail(ready), x) /\ Fits(x)'),
         x.run # "event", x.task = t \/ at[x.task] = "new",
         \A u \in Sock : u # t /\ at[u] # "new" => at'[u] = at[u] /\ fut'[u] = fut[u],
         verdict' = verdict, cur' \in {t, None}
  PROVE  Queue' /\ Listed'
<1>1. /\ ready # <<>> /\ 1 <= batch /\ batch' = batch - 1 /\ ready \in Seq(Item)
      /\ \A i \in 1 .. Len(ready) : i > 1 => ready[i].task # t
  BY HeadItem DEF ListInv, Queue
<1>2. \A i \in 1 .. Len(ready) : i > 1 =>
        /\ ready[i].task \in Sock /\ ready[i].task # t /\ at[ready[i].task] # "new"
        /\ ready[i].task # x.task
  BY <1>1, ItemOf
<1>3. \A i \in 1 .. Len(ready) : i > 1 => Stays(ready[i].task)
  BY <1>2, NoneIsNoSocket DEF Stays
<1>4. ready' \in Seq(Item) /\ batch' \in 0 .. Len(ready)' /\ Listed'
  <2>1. CASE ready' = Tail(ready)
    <3>1. Moved(1, {})
      BY <1>1, <2>1, ListMoves
    <3> QED  BY <1>1, <1>3, <3>1, ListKept
  <2>2. CASE ready' = Append(Tail(ready), x) /\ Fits(x)'
    <3>1. Moved(1, {x})
      BY <1>1, <2>2, ListMoves
    <3>2. \A i \in 1 .. Len(ready) : i > 1 => \A y \in {x} : y.task # ready[i].task
      BY <1>2
    <3> QED  BY <1>1, <1>3, <2>2, <3>1, <3>2, ListKept
  <2> QED  BY <2>1, <2>2
<1>5. cur' \in Sock \cup {None} /\ verdict' \in [Clients -> {"none", "good", "bad"}]
  BY DEF ListInv, Queue
<1> QED  BY <1>4, <1>5 DEF Queue

\* A step between two callbacks, or of a task that is running: it may put an item.
LEMMA ListGrows ==
  ASSUME ListInv, batch' = batch, NEW x \in Item,
         ready' = ready \/ (ready' = Append(ready, x) /\ Fits(x)'),
         x.run # "event", ready' = ready \/ ~HasItem(x.task),
         \A u \in Sock : HasItem(u) => Stays(u),
         cur' \in Sock \cup {None}, verdict' \in [Clients -> {"none", "good", "bad"}]
  PROVE  Queue' /\ Listed'
<1>1. ready \in Seq(Item) /\ batch \in Nat
  BY DEF ListInv, Queue
<1>2. \A i \in 1 .. Len(ready) : Stays(ready[i].task)
  BY ItemOf DEF HasItem
<1>3. ready' \in Seq(Item) /\ batch' \in 0 .. Len(ready)' /\ Listed'
  <2>1. CASE ready' = ready
    <3>1. Moved(0, {})
      BY <1>1, <2>1, ListMoves
    <3> QED  BY <1>1, <1>2, <3>1, ListKept
  <2>2. CASE ready' = Append(ready, x) /\ Fits(x)' /\ ~HasItem(x.task)
    <3>1. Moved(0, {x})
      BY <1>1, <2>2, ListMoves
    <3>2. \A i \in 1 .. Len(ready) : i > 0 => \A y \in {x} : y.task # ready[i].task
      BY <2>2 DEF HasItem
    <3> QED  BY <1>1, <1>2, <2>2, <3>1, <3>2, ListKept
  <2> QED  BY <2>1, <2>2
<1> QED  BY <1>3 DEF Queue

(***************************************************************************)
(* The steps of the list                                                   *)
(***************************************************************************)
LEMMA Types ==
  ASSUME Inv, ListInv
  PROVE  /\ at \in [Sock -> Place]
         /\ fut \in [Sock -> {"none", "pending", "data", "ok", "error"}]
         /\ verdict \in [Clients -> {"none", "good", "bad"}]
         /\ cur \in Sock \cup {None} /\ None \notin Sock
         /\ \A s \in Sock : s[1] \in Clients
<1>1. \A s \in Sock : s[1] \in Clients
  BY Ends
<1> QED  BY <1>1, NoneIsNoSocket DEF Inv, DataInv, Shape, ListInv, Queue

LEMMA Resumed ==
  ASSUME Inv, ListInv, NEW t \in Sock, Resume(t)
  PROVE  /\ \E run \in {"start", "wake"} : Runs(t, run)
         /\ fut' = [fut EXCEPT ![t] = "none"] /\ verdict' = verdict /\ cur' \in {t, None}
         /\ at' \in [Sock -> Place] /\ ~ Waiting(t)' /\ at'[t] # "new"
         /\ cur' = t => at'[t] \in {"start", "receive", "send", "failed", "break"}
         /\ \A u \in Sock : u # t =>
              \/ at'[u] = at[u]
              \/ at[u] = "new" /\ at'[u] = "receive" /\ u = Other(t) /\ at[t] = "gate"
         /\ at[t] \in {"start", "receive"} => at'[t] = at[t]
         /\ \E x \in Item : /\ x.run # "event" /\ (x.task = t \/ at[x.task] = "new")
                            /\ \/ ready' = Tail(ready)
                               \/ ready' = Append(Tail(ready), x) /\ Fits(x)'
                                  /\ (x.task # t => at'[x.task] = "receive")
                                  /\ (x.task = t => at'[t] = "gate")
<1>1. PICK run \in {"start", "wake"} : Runs(t, run)
  BY DEF Resume
<1>2. fut' = [fut EXCEPT ![t] = "none"] /\ verdict' = verdict
  BY DEF Resume
<1>3. /\ \/ fut[t] = "none" /\ at[t] \in {"start", "receive"}
         \/ at[t] = "gate" /\ verdict[t[1]] # "none"
         \/ Waiting(t) /\ fut[t] \in Results
      /\ cur = None
  BY <1>1, HeadItem
<1>4. fut'[t] = "none" /\ \A u \in Sock : u # t => fut'[u] = fut[u]
  BY <1>2, Types
<1> DEFINE wake == [task |-> t, run |-> "wake"]
<1>5. wake \in Item /\ wake.task = t /\ wake.run = "wake"
  BY DEF Item
<1>6. ASSUME NEW place \in {"start", "receive", "send", "failed", "break"}, GoOn(t, place)
      PROVE  /\ cur' = t /\ at' \in [Sock -> Place] /\ at'[t] = place
             /\ \A u \in Sock : u # t => at'[u] = at[u]
             /\ ready' = Tail(ready)
  BY <1>6, Types DEF GoOn, Place
<1>7. CASE at[t] = "connect" /\ fut[t] = "ok" /\ WaitVerdict(t)
  <2>1. /\ cur' = None /\ at' \in [Sock -> Place] /\ at'[t] = "gate"
        /\ \A u \in Sock : u # t => at'[u] = at[u]
    BY <1>7, Types DEF WaitVerdict, Place
  <2>2. ready' = Tail(ready) \/ (ready' = Append(Tail(ready), wake) /\ verdict[t[1]] # "none")
    BY <1>7 DEF WaitVerdict
  <2>3. ready' = Tail(ready) \/ (ready' = Append(Tail(ready), wake) /\ Fits(wake)')
    BY <1>2, <2>1, <2>2, Types DEF Fits
  <2> HIDE DEF wake
  <2> QED  BY <1>1, <1>2, <1>3, <1>5, <1>7, <2>1, <2>3, Types DEF Waiting
<1>8. CASE at[t] = "connect" /\ fut[t] # "ok" /\ GoOn(t, "failed")
  BY <1>1, <1>2, <1>5, <1>6, <1>8, Types DEF Waiting
<1>9. CASE at[t] = "gate" /\ ActOnVerdict(t)
  <2>1. PICK c \in Clients : t = In(c) /\ t[1] = c
    BY <1>9, Ends DEF Inv, DataInv, Early
  <2>2. Other(t) = Out(c) /\ Other(t) \in Sock /\ at[Other(t)] = "new" /\ Other(t) # t
        /\ t # Out(c)
    BY <1>9, <2>1, Ends, Others DEF Inv, DataInv, Early
  <2>3. CASE verdict[t[1]] = "good"
    <3> DEFINE y == [task |-> Other(t), run |-> "start"]
    <3>1. /\ cur' = t /\ at' = [at EXCEPT ![t] = "receive", ![Other(t)] = "receive"]
          /\ ready' = Append(Tail(ready), y)
      BY <1>9, <2>3 DEF ActOnVerdict
    <3>2. /\ at' \in [Sock -> Place] /\ at'[t] = "receive" /\ at'[Other(t)] = "receive"
          /\ \A u \in Sock : u # t /\ u # Other(t) => at'[u] = at[u]
      BY <2>2, <3>1, Types DEF Place
    <3>3. y \in Item /\ y.task = Other(t) /\ y.run = "start"
      BY <2>2 DEF Item
    <3>4. fut[Other(t)] = "none"
      BY <2>2 DEF ListInv, FutureOf, Waiting
    <3>5. Fits(y)'
      BY <1>4, <2>2, <3>1, <3>2, <3>3, <3>4 DEF Fits
    <3> HIDE DEF y
    <3> QED  BY <1>1, <1>2, <1>9, <2>2, <3>1, <3>2, <3>3, <3>5 DEF Waiting
  <2>4. CASE verdict[t[1]] # "good"
    <3>1. /\ cur' = t /\ at' = [at EXCEPT ![t] = "break"] /\ ready' = Tail(ready)
      BY <1>9, <2>4 DEF ActOnVerdict
    <3>2. /\ at' \in [Sock -> Place] /\ at'[t] = "break"
          /\ \A u \in Sock : u # t => at'[u] = at[u]
      BY <3>1, Types DEF Place
    <3> QED  BY <1>1, <1>2, <1>5, <1>9, <3>1, <3>2 DEF Waiting
  <2> QED  BY <2>3, <2>4
<1>10. CASE at[t] = "recv" /\ GoOn(t, IF fut[t] = "data" THEN "send" ELSE "break")
  BY <1>1, <1>2, <1>5, <1>6, <1>10, Types DEF Waiting
<1>11. CASE at[t] = "sending" /\ GoOn(t, IF fut[t] = "ok" THEN "receive" ELSE "break")
  BY <1>1, <1>2, <1>5, <1>6, <1>11, Types DEF Waiting
<1>12. CASE at[t] \notin {"connect", "gate", "recv", "sending"} /\ GoOn(t, at[t])
  <2>1. at[t] \in {"start", "receive"}
    BY <1>3, <1>12 DEF Waiting
  <2> QED  BY <1>1, <1>2, <1>5, <1>6, <1>12, <2>1, Types DEF Waiting
<1> QED  BY <1>7, <1>8, <1>9, <1>10, <1>11, <1>12 DEF Resume

LEMMA ResumeList ==
  ASSUME Inv, ListInv, NEW t \in Sock, Resume(t)
  PROVE  ListInv'
<1>1. PICK run \in {"start", "event", "wake"} : Runs(t, run)
  BY Resumed
<1>2. /\ fut'[t] = "none" /\ (\A u \in Sock : u # t => fut'[u] = fut[u])
      /\ fut' \in [Sock -> {"none", "pending", "data", "ok", "error"}]
  BY Resumed, Types
<1>3. \A u \in Sock : u # t /\ at[u] # "new" => at'[u] = at[u] /\ fut'[u] = fut[u]
  BY <1>2, Resumed
<1>4. Queue' /\ Listed'
  <2>1. PICK x \in Item : /\ x.run # "event" /\ (x.task = t \/ at[x.task] = "new")
                          /\ ready' = Tail(ready) \/ (ready' = Append(Tail(ready), x) /\ Fits(x)')
    BY Resumed
  <2>2. verdict' = verdict /\ cur' \in {t, None}
    BY Resumed
  <2> QED  BY <1>1, <1>3, <2>1, <2>2, HeadGoes
<1>5. FutureOf'
  <2> SUFFICES ASSUME NEW u \in Sock
               PROVE  fut'[u] # "none" <=> Waiting(u)'
    BY DEF FutureOf
  <2>1. CASE u = t
    BY <1>2, <2>1, Resumed
  <2>2. CASE u # t /\ at'[u] = at[u]
    BY <1>2, <2>2 DEF ListInv, FutureOf, Waiting
  <2>3. CASE u # t /\ at[u] = "new" /\ at'[u] = "receive"
    BY <1>2, <2>3 DEF ListInv, FutureOf, Waiting
  <2> QED  BY <2>1, <2>2, <2>3, Resumed
<1>6. Running'
  BY Resumed, Types DEF Running
<1> QED  BY <1>4, <1>5, <1>6 DEF ListInv

LEMMA CalledBack ==
  ASSUME Inv, ListInv, NEW t \in Sock, Callback(t)
  PROVE  /\ Runs(t, "event") /\ cur' = None
         /\ UNCHANGED <<at, sel, verdict, failed, fd, open, inherited>>
         /\ \/ fut' = fut /\ ready' = Tail(ready)
            \/ /\ \E r \in Results : fut' = [fut EXCEPT ![t] = r]
               /\ ready' = Append(Tail(ready), [task |-> t, run |-> "wake"])
<1>1. Runs(t, "event") /\ UNCHANGED <<cur, at, sel, verdict, failed, fd, open, inherited>>
  BY DEF Callback, Cancelled, ConnectCallback, RecvCallback, SendCallback, HandleRuns, sock_vars
<1>2. cur = None
  BY <1>1, HeadItem
<1>3. \/ StillPending
      \/ \E r \in Results : Done(t, r)
  <2>1. CASE Cancelled(t)
    BY <2>1 DEF Cancelled
  <2>2. CASE ConnectCallback(t)
    BY <2>2 DEF ConnectCallback, Results
  <2>3. CASE RecvCallback(t)
    BY <2>3 DEF RecvCallback, RecvOutcome, Results
  <2>4. CASE SendCallback(t)
    BY <2>4 DEF SendCallback, SendOutcome, Results
  <2> QED  BY <2>1, <2>2, <2>3, <2>4 DEF Callback
<1> QED  BY <1>1, <1>2, <1>3 DEF StillPending, Done

LEMMA CallbackList ==
  ASSUME Inv, ListInv, NEW t \in Sock, Callback(t)
  PROVE  ListInv'
<1> DEFINE x == [task |-> t, run |-> "wake"]
<1>1. x \in Item /\ x.task = t /\ x.run = "wake"
  BY DEF Item
<1>2. /\ Runs(t, "event") /\ cur' = None /\ UNCHANGED <<at, verdict>>
      /\ \/ fut' = fut /\ ready' = Tail(ready)
         \/ /\ \E r \in Results : fut' = [fut EXCEPT ![t] = r]
            /\ ready' = Append(Tail(ready), x)
  BY CalledBack
<1> HIDE DEF x
<1>3. Waiting(t) /\ Waiting(t)'
  BY <1>2, HeadItem DEF Waiting
<1>4. /\ \A u \in Sock : u # t => fut'[u] = fut[u]
      /\ fut' = fut \/ fut'[t] \in Results
  BY <1>2, Types
<1>5. fut' = fut \/ Fits(x)'
  BY <1>1, <1>2, <1>3, <1>4, Types DEF Fits
<1>6. ready' = Tail(ready) \/ (ready' = Append(Tail(ready), x) /\ Fits(x)')
  BY <1>1, <1>2, <1>3, <1>4, Types DEF Fits
<1>7. Queue' /\ Listed'
  <2>1. \A u \in Sock : u # t /\ at[u] # "new" => at'[u] = at[u] /\ fut'[u] = fut[u]
    BY <1>2, <1>4
  <2> QED  BY <1>1, <1>2, <1>6, <2>1, HeadGoes
<1>8. FutureOf'
  BY <1>2, <1>3, <1>4 DEF ListInv, FutureOf, Waiting, Results
<1>9. Running'
  BY <1>2 DEF Running
<1> QED  BY <1>7, <1>8, <1>9 DEF ListInv

\* The running task goes on, waits, or ends.
Advances(t) ==
  /\ cur = t /\ UNCHANGED <<ready, batch, verdict>>
  /\ \A u \in Sock : u # t => at'[u] = at[u] /\ fut'[u] = fut[u]
  /\ \/ cur' = t /\ fut'[t] = fut[t] /\ at'[t] \in {"receive", "send", "failed", "break"}
     \/ cur' = None /\ fut'[t] = fut[t] /\ at'[t] = "done"
     \/ cur' = None /\ fut'[t] = "pending" /\ Waiting(t)'

LEMMA AdvanceList ==
  ASSUME Inv, ListInv, NEW t \in Sock, Advances(t)
  PROVE  ListInv'
<1>1. \A u \in Sock : HasItem(u) => u # t
  BY ItemOf DEF HasItem, Fits, Advances
<1>2. \A u \in Sock : HasItem(u) => Stays(u)
  BY <1>1, Types DEF Stays, Advances
<1>3. Queue' /\ Listed'
  <2>1. [task |-> t, run |-> "wake"] \in Item
    BY DEF Item
  <2>2. cur' \in Sock \cup {None} /\ verdict' \in [Clients -> {"none", "good", "bad"}]
    BY Types DEF Advances
  <2> QED  BY <1>2, <2>1, <2>2, ListGrows DEF Advances
<1>4. ~Waiting(t) /\ fut[t] = "none"
  BY Types DEF Advances, ListInv, Running, FutureOf, Waiting
<1>5. FutureOf'
  <2> SUFFICES ASSUME NEW u \in Sock
               PROVE  fut'[u] # "none" <=> Waiting(u)'
    BY DEF FutureOf
  <2>1. CASE u = t
    BY <1>4, <2>1 DEF Advances, Waiting
  <2>2. CASE u # t
    BY <2>2 DEF Advances, Waiting, ListInv, FutureOf
  <2> QED  BY <2>1, <2>2
<1>6. Running'
  BY Types DEF Advances, Running
<1> QED  BY <1>3, <1>5, <1>6 DEF ListInv

LEMMA AwaitAdvances ==
  ASSUME Inv, ListInv, NEW t \in Sock, cur = t, UNCHANGED <<ready, batch, verdict>>,
         NEW n, NEW m, NEW place \in {"connect", "recv", "sending"},
         NEW broken \in {"failed", "break"}, Await(t, n, place, m, broken)
  PROVE  Advances(t) /\ at'[t] \in {place, broken}
         /\ (at'[t] = place <=> ~Raises(sel, n, m)) /\ (at'[t] = place => fut'[t] = "pending")
<1>1. CASE Raises(sel, n, m)
  BY <1>1, Types DEF Await, Advances
<1>2. CASE ~Raises(sel, n, m)
  BY <1>2, Types DEF Await, Advances, Suspend, Waiting
<1> QED  BY <1>1, <1>2

LEMMA CoroutineAdvances ==
  ASSUME Inv, ListInv, NEW t \in Sock, Coroutine(t)
  PROVE  Advances(t)
<1>1. ASSUME NEW place \in {"receive", "send", "break"}, cur = t,
             at' = [at EXCEPT ![t] = place], UNCHANGED <<ready, batch, verdict, cur, fut>>
      PROVE  Advances(t)
  BY <1>1, Types DEF Advances
<1>2. CASE SockRecv(t)
  <2>1. cur = t /\ UNCHANGED <<ready, batch, verdict>>
    BY <1>2 DEF SockRecv
  <2>2. \/ \E place \in {"receive", "send", "break"} :
             at' = [at EXCEPT ![t] = place] /\ UNCHANGED <<cur, fut>>
        \/ Await(t, fd[t], "recv", "read", "break")
    BY <1>2 DEF SockRecv
  <2> QED  BY <1>1, <2>1, <2>2, AwaitAdvances
<1>3. CASE SockSendall(t)
  <2>1. cur = t /\ UNCHANGED <<ready, batch, verdict>>
    BY <1>3 DEF SockSendall
  <2>2. \/ \E place \in {"receive", "send", "break"} :
             at' = [at EXCEPT ![t] = place] /\ UNCHANGED <<cur, fut>>
        \/ Await(t, fd[Other(t)], "sending", "write", "break")
    BY <1>3 DEF SockSendall
  <2> QED  BY <1>1, <2>1, <2>2, AwaitAdvances
<1>4. CASE Leave(t)
  BY <1>4, Types DEF Leave, Suspend, Advances
<1> QED  BY <1>2, <1>3, <1>4 DEF Coroutine

LEMMA ConnectAdvances ==
  ASSUME Inv, ListInv, NEW c \in Clients, Connect(c)
  PROVE  Advances(In(c)) /\ at'[In(c)] \in {"connect", "failed"}
         /\ (at'[In(c)] = "connect" <=> ~Raises(sel, Lowest, "write"))
         /\ (at'[In(c)] = "connect" => fut'[In(c)] = "pending")
<1>1. /\ cur = In(c) /\ UNCHANGED <<ready, batch, verdict>> /\ In(c) \in Sock
      /\ Await(In(c), Lowest, "connect", "write", "failed")
  BY Ends DEF Connect
<1> QED  BY <1>1, AwaitAdvances

LEMMA AcceptList ==
  ASSUME Inv, ListInv, NEW c \in Clients, Accept(c)
  PROVE  ListInv'
<1> DEFINE x == [task |-> In(c), run |-> "start"]
<1>1. x \in Item /\ x.task = In(c) /\ x.run = "start" /\ In(c) \in Sock
  BY Ends DEF Item
<1>2. /\ cur = None /\ at[In(c)] = "new" /\ at' = [at EXCEPT ![In(c)] = "start"]
      /\ ready' = Append(ready, x) /\ UNCHANGED <<batch, cur, fut, verdict>>
  BY DEF Accept
<1> HIDE DEF x
<1>3. ~HasItem(In(c))
  BY <1>2, ItemOf DEF HasItem
<1>4. at'[In(c)] = "start" /\ (\A u \in Sock : u # In(c) => at'[u] = at[u])
  BY <1>1, <1>2, Types
<1>5. fut[In(c)] = "none"
  BY <1>1, <1>2 DEF ListInv, FutureOf, Waiting
<1>6. Fits(x)'
  BY <1>1, <1>2, <1>4, <1>5, Types DEF Fits
<1>7. \A u \in Sock : HasItem(u) => Stays(u)
  BY <1>2, <1>3, <1>4, Types DEF Stays
<1>8. Queue' /\ Listed'
  <2>1. cur' \in Sock \cup {None} /\ verdict' \in [Clients -> {"none", "good", "bad"}]
    BY <1>2, Types
  <2> QED  BY <1>1, <1>2, <1>3, <1>6, <1>7, <2>1, ListGrows
<1>9. FutureOf'
  BY <1>2, <1>4, <1>5 DEF ListInv, FutureOf, Waiting
<1>10. Running'
  BY <1>2 DEF Running
<1> QED  BY <1>8, <1>9, <1>10 DEF ListInv

LEMMA DecideList ==
  ASSUME Inv, ListInv, NEW c \in Clients, NEW v \in {"good", "bad"}, Decide(c, v)
  PROVE  ListInv'
<1> DEFINE x == [task |-> In(c), run |-> "wake"]
<1>1. x \in Item /\ x.task = In(c) /\ x.run = "wake" /\ In(c) \in Sock /\ In(c)[1] = c
  BY Ends DEF Item
<1>2. /\ verdict[c] = "none" /\ verdict' = [verdict EXCEPT ![c] = v]
      /\ UNCHANGED <<batch, cur, at, fut>>
      /\ \/ ready' = ready
         \/ ready' = Append(ready, x) /\ at[In(c)] = "gate"
  BY DEF Decide, Wake
<1> HIDE DEF x
<1>3. at[In(c)] = "gate" => ~HasItem(In(c)) /\ cur # In(c)
  <2>1. ASSUME at[In(c)] = "gate", NEW i \in 1 .. Len(ready), ready[i].task = In(c) PROVE FALSE
    BY <1>1, <1>2, <2>1, ItemOf DEF Fits, Waiting
  <2>2. cur = In(c) => at[In(c)] # "gate"
    BY <1>1, Types DEF ListInv, Running
  <2> QED  BY <2>1, <2>2 DEF HasItem
<1>4. verdict'[c] = v /\ \A d \in Clients : verdict[d] # "none" => verdict'[d] # "none"
  BY <1>2, Types
<1>5. at[In(c)] = "gate" => Fits(x)'
  BY <1>1, <1>2, <1>3, <1>4 DEF Fits
<1>6. \A u \in Sock : HasItem(u) => Stays(u)
  <2>1. \A u \in Sock : HasItem(u) => cur # u
    BY ItemOf DEF HasItem, Fits
  <2> QED  BY <1>2, <1>4, <2>1, Types DEF Stays
<1>7. Queue' /\ Listed'
  <2>1. cur' \in Sock \cup {None} /\ verdict' \in [Clients -> {"none", "good", "bad"}]
    BY <1>2, Types
  <2>2. ready' = ready \/ (ready' = Append(ready, x) /\ Fits(x)')
    BY <1>2, <1>5
  <2>3. ready' = ready \/ ~HasItem(x.task)
    BY <1>1, <1>2, <1>3
  <2>4. batch' = batch /\ x.run # "event"
    BY <1>1, <1>2
  <2> QED  BY <1>1, <1>6, <2>1, <2>2, <2>3, <2>4, ListGrows
<1>8. FutureOf' /\ Running'
  BY <1>2 DEF ListInv, FutureOf, Running, Waiting
<1> QED  BY <1>7, <1>8 DEF ListInv

LEMMA QuietList ==
  ASSUME ListInv, UNCHANGED <<ready, batch, cur, verdict, at, fut>>
  PROVE  ListInv'
<1>1. Queue'
  BY DEF ListInv, Queue
<1>2. FutureOf' /\ Running'
  BY DEF ListInv, FutureOf, Running, Waiting
<1>3. \A x \in Item : Fits(x) => Fits(x)'
  BY DEF Fits, Waiting
<1>4. Listed'
  BY <1>3 DEF ListInv, Listed
<1> QED  BY <1>1, <1>2, <1>4 DEF ListInv

(***************************************************************************)
(* Select puts each reported task on the list once                         *)
(***************************************************************************)
LEMMA ReportedIs ==
  ASSUME Inv, NEW t \in Reported
  PROVE  /\ t \in Sock /\ fut[t] = "pending" /\ Waiting(t) /\ Awaited(t).sock \in open
         /\ fd[Awaited(t).sock] \in Fds /\ Awaited(t).mode \in Mode
         /\ sel.key[fd[Awaited(t).sock]][Awaited(t).mode] = t
         /\ Awaited(t).mode \in sel.epoll[fd[Awaited(t).sock]]
<1>1. /\ t \in Sock /\ fut[t] = "pending"
      /\ \E s \in open : \E m \in sel.epoll[fd[s]] : sel.key[fd[s]][m] = t
  BY DEF Reported
<1>2. PICK s \in open : \E m \in sel.epoll[fd[s]] : sel.key[fd[s]][m] = t
  BY <1>1
<1> PICK m \in sel.epoll[fd[s]] : sel.key[fd[s]][m] = t
  BY <1>2
<1>3. fd[s] \in Fds /\ m \in Mode
  BY DEF Inv, EventInv, Numbers, SelShape
<1>4. Waiting(t) /\ fd[Awaited(t).sock] = fd[s] /\ Awaited(t).mode = m
  BY <1>1, <1>2, <1>3 DEF Inv, EventInv, Keys, WaitsAt
<1>5. Awaited(t).sock \in open
  BY <1>2, <1>3 DEF Inv, EventInv, Heard
<1> QED  BY <1>1, <1>2, <1>3, <1>4, <1>5

LEMMA ReportedFinite ==
  ASSUME Inv
  PROVE  IsFiniteSet(Reported)
<1>1. IsFiniteSet(Fds \X Mode)
  <2>1. Mode = {"read"} \cup {"write"} /\ IsFiniteSet({"read"})
    BY FS_Singleton DEF Mode
  <2>2. IsFiniteSet(Mode)
    BY <2>1, FS_AddElement
  <2> QED  BY <2>2, FS_Product, RelayAssumption
<1> DEFINE f == [p \in Fds \X Mode |-> sel.key[p[1]][p[2]]]
           R == {f[p] : p \in Fds \X Mode}
<1>2. f \in Surjection(Fds \X Mode, R)
  BY DEF Surjection
<1>3. IsFiniteSet(R)
  BY <1>1, <1>2, FS_Surjection
<1>4. Reported \subseteq R
  <2> SUFFICES ASSUME NEW t \in Reported PROVE t \in R
    OBVIOUS
  <2>1. PICK n \in Fds, m \in Mode : sel.key[n][m] = t
    BY ReportedIs
  <2>2. <<n, m>> \in Fds \X Mode /\ f[<<n, m>>] = t
    BY <2>1
  <2> QED  BY <2>2
<1> QED  BY <1>3, <1>4, FS_Subset

LEMMA Selected ==
  ASSUME Inv, ListInv, Select
  PROVE  /\ batch = 0 /\ cur = None /\ UNCHANGED <<cur, at, fut, verdict, sel, fd, open, inherited>>
         /\ ready' \in Seq(Item) /\ Len(ready) <= Len(ready') /\ batch' = Len(ready')
         /\ \A i \in 1 .. Len(ready) : ready'[i] = ready[i] /\ ready[i].run # "event"
         /\ \A i \in 1 .. Len(ready') :
              i > Len(ready) => ready'[i].run = "event" /\ ready'[i].task \in Reported
         /\ \A i, j \in 1 .. Len(ready') :
              i > Len(ready) /\ j > Len(ready) /\ ready'[i].task = ready'[j].task => i = j
<1>1. /\ batch = 0 /\ cur = None /\ UNCHANGED <<cur, at, fut, verdict, sel, fd, open, inherited>>
      /\ batch' = Len(ready') /\ ready \in Seq(Item) /\ Len(ready) \in Nat
  BY LenProperties DEF Select, task_vars, sock_vars, ListInv, Queue
<1>2. \A i \in 1 .. Len(ready) : ready[i].run # "event"
  <2> SUFFICES ASSUME NEW i \in 1 .. Len(ready) PROVE ready[i].run # "event"
    OBVIOUS
  <2>1. ready[i] \in Item
    BY ItemOf
  <2>2. ready[i].run = "event" => i <= batch
    BY <2>1 DEF ListInv, Listed
  <2> QED  BY <1>1, <2>2
<1> DEFINE N == Cardinality(Reported)
           item(t) == [task |-> t, run |-> "event"]
<1>3. N \in Nat /\ IsFiniteSet(1 .. N) /\ Cardinality(1 .. N) = N
  <2>1. N \in Nat
    BY ReportedFinite, FS_CardinalityType
  <2>2. IsFiniteSet(1 .. N) /\ Cardinality(1 .. N) = IF 1 > N THEN 0 ELSE N - 1 + 1
    BY <2>1, FS_Interval
  <2> HIDE DEF N
  <2> QED  BY <2>1, <2>2
<1>4. PICK order \in [1 .. N -> Reported] :
        /\ \A t \in Reported : \E i \in DOMAIN order : order[i] = t
        /\ ready' = ready \o [i \in DOMAIN order |-> [task |-> order[i], run |-> "event"]]
  BY DEF Select
<1>5. \A i, j \in 1 .. N : order[i] = order[j] => i = j
  <2>1. order \in Surjection(1 .. N, Reported)
    BY <1>4 DEF Surjection
  <2>2. order \in Injection(1 .. N, Reported)
    BY <1>3, <2>1, FS_SurjSameCardinalityImpliesInj
  <2> QED  BY <2>2, Fun_InjectionProperties
<1> HIDE DEF N
<1> DEFINE E == [i \in 1 .. N |-> [task |-> order[i], run |-> "event"]]
<1>6. E \in Seq(Item) /\ Len(E) = N /\ \A i \in 1 .. N : E[i] = [task |-> order[i], run |-> "event"]
  <2>1. \A i \in 1 .. N : [task |-> order[i], run |-> "event"] \in Item
    BY <1>4, ReportedIs DEF Item
  <2>2. E \in [1 .. N -> Item]
    BY <2>1
  <2>3. E \in Seq(Item)
    BY <1>3, <2>2
  <2>4. Len(E) = N
    BY <1>3, <2>2, <2>3
  <2> QED  BY <2>3, <2>4
<1>7. ready' = ready \o E
  BY <1>4
<1> HIDE DEF E
<1>8. /\ ready' \in Seq(Item) /\ Len(ready') = Len(ready) + N
      /\ \A i \in 1 .. Len(ready) + N :
           ready'[i] = IF i <= Len(ready) THEN ready[i] ELSE E[i - Len(ready)]
  BY <1>1, <1>6, <1>7, ConcatProperties
<1>9. ASSUME NEW i \in 1 .. Len(ready'), i > Len(ready)
      PROVE  /\ i - Len(ready) \in 1 .. N /\ ready'[i].run = "event"
             /\ ready'[i].task = order[i - Len(ready)] /\ ready'[i].task \in Reported
  <2>1. i - Len(ready) \in 1 .. N
    BY <1>1, <1>3, <1>8, <1>9
  <2>2. ready'[i] = E[i - Len(ready)]
    BY <1>1, <1>8, <1>9, <2>1
  <2> QED  BY <1>4, <1>6, <2>1, <2>2
<1>10. \A i \in 1 .. Len(ready) : ready'[i] = ready[i]
  BY <1>1, <1>3, <1>8
<1>11. \A i, j \in 1 .. Len(ready') :
         i > Len(ready) /\ j > Len(ready) /\ ready'[i].task = ready'[j].task => i = j
  <2> SUFFICES ASSUME NEW i \in 1 .. Len(ready'), NEW j \in 1 .. Len(ready'),
                      i > Len(ready), j > Len(ready), ready'[i].task = ready'[j].task
               PROVE  i = j
    BY Zenon
  <2>1. i - Len(ready) = j - Len(ready)
    BY <1>5, <1>9
  <2> QED  BY <1>1, <1>3, <1>8, <2>1
<1> QED  BY <1>1, <1>2, <1>3, <1>8, <1>9, <1>10, <1>11

LEMMA SelectList ==
  ASSUME Inv, ListInv, Select
  PROVE  ListInv'
<1>1. /\ UNCHANGED <<cur, at, fut, verdict>> /\ cur = None
      /\ ready' \in Seq(Item) /\ Len(ready) <= Len(ready') /\ batch' = Len(ready')
      /\ Len(ready) \in Nat /\ Len(ready') \in Nat /\ Len(ready)' = Len(ready')
  BY Selected, LenProperties DEF ListInv, Queue
<1>2. Queue' /\ FutureOf' /\ Running'
  BY <1>1 DEF ListInv, Queue, FutureOf, Running, Waiting
<1>3. \A x \in Item : Fits(x) => Fits(x)'
  BY <1>1 DEF Fits, Waiting
<1>4. ASSUME NEW i \in 1 .. Len(ready'), NEW x \in Item, x = ready'[i]
      PROVE  Fits(x)' /\ (x.run = "event" => i <= batch')
  <2>1. CASE i <= Len(ready)
    <3>1. i \in 1 .. Len(ready) /\ x = ready[i]
      BY <1>1, <1>4, <2>1, Selected
    <3> QED  BY <1>1, <1>3, <3>1, ItemOf
  <2>2. CASE i > Len(ready)
    <3>1. x.run = "event" /\ x.task \in Reported
      BY <1>4, <2>2, Selected
    <3>2. fut[x.task] = "pending" /\ Waiting(x.task) /\ x.task \in Sock
      BY <3>1, ReportedIs
    <3> QED  BY <1>1, <1>3, <3>1, <3>2, NoneIsNoSocket DEF Fits
  <2> QED  BY <1>1, <2>1, <2>2
<1>5. \A i \in 1 .. Len(ready) : ready[i].task \notin Reported
  <2> SUFFICES ASSUME NEW i \in 1 .. Len(ready), ready[i].task \in Reported PROVE FALSE
    OBVIOUS
  <2>1. Waiting(ready[i].task) /\ fut[ready[i].task] = "pending"
    BY ReportedIs
  <2>2. ready[i].run # "event"
    BY Selected
  <2> QED  BY <2>1, <2>2, ItemOf DEF Fits, Results, Waiting
<1>6. ASSUME NEW i \in 1 .. Len(ready'), NEW j \in 1 .. Len(ready'), ready'[i].task = ready'[j].task
      PROVE  i = j
  <2>1. CASE i <= Len(ready) /\ j <= Len(ready)
    <3>1. /\ i \in 1 .. Len(ready) /\ j \in 1 .. Len(ready)
          /\ ready'[i] = ready[i] /\ ready'[j] = ready[j]
      BY <1>1, <2>1, Selected
    <3> QED  BY <1>6, <3>1 DEF ListInv, Listed
  <2>2. CASE i > Len(ready) /\ j > Len(ready)
    BY <1>6, <2>2, Selected
  <2>3. CASE i <= Len(ready) /\ j > Len(ready)
    <3>1. i \in 1 .. Len(ready) /\ ready'[i] = ready[i] /\ ready'[j].task \in Reported
      BY <1>1, <2>3, Selected
    <3> QED  BY <1>5, <1>6, <3>1
  <2>4. CASE i > Len(ready) /\ j <= Len(ready)
    <3>1. j \in 1 .. Len(ready) /\ ready'[j] = ready[j] /\ ready'[i].task \in Reported
      BY <1>1, <2>4, Selected
    <3> QED  BY <1>5, <1>6, <3>1
  <2> QED  BY <1>1, <2>1, <2>2, <2>3, <2>4
<1>7. Listed'
  BY <1>1, <1>4, <1>6 DEF Listed
<1> QED  BY <1>2, <1>7 DEF ListInv

LEMMA ListInitially ==
  ASSUME Init
  PROVE  ListInv
<1>1. /\ ready = <<>> /\ batch = 0 /\ cur = None
      /\ at = [s \in Sock |-> "new"] /\ fut = [s \in Sock |-> "none"]
      /\ verdict = [c \in Clients |-> "none"]
  BY DEF Init
<1>2. ready \in Seq(Item) /\ Len(ready) = 0
  BY <1>1, EmptySeq
<1> QED  BY <1>1, <1>2 DEF ListInv, Queue, Listed, FutureOf, Running, Waiting

LEMMA ListStep ==
  ASSUME Inv, ListInv, [Next]_vars
  PROVE  ListInv'
<1>1. ASSUME UNCHANGED <<ready, batch, cur, verdict, at, fut>> PROVE ListInv'
  BY <1>1, QuietList
<1>2. CASE UNCHANGED vars
  BY <1>1, <1>2 DEF vars, loop_vars, task_vars
<1>3. CASE Select
  BY <1>3, SelectList
<1>4. ASSUME NEW t \in Sock, Resume(t) \/ Callback(t) \/ Coroutine(t) PROVE ListInv'
  BY <1>4, ResumeList, CallbackList, CoroutineAdvances, AdvanceList
<1>5. ASSUME NEW c \in Clients, Connect(c) PROVE ListInv'
  BY <1>5, ConnectAdvances, AdvanceList, Ends
<1>6. ASSUME NEW c \in Clients, Accept(c) PROVE ListInv'
  BY <1>6, AcceptList
<1>7. ASSUME NEW c \in Clients, Verdict(c) \/ Abort(c) PROVE ListInv'
  BY <1>7, DecideList DEF Verdict, Abort
<1>8. ASSUME NEW c \in Clients, Answer(c) PROVE ListInv'
  BY <1>1, <1>8 DEF Answer, loop_vars, task_vars
<1>9. ASSUME NEW s \in Sock, PeerWrites(s) \/ PeerReads(s) \/ PeerEnds(s) PROVE ListInv'
  BY <1>1, <1>9 DEF PeerWrites, PeerReads, PeerEnds, loop_vars, task_vars
<1> QED  BY <1>2, <1>3, <1>4, <1>5, <1>6, <1>7, <1>8, <1>9, Zenon DEF Next, Loop, Environment

(***************************************************************************)
(* Who is registered                                                       *)
(***************************************************************************)
Awaits(t, s, m) ==
  \/ at[t] = "connect" /\ s = Out(t[1]) /\ m = "write"
  \/ at[t] = "recv" /\ s = t /\ m = "read"
  \/ at[t] = "sending" /\ s = Other(t) /\ m = "write"

\* Old keys for which the kernel reports nothing: one at most of a number ...
One ==
  \A n \in Fds : sel.epoll[n] = {} =>
    \A m, k \in Mode : sel.key[n][m] # None /\ sel.key[n][k] # None => m = k

\* ... and none of the number of an open socket, unless its client inherited it.
Own ==
  \A c \in Clients : \A s \in {In(c), Out(c)} :
    s \in open /\ c \notin inherited /\ sel.epoll[fd[s]] = {} =>
      \A m \in Mode : sel.key[fd[s]][m] = None

\* Who waits for an open socket has its key, unless its client inherited the number.
Known ==
  \A c \in Clients : \A t \in {In(c), Out(c)} : \A s \in Sock : \A m \in Mode :
    Awaits(t, s, m) /\ fut[t] = "pending" /\ s \in open /\ c \notin inherited =>
      sel.key[fd[s]][m] = t

\* A task that will take its handle out of the selector finds it there, unless it was
\* cancelled, or its socket is closed and a new one's failed registration wiped the key.
Held ==
  \A u, r \in Sock : \A m \in Mode : HasItem(u) /\ Awaits(u, r, m) =>
    \/ u \in sel.cancelled
    \/ sel.key[fd[r]][m] = u /\ (r \in open => m \in sel.epoll[fd[r]])
    \/ r \notin open /\ m = "read"

\* Before a task whose socket was closed has run, the next socket with its number gets
\* no further than the connect.
Fresh(c, i) ==
  /\ at[In(c)] \in {"start", "connect", "failed"} /\ at[Out(c)] = "new"
  /\ at[In(c)] = "connect" =>
       /\ fut[In(c)] = "pending"
       /\ \A j \in 1 .. Len(ready) :
            ready[j].task = In(c) => i < j /\ ready[i].run = "wake"

Young ==
  \A i \in 1 .. Len(ready) : \A u, r \in Sock : \A m \in Mode :
    ready[i].task = u /\ Awaits(u, r, m) /\ r \notin open =>
      \A c \in Clients : \A s \in {In(c), Out(c)} :
        s \in open /\ fd[s] = fd[r] => Fresh(c, i)

TurnInv == One /\ Own /\ Known /\ Held /\ Young

LEMMA AwaitsIs ==
  ASSUME NEW t \in Sock, NEW s, NEW m
  PROVE  /\ Awaits(t, s, m) <=> Waiting(t) /\ Awaited(t) = [sock |-> s, mode |-> m]
         /\ Awaits(t, s, m) => s \in Sock /\ m \in Mode
<1>1. Out(t[1]) \in Sock /\ Other(t) \in Sock
  BY Ends, Others
<1> QED  BY <1>1, AwaitedIs DEF Awaits, Waiting, Mode

LEMMA WaiterIs ==
  ASSUME Inv, NEW t \in Sock, NEW s, NEW m, Awaits(t, s, m)
  PROVE  t = IF m = "read" THEN s ELSE Other(s)
<1>1. CASE at[t] = "connect"
  <2>1. PICK c \in Clients : (t = In(c) \/ t = Out(c)) /\ t[1] = c
    BY Ends
  <2>2. t = In(c) /\ s = Out(c) /\ m = "write"
    BY <1>1, <2>1 DEF Awaits, Inv, DataInv, Early
  <2> QED  BY <2>2, Ends
<1>2. CASE at[t] = "recv"
  BY <1>2 DEF Awaits
<1>3. CASE at[t] = "sending"
  BY <1>3, Others DEF Awaits
<1> QED  BY <1>1, <1>2, <1>3 DEF Awaits

\* At most one task waits for a socket to become readable, and one for room in it.
LEMMA OneWaiter ==
  ASSUME Inv, NEW t \in Sock, NEW u \in Sock, NEW s, NEW m, Awaits(t, s, m), Awaits(u, s, m)
  PROVE  t = u
BY WaiterIs

\* Both waiters of a socket are tasks of its client.
LEMMA SameClient ==
  ASSUME Inv, NEW c \in Clients, NEW t \in Sock, NEW s, NEW m, Awaits(t, s, m)
  PROVE  s \in {In(c), Out(c)} <=> t \in {In(c), Out(c)}
<1>1. PICK d \in Clients : (t = In(d) \/ t = Out(d)) /\ t[1] = d
  BY Ends
<1>2. Other(t) \in {In(d), Out(d)}
  BY <1>1, Ends
<1>3. s \in {In(d), Out(d)}
  BY <1>1, <1>2 DEF Awaits
<1> QED  BY <1>1, <1>3, Ends

LEMMA KeyIs ==
  ASSUME Inv, NEW n \in Fds, NEW m \in Mode, sel.key[n][m] # None
  PROVE  /\ sel.key[n][m] \in Sock /\ sel.key[n][m] \notin sel.cancelled
         /\ \E s \in Sock : Awaits(sel.key[n][m], s, m) /\ fd[s] = n
                            /\ (m \in sel.epoll[n] => s \in open)
<1>1. sel.key[n][m] \in Sock
  BY DEF Inv, EventInv, SelShape
<1> DEFINE t == sel.key[n][m]
<1>2. t \notin sel.cancelled /\ Waiting(t) /\ fd[Awaited(t).sock] = n /\ Awaited(t).mode = m
  BY <1>1 DEF Inv, EventInv, Keys, WaitsAt
<1>3. Awaits(t, Awaited(t).sock, m) /\ Awaited(t).sock \in Sock
  BY <1>1, <1>2, AwaitsIs, AwaitedOf
<1>4. m \in sel.epoll[n] => Awaited(t).sock \in open
  BY <1>1 DEF Inv, EventInv, Heard
<1> QED  BY <1>1, <1>2, <1>3, <1>4

(***************************************************************************)
(* What the selector's operations do to a key                              *)
(***************************************************************************)
LEMMA RemoveEffect ==
  ASSUME Inv, One, NEW t \in Sock, NEW n \in Fds, NEW m \in Mode,
         sel' = RemoveHandler(sel, t, n, m)
  PROVE  \/ sel' = sel
         \/ /\ t \notin sel.cancelled /\ sel.key[n][m] \in Sock
            /\ sel'.cancelled = sel.cancelled \cup {sel.key[n][m]}
            /\ sel'.key[n][m] = None
            /\ \A k \in Fds : \A e \in Mode : k # n \/ e # m => sel'.key[k][e] = sel.key[k][e]
            /\ \A k \in Fds : k # n => sel'.epoll[k] = sel.epoll[k]
            /\ \A e \in Mode : e \in sel'.epoll[n] <=> e # m /\ sel.key[n][e] # None
<1> DEFINE rest == modes(sel, n) \ {m}
<1>1. SelShape
  BY DEF Inv, EventInv
<1>2. CASE t \in sel.cancelled \/ m \notin modes(sel, n)
  BY <1>2 DEF RemoveHandler
<1>3. CASE ~(t \in sel.cancelled \/ m \notin modes(sel, n))
  <2>1. ~(rest # {} /\ sel.epoll[n] = {})
    BY <1>3 DEF One, modes
  <2>2. sel' = [key |-> [sel.key EXCEPT ![n][m] = None],
                epoll |-> [sel.epoll EXCEPT ![n] = rest],
                cancelled |-> sel.cancelled \cup {sel.key[n][m]}]
    BY <1>3, <2>1, Zenon DEF RemoveHandler
  <2>3. \A e \in Mode : e \in rest <=> e # m /\ sel.key[n][e] # None
    BY DEF modes
  <2>4. sel.key[n][m] \in Sock
    BY <1>1, <1>3 DEF SelShape, modes
  <2> HIDE DEF rest
  <2>5. /\ sel'.key = [sel.key EXCEPT ![n][m] = None]
        /\ sel'.epoll = [sel.epoll EXCEPT ![n] = rest]
        /\ sel'.cancelled = sel.cancelled \cup {sel.key[n][m]}
    BY <2>2
  <2> QED  BY <1>1, <1>3, <2>3, <2>4, <2>5 DEF SelShape
<1> QED  BY <1>2, <1>3

LEMMA AddEffect ==
  ASSUME Inv, NEW t \in Sock, NEW n \in Fds, NEW m \in Mode,
         sel' = AddHandler(sel, t, n, m)
  PROVE  /\ \A k \in Fds : k # n => sel'.key[k] = sel.key[k] /\ sel'.epoll[k] = sel.epoll[k]
         /\ \A u \in Sock : u # t /\ u \in sel.cancelled => u \in sel'.cancelled
         /\ Raises(sel, n, m) =>
              /\ \A e \in Mode : sel'.key[n][e] = None
              /\ sel.epoll[n] = {} /\ sel'.epoll[n] = {}
              /\ sel.key[n][m] = None /\ \E e \in Mode : sel.key[n][e] # None
         /\ ~Raises(sel, n, m) =>
              /\ sel'.key[n][m] = t
              /\ \A e \in Mode : e # m => sel'.key[n][e] = sel.key[n][e]
              /\ sel.key[n][m] # None => sel'.epoll[n] = sel.epoll[n]
              /\ sel.key[n][m] = None =>
                   \A e \in Mode : e \in sel'.epoll[n] <=> e = m \/ sel.key[n][e] # None
              /\ \A u \in Sock : u # t /\ u = sel.key[n][m] => u \in sel'.cancelled
<1>1. SelShape
  BY DEF Inv, EventInv
<1>2. CASE Raises(sel, n, m)
  <2>1. sel' = [sel EXCEPT !.key[n] = NoKey]
    BY <1>2 DEF AddHandler
  <2>2. /\ sel'.key = [sel.key EXCEPT ![n] = NoKey] /\ sel'.epoll = sel.epoll
        /\ sel'.cancelled = sel.cancelled
    BY <1>1, <2>1 DEF SelShape
  <2>3. /\ \A k \in Fds : k # n => sel'.key[k] = sel.key[k]
        /\ \A e \in Mode : sel'.key[n][e] = None
    BY <1>1, <2>2 DEF SelShape, NoKey, Mode
  <2> QED  BY <1>2, <2>2, <2>3 DEF Raises, modes
<1>3. CASE ~Raises(sel, n, m)
  <2>1. sel' = [key |-> [sel.key EXCEPT ![n][m] = t],
                epoll |-> IF m \in modes(sel, n) THEN sel.epoll
                          ELSE [sel.epoll EXCEPT ![n] = modes(sel, n) \cup {m}],
                cancelled |-> (sel.cancelled \cup ({sel.key[n][m]} \ {None})) \ {t}]
    BY <1>3, Zenon DEF AddHandler
  <2> DEFINE told == modes(sel, n) \cup {m}
  <2>2. /\ sel'.key = [sel.key EXCEPT ![n][m] = t]
        /\ sel'.cancelled = (sel.cancelled \cup ({sel.key[n][m]} \ {None})) \ {t}
        /\ sel'.epoll = IF sel.key[n][m] # None THEN sel.epoll
                        ELSE [sel.epoll EXCEPT ![n] = told]
    BY <2>1 DEF modes
  <2>3. \A e \in Mode : e \in told <=> e = m \/ sel.key[n][e] # None
    BY DEF modes
  <2> HIDE DEF told
  <2> QED  BY <1>1, <1>3, <2>2, <2>3, NoneIsNoSocket DEF SelShape
<1> QED  BY <1>2, <1>3

LEMMA DropEffect ==
  ASSUME Inv, NEW c \in Clients, sel' = Dropped(sel, c)
  PROVE  /\ sel'.key = sel.key /\ sel'.cancelled = sel.cancelled
         /\ \A n \in Fds : sel'.epoll[n] = IF \E s \in {In(c), Out(c)} : s \in open /\ fd[s] = n
                                           THEN {} ELSE sel.epoll[n]
BY DEF Inv, EventInv, SelShape, Dropped

(***************************************************************************)
(* The steps of the selector                                               *)
(***************************************************************************)
\* What is on the list after a step was there before, or is in X.
LEMMA WasItem ==
  ASSUME ListInv, NEW k \in {0, 1}, NEW X, Moved(k, X), NEW i \in 1 .. Len(ready'),
         ready'[i] \notin X
  PROVE  i + k \in 1 .. Len(ready) /\ ready'[i] = ready[i + k]
<1>1. Len(ready) \in Nat /\ Len(ready') \in Nat
  BY LenProperties DEF ListInv, Queue, Moved
<1> QED  BY <1>1 DEF Moved

LEMMA AwaitsKept ==
  ASSUME NEW t \in Sock, at'[t] = at[t], NEW s, NEW m
  PROVE  Awaits(t, s, m)' <=> Awaits(t, s, m)
BY DEF Awaits

LEMMA AwaitsWaits ==
  ASSUME NEW t \in Sock, NEW s, NEW m
  PROVE  (Awaits(t, s, m) => Waiting(t)) /\ (Awaits(t, s, m)' => Waiting(t)')
BY DEF Awaits, Waiting

TurnAll == Inv /\ ListInv /\ TurnInv

LEMMA OpenNumber ==
  ASSUME Inv
  PROVE  /\ open \subseteq Sock /\ \A s \in open : fd[s] \in Fds
         /\ \A r, s \in open : fd[r] = fd[s] => r = s
BY DEF Inv, DataInv, Shape, EventInv, Numbers

LEMMA WaitedIn ==
  ASSUME Inv, NEW t \in Sock, NEW s, NEW m, Awaits(t, s, m)
  PROVE  fd[s] \in Fds /\ s \in Sock /\ m \in Mode
<1>1. Waiting(t) /\ Awaited(t) = [sock |-> s, mode |-> m] /\ s \in Sock /\ m \in Mode
  BY AwaitsIs
<1> QED  BY <1>1, WaitedNumber

LEMMA ResumeTurn ==
  ASSUME TurnAll, NEW t \in Sock, Resume(t)
  PROVE  TurnInv'
<1>1. Inv /\ ListInv /\ One /\ Own /\ Known /\ Held /\ Young
  BY DEF TurnAll, TurnInv
<1>2. UNCHANGED <<fd, open, inherited>>
  BY DEF Resume, sock_vars
<1>3. /\ 1 \in 1 .. Len(ready) /\ ready[1].task = t
      /\ \A i \in 1 .. Len(ready) : i > 1 => ready[i].task # t
      /\ ready # <<>> /\ ready \in Seq(Item) /\ Len(ready) \in Nat
      /\ at[t] \notin {"new", "failed"}
  <2>1. PICK run \in {"start", "event", "wake"} : Runs(t, run)
    BY <1>1, Resumed
  <2>2. /\ 1 \in 1 .. Len(ready) /\ ready[1].task = t /\ ready # <<>>
        /\ \A i \in 1 .. Len(ready) : i > 1 => ready[i].task # t
    BY <1>1, <2>1, HeadItem
  <2>3. at[t] \notin {"new", "failed"}
    BY <1>1, <2>2, ItemOf
  <2> QED  BY <1>1, <2>2, <2>3, LenProperties DEF ListInv, Queue
<1>4. /\ fut'[t] = "none" /\ (\A u \in Sock : u # t => fut'[u] = fut[u])
      /\ ~ Waiting(t)'
      /\ \A u \in Sock : u # t =>
           \/ at'[u] = at[u]
           \/ at[u] = "new" /\ at'[u] = "receive" /\ u = Other(t) /\ at[t] = "gate"
      /\ at[t] \in {"start", "receive"} => at'[t] = at[t]
  BY <1>1, Resumed, Types
<1>5. PICK X \in SUBSET Item : Moved(1, X) /\ \A x \in X : x.task \in Sock /\ ~ Waiting(x.task)'
  <2>1. PICK x \in Item : \/ ready' = Tail(ready)
                          \/ ready' = Append(Tail(ready), x)
                             /\ (x.task # t => at'[x.task] = "receive")
                             /\ (x.task = t => at'[t] = "gate")
    BY <1>1, Resumed
  <2>2. x.task \in Sock
    BY DEF Item
  <2>3. CASE ready' = Tail(ready)
    <3>1. Moved(1, {})
      BY <1>3, <2>3, ListMoves
    <3> QED  BY <3>1
  <2>4. CASE ready' = Append(Tail(ready), x) /\ (x.task # t => at'[x.task] = "receive")
             /\ (x.task = t => at'[t] = "gate")
    <3>1. Moved(1, {x})
      BY <1>3, <2>4, ListMoves
    <3>2. ~ Waiting(x.task)'
      BY <2>4 DEF Waiting
    <3> QED  BY <2>2, <3>1, <3>2
  <2> QED  BY <2>1, <2>3, <2>4
<1>6. ASSUME NEW u \in Sock, Waiting(u)'
      PROVE  u # t /\ at'[u] = at[u] /\ fut'[u] = fut[u]
  BY <1>4, <1>6 DEF Waiting
<1>7. ASSUME NEW i \in 1 .. Len(ready'), NEW u \in Sock, ready'[i].task = u, Waiting(u)'
      PROVE  i + 1 \in 1 .. Len(ready) /\ ready'[i] = ready[i + 1]
  <2>1. ready'[i] \notin X
    BY <1>5, <1>7
  <2> QED  BY <1>1, <1>5, <2>1, WasItem
<1>8. ASSUME NEW u \in Sock, NEW s, NEW m, Awaits(u, s, m)'
      PROVE  u # t /\ Awaits(u, s, m) /\ fut'[u] = fut[u] /\ s \in Sock /\ fd[s] \in Fds
             /\ m \in Mode
  BY <1>1, <1>6, <1>8, AwaitsKept, AwaitsWaits, WaitedIn
<1>9. Young'
  <2> SUFFICES ASSUME NEW i \in 1 .. Len(ready'), NEW u \in Sock, NEW r \in Sock, NEW m \in Mode,
                      ready'[i].task = u, Awaits(u, r, m)', r \notin open',
                      NEW c \in Clients, NEW s \in {In(c), Out(c)}, s \in open', fd'[s] = fd'[r]
               PROVE  Fresh(c, i)'
    BY DEF Young
  <2>1. /\ i + 1 \in 1 .. Len(ready) /\ ready'[i] = ready[i + 1] /\ Awaits(u, r, m)
    BY <1>7, <1>8, AwaitsWaits
  <2>2. Fresh(c, i + 1)
    BY <1>1, <1>2, <2>1 DEF Young
  <2>3. In(c) \in Sock /\ Out(c) \in Sock /\ Other(Out(c)) = In(c) /\ In(c) # Out(c)
    BY Ends
  <2>4. at[In(c)] = "connect" => In(c) # t
    BY <1>3, <2>1, <2>2 DEF Fresh
  <2>5. at'[In(c)] = at[In(c)]
    BY <1>3, <1>4, <2>2, <2>3, <2>4 DEF Fresh
  <2>6. at'[Out(c)] = "new"
    <3>1. Out(c) # t /\ at[Out(c)] = "new"
      BY <1>3, <2>2 DEF Fresh
    <3>2. Out(c) = Other(t) => t = In(c)
      BY <2>3, Others
    <3> QED  BY <1>4, <2>2, <2>3, <3>1, <3>2 DEF Fresh
  <2>7. ASSUME at[In(c)] = "connect"
        PROVE  /\ fut'[In(c)] = "pending"
               /\ \A j \in 1 .. Len(ready') :
                    ready'[j].task = In(c) => i < j /\ ready'[i].run = "wake"
    <3>1. Waiting(In(c))'
      BY <2>5, <2>7 DEF Waiting
    <3>2. fut'[In(c)] = "pending"
      BY <1>4, <2>2, <2>3, <2>4, <2>7 DEF Fresh
    <3>3. ASSUME NEW j \in 1 .. Len(ready'), ready'[j].task = In(c)
          PROVE  i < j /\ ready'[i].run = "wake"
      <4>1. j + 1 \in 1 .. Len(ready) /\ ready'[j] = ready[j + 1]
        BY <1>7, <2>3, <3>1, <3>3
      <4>2. i + 1 < j + 1 /\ ready[i + 1].run = "wake"
        BY <2>2, <2>7, <3>3, <4>1 DEF Fresh
      <4> QED  BY <2>1, <4>1, <4>2
    <3> QED  BY <3>2, <3>3
  <2> QED  BY <2>2, <2>5, <2>6, <2>7 DEF Fresh
<1>10. ASSUME NEW u \in Sock, HasItem(u)', Waiting(u)' PROVE HasItem(u)
  <2>1. PICK i \in 1 .. Len(ready') : ready'[i].task = u
    BY <1>10 DEF HasItem
  <2>2. i + 1 \in 1 .. Len(ready) /\ ready'[i] = ready[i + 1]
    BY <1>7, <1>10, <2>1
  <2> QED  BY <2>1, <2>2 DEF HasItem
<1>11. CASE sel' = sel
  <2>1. One' /\ Own'
    BY <1>1, <1>2, <1>11 DEF One, Own
  <2>2. Known'
    BY <1>1, <1>2, <1>8, <1>11, Ends DEF Known
  <2>3. Held'
    BY <1>1, <1>2, <1>8, <1>10, <1>11, AwaitsWaits DEF Held
  <2> QED  BY <1>9, <2>1, <2>2, <2>3 DEF TurnInv
<1>12. CASE sel' # sel
  <2>1. Waiting(t) /\ sel' = RemoveHandler(sel, t, fd[Awaited(t).sock], Awaited(t).mode)
    BY <1>12 DEF Resume, Waiting
  <2>2. PICK r \in Sock, m \in Mode : Awaited(t) = [sock |-> r, mode |-> m]
    BY <2>1, AwaitedOf
  <2> DEFINE n == fd[r]
  <2>3. Awaits(t, r, m) /\ n \in Fds /\ sel' = RemoveHandler(sel, t, n, m)
    BY <1>1, <2>1, <2>2, AwaitsIs, WaitedIn
  <2>4. /\ t \notin sel.cancelled /\ sel.key[n][m] \in Sock
        /\ sel'.cancelled = sel.cancelled \cup {sel.key[n][m]}
        /\ sel'.key[n][m] = None
        /\ \A k \in Fds : \A e \in Mode : k # n \/ e # m => sel'.key[k][e] = sel.key[k][e]
        /\ \A k \in Fds : k # n => sel'.epoll[k] = sel.epoll[k]
        /\ \A e \in Mode : e \in sel'.epoll[n] <=> e # m /\ sel.key[n][e] # None
    BY <1>1, <1>12, <2>3, RemoveEffect
  <2>5. sel.key[n][m] = t \/ (r \notin open /\ m = "read")
    BY <1>1, <1>3, <2>3, <2>4 DEF Held, HasItem
  <2>6. sel.key[n][m] # t =>
          \A c \in Clients : \A s \in {In(c), Out(c)} :
            s \in open /\ fd[s] = n => Fresh(c, 1)
    BY <1>1, <1>3, <2>3, <2>5 DEF Young
  <2> HIDE DEF n
  <2>7. One'
    BY <1>1, <2>3, <2>4 DEF One
  <2>8. Own'
    <3> SUFFICES ASSUME NEW c \in Clients, NEW s \in {In(c), Out(c)}, s \in open,
                c \notin inherited,
                        sel'.epoll[fd[s]] = {}, NEW e \in Mode
                 PROVE  sel'.key[fd[s]][e] = None
      BY <1>2 DEF Own
    <3>1. fd[s] \in Fds
      BY <1>1, OpenNumber
    <3> QED  BY <1>1, <2>4, <3>1 DEF Own
  <2>9. Known'
    <3> SUFFICES ASSUME NEW c \in Clients, NEW u \in {In(c), Out(c)}, NEW s \in Sock,
                NEW e \in Mode,
                        Awaits(u, s, e)', fut'[u] = "pending", s \in open, c \notin inherited
                 PROVE  sel'.key[fd[s]][e] = u
      BY <1>2 DEF Known
    <3>1. u \in Sock /\ u # t /\ Awaits(u, s, e) /\ fut[u] = "pending" /\ fd[s] \in Fds
      BY <1>8, Ends
    <3>2. sel.key[fd[s]][e] = u
      BY <1>1, <3>1 DEF Known
    <3>3. CASE fd[s] # n \/ e # m
      BY <2>4, <3>1, <3>2, <3>3
    <3>4. CASE fd[s] = n /\ e = m
      <4>1. m = "read" /\ sel.key[n][m] # t /\ s \in {In(c), Out(c)}
        BY <1>1, <2>5, <3>1, <3>2, <3>4, SameClient
      <4>2. Fresh(c, 1)
        BY <2>6, <3>4, <4>1
      <4>3. at[u] = "recv"
        BY <3>1, <3>4, <4>1 DEF Awaits
      <4> QED  BY <4>2, <4>3 DEF Fresh
    <3> QED  BY <3>3, <3>4
  <2>10. Held'
    <3> SUFFICES ASSUME NEW u \in Sock, NEW q \in Sock, NEW e \in Mode, HasItem(u)', Awaits(u, q,
                e)'
                 PROVE  \/ u \in sel'.cancelled
                        \/ sel'.key[fd[q]][e] = u /\ (q \in open => e \in sel'.epoll[fd[q]])
                        \/ q \notin open /\ e = "read"
      BY <1>2 DEF Held
    <3>1. HasItem(u) /\ Awaits(u, q, e) /\ fd[q] \in Fds
      BY <1>8, <1>10, AwaitsWaits
    <3>2. \/ u \in sel.cancelled
          \/ sel.key[fd[q]][e] = u /\ (q \in open => e \in sel.epoll[fd[q]])
          \/ q \notin open /\ e = "read"
      BY <1>1, <3>1 DEF Held
    <3> QED  BY <2>4, <3>1, <3>2, NoneIsNoSocket
  <2> QED  BY <1>9, <2>7, <2>8, <2>9, <2>10 DEF TurnInv
<1> QED  BY <1>11, <1>12


\* Nobody moves and the selector stays as it is: what is left is to look at the list.
LEMMA SelectorStays ==
  ASSUME TurnAll, UNCHANGED <<sel, fd, open, inherited, at>>,
         \A u \in Sock : fut'[u] = "pending" => fut[u] = "pending",
         \A u, r \in Sock : \A m \in Mode : Awaits(u, r, m) /\ HasItem(u)' =>
           HasItem(u) \/ (sel.key[fd[r]][m] = u /\ m \in sel.epoll[fd[r]]),
         Young'
  PROVE  TurnInv'
<1>1. One' /\ Own'
  BY DEF TurnAll, TurnInv, One, Own
<1>2. \A u \in Sock : \A s, m : Awaits(u, s, m)' <=> Awaits(u, s, m)
  BY AwaitsKept
<1>3. Known'
  BY <1>2, Ends DEF TurnAll, TurnInv, Known
<1>4. Held'
  BY <1>2 DEF TurnAll, TurnInv, Held
<1> QED  BY <1>1, <1>3, <1>4 DEF TurnInv

LEMMA SelectTurn ==
  ASSUME TurnAll, Select
  PROVE  TurnInv'
<1>1. Inv /\ ListInv /\ Young
  BY DEF TurnAll, TurnInv
<1>2. /\ UNCHANGED <<sel, fd, open, inherited, at, fut>>
      /\ ready \in Seq(Item) /\ Len(ready) \in Nat /\ Len(ready') \in Nat
      /\ Len(ready) <= Len(ready')
  BY <1>1, Selected, LenProperties DEF ListInv, Queue
<1>3. \A u \in Sock : \A s, m : Awaits(u, s, m)' <=> Awaits(u, s, m)
  BY <1>2, AwaitsKept
<1>4. ASSUME NEW i \in 1 .. Len(ready')
      PROVE  \/ i \in 1 .. Len(ready) /\ ready'[i] = ready[i]
             \/ i > Len(ready) /\ ready'[i].task \in Reported
  BY <1>1, <1>2, Selected
<1>5. Young'
  <2> SUFFICES ASSUME NEW i \in 1 .. Len(ready'), NEW u \in Sock, NEW r \in Sock, NEW m \in Mode,
                      ready'[i].task = u, Awaits(u, r, m)', r \notin open',
                      NEW c \in Clients, NEW s \in {In(c), Out(c)}, s \in open', fd'[s] = fd'[r]
               PROVE  Fresh(c, i)'
    BY DEF Young
  <2>1. Awaits(u, r, m) /\ r \notin open
    BY <1>2, <1>3
  <2>2. i \in 1 .. Len(ready) /\ ready'[i] = ready[i]
    <3>1. u \in Reported => Awaited(u).sock \in open /\ Awaited(u).sock = r
      BY <1>1, <2>1, ReportedIs, AwaitsIs
    <3> QED  BY <1>4, <2>1, <3>1
  <2>3. Fresh(c, i)
    BY <1>1, <1>2, <2>1, <2>2 DEF Young
  <2>4. ready[i].run = "wake"
    <3>1. ready[i].run # "event" /\ ready[i].run \in {"start", "event", "wake"} /\ Fits(ready[i])
      BY <1>1, <2>2, Selected, ItemOf
    <3>2. Waiting(u)
      BY <2>1, AwaitsWaits
    <3> QED  BY <2>2, <3>1, <3>2 DEF Fits, Waiting
  <2>5. ASSUME at[In(c)] = "connect", NEW j \in 1 .. Len(ready'), ready'[j].task = In(c)
        PROVE  i < j /\ ready'[i].run = "wake"
    <3>1. CASE j \in 1 .. Len(ready) /\ ready'[j] = ready[j]
      BY <2>2, <2>3, <2>5, <3>1 DEF Fresh
    <3>2. CASE j > Len(ready)
      BY <1>2, <2>2, <2>4, <3>2
    <3> QED  BY <1>4, <3>1, <3>2
  <2> QED  BY <1>2, <2>3, <2>5 DEF Fresh
<1>6. ASSUME NEW u \in Sock, NEW r \in Sock, NEW m \in Mode, Awaits(u, r, m), HasItem(u)'
      PROVE  HasItem(u) \/ (sel.key[fd[r]][m] = u /\ m \in sel.epoll[fd[r]])
  <2>1. PICK i \in 1 .. Len(ready') : ready'[i].task = u
    BY <1>6 DEF HasItem
  <2>2. CASE i \in 1 .. Len(ready) /\ ready'[i] = ready[i]
    BY <2>1, <2>2 DEF HasItem
  <2>3. CASE u \in Reported
    <3>1. Awaited(u).sock = r /\ Awaited(u).mode = m
      BY <1>6, AwaitsIs
    <3> QED  BY <1>1, <2>3, <3>1, ReportedIs
  <2> QED  BY <1>4, <2>1, <2>2, <2>3
<1> QED  BY <1>2, <1>5, <1>6, SelectorStays

LEMMA CallbackTurn ==
  ASSUME TurnAll, NEW t \in Sock, Callback(t)
  PROVE  TurnInv'
<1>1. Inv /\ ListInv /\ Young
  BY DEF TurnAll, TurnInv
<1> DEFINE x == [task |-> t, run |-> "wake"]
<1>2. x \in Item /\ x.task = t
  BY DEF Item
<1>3. /\ Runs(t, "event") /\ UNCHANGED <<at, sel, fd, open, inherited>>
      /\ \/ fut' = fut /\ ready' = Tail(ready)
         \/ (\E r \in Results : fut' = [fut EXCEPT ![t] = r]) /\ ready' = Append(Tail(ready), x)
  BY <1>1, CalledBack
<1> HIDE DEF x
<1>4. /\ 1 \in 1 .. Len(ready) /\ ready[1].task = t /\ ready[1].run = "event"
      /\ \A i \in 1 .. Len(ready) : i > 1 => ready[i].task # t
      /\ ready # <<>> /\ ready \in Seq(Item) /\ Len(ready) \in Nat
  BY <1>1, <1>3, HeadItem, LenProperties DEF ListInv, Queue
<1>5. PICK X \in SUBSET {x} : Moved(1, X)
  BY <1>2, <1>3, <1>4, ListMoves
<1>6. ASSUME NEW i \in 1 .. Len(ready'), ready'[i].task # t
      PROVE  i + 1 \in 1 .. Len(ready) /\ ready'[i] = ready[i + 1]
  BY <1>1, <1>2, <1>5, <1>6, WasItem
<1>7. \A u \in Sock : u # t => fut'[u] = fut[u]
  BY <1>1, <1>3, Types
<1>8. \A u \in Sock : fut'[u] = "pending" => fut[u] = "pending"
  BY <1>1, <1>3, Types DEF Results
<1>9. \A u \in Sock : HasItem(u)' => HasItem(u)
  <2> SUFFICES ASSUME NEW u \in Sock, NEW i \in 1 .. Len(ready'), ready'[i].task = u
               PROVE  HasItem(u)
    BY DEF HasItem
  <2>1. CASE u = t
    BY <1>4, <2>1 DEF HasItem
  <2>2. CASE u # t
    BY <1>6, <2>2 DEF HasItem
  <2> QED  BY <2>1, <2>2
<1>10. Young'
  <2> SUFFICES ASSUME NEW i \in 1 .. Len(ready'), NEW u \in Sock, NEW r \in Sock, NEW m \in Mode,
                      ready'[i].task = u, Awaits(u, r, m)', r \notin open',
                      NEW c \in Clients, NEW s \in {In(c), Out(c)}, s \in open', fd'[s] = fd'[r]
               PROVE  Fresh(c, i)'
    BY DEF Young
  <2>1. Awaits(u, r, m) /\ r \notin open /\ s \in open /\ fd[s] = fd[r]
    BY <1>3, AwaitsKept
  <2>2. In(c) \in Sock
    BY Ends
  <2>3. CASE u # t
    <3>1. i + 1 \in 1 .. Len(ready) /\ ready'[i] = ready[i + 1]
      BY <1>6, <2>3
    <3>2. Fresh(c, i + 1)
      BY <1>1, <2>1, <3>1 DEF Young
    <3>3. at[In(c)] = "connect" => In(c) # t
      BY <1>4, <3>1, <3>2 DEF Fresh
    <3>4. ASSUME at[In(c)] = "connect", NEW j \in 1 .. Len(ready'), ready'[j].task = In(c)
          PROVE  i < j /\ ready'[i].run = "wake"
      <4>1. j + 1 \in 1 .. Len(ready) /\ ready'[j] = ready[j + 1]
        BY <1>6, <3>3, <3>4
      <4>2. i + 1 < j + 1 /\ ready[i + 1].run = "wake"
        BY <3>2, <3>4, <4>1 DEF Fresh
      <4> QED  BY <3>1, <4>1, <4>2
    <3> QED  BY <1>3, <1>7, <2>2, <3>2, <3>3, <3>4 DEF Fresh
  <2>4. CASE u = t
    <3>1. Fresh(c, 1)
      BY <1>1, <1>4, <2>1, <2>4 DEF Young
    <3>2. ASSUME at[In(c)] = "connect"
          PROVE  In(c) # t /\ \A j \in 1 .. Len(ready) : ready[j].task # In(c)
      BY <1>4, <3>1, <3>2 DEF Fresh
    <3>3. ASSUME at[In(c)] = "connect", NEW j \in 1 .. Len(ready'), ready'[j].task = In(c)
          PROVE  FALSE
      BY <1>6, <3>2, <3>3
    <3> QED  BY <1>3, <1>7, <2>2, <3>1, <3>2, <3>3 DEF Fresh
  <2> QED  BY <2>3, <2>4
<1> QED  BY <1>3, <1>8, <1>9, <1>10, SelectorStays

LEMMA QuietTurn ==
  ASSUME TurnAll, UNCHANGED <<sel, fd, open, inherited, at, fut, ready>>
  PROVE  TurnInv'
<1>1. \A c, i : Fresh(c, i) => Fresh(c, i)'
  BY DEF Fresh
<1>2. \A u \in Sock : \A s, m : Awaits(u, s, m)' <=> Awaits(u, s, m)
  BY AwaitsKept
<1>3. Young'
  BY <1>1, <1>2 DEF TurnAll, TurnInv, Young
<1>4. \A u \in Sock : HasItem(u)' => HasItem(u)
  BY DEF HasItem
<1> QED  BY <1>3, <1>4, SelectorStays

\* A verdict may put a task on the list that waits for no socket.
LEMMA DecideMoves ==
  ASSUME Inv, ListInv, NEW c \in Clients, NEW v, Decide(c, v)
  PROVE  /\ UNCHANGED <<at, fut>>
         /\ \E X \in SUBSET Item : /\ Moved(0, X)
                                   /\ \A x \in X : x.task = In(c) /\ at[In(c)] = "gate"
<1> DEFINE x == [task |-> In(c), run |-> "wake"]
<1>1. x \in Item /\ x.task = In(c)
  BY Ends DEF Item
<1>2. /\ UNCHANGED <<at, fut>>
      /\ ready' = ready \/ (ready' = Append(ready, x) /\ at[In(c)] = "gate")
  BY DEF Decide, Wake
<1> HIDE DEF x
<1>3. ready \in Seq(Item)
  BY DEF ListInv, Queue
<1>4. CASE ready' = ready
  <2>1. Moved(0, {}) /\ {} \in SUBSET Item
    BY <1>1, <1>3, <1>4, ListMoves
  <2> QED  BY <1>2, <2>1
<1>5. CASE ready' = Append(ready, x) /\ at[In(c)] = "gate"
  <2>1. Moved(0, {x}) /\ {x} \in SUBSET Item
    BY <1>1, <1>3, <1>5, ListMoves
  <2> QED  BY <1>1, <1>2, <1>5, <2>1
<1> QED  BY <1>2, <1>4, <1>5

LEMMA VerdictTurn ==
  ASSUME TurnAll, NEW c \in Clients, Verdict(c)
  PROVE  TurnInv'
<1>1. Inv /\ ListInv /\ Young
  BY DEF TurnAll, TurnInv
<1>2. UNCHANGED <<sel, fd, open, inherited, at, fut>>
  BY DEF Verdict, Decide, sock_vars
<1>3. PICK X \in SUBSET Item : /\ Moved(0, X)
                               /\ \A x \in X : x.task = In(c) /\ at[In(c)] = "gate"
  BY <1>1, DecideMoves DEF Verdict
<1>4. ASSUME NEW i \in 1 .. Len(ready'),
             \/ ready'[i].task # In(c)
             \/ at[In(c)] # "gate"
      PROVE  i \in 1 .. Len(ready) /\ ready'[i] = ready[i]
  <2>1. ready'[i] \notin X
    BY <1>3, <1>4
  <2>2. i + 0 \in 1 .. Len(ready) /\ ready'[i] = ready[i + 0]
    BY <1>1, <1>3, <2>1, WasItem
  <2> QED  BY <2>2
<1>5. \A u \in Sock : \A s, m : Awaits(u, s, m)' <=> Awaits(u, s, m)
  BY <1>2, AwaitsKept
<1>6. Young'
  <2> SUFFICES ASSUME NEW i \in 1 .. Len(ready'), NEW u \in Sock, NEW r \in Sock, NEW m \in Mode,
                      ready'[i].task = u, Awaits(u, r, m)', r \notin open',
                      NEW d \in Clients, NEW s \in {In(d), Out(d)}, s \in open', fd'[s] = fd'[r]
               PROVE  Fresh(d, i)'
    BY DEF Young
  <2>1. Awaits(u, r, m) /\ r \notin open /\ s \in open /\ fd[s] = fd[r]
    BY <1>2, <1>5
  <2>2. i \in 1 .. Len(ready) /\ ready'[i] = ready[i]
    BY <1>4, <2>1 DEF Awaits
  <2>3. Fresh(d, i)
    BY <1>1, <2>1, <2>2 DEF Young
  <2>4. ASSUME at[In(d)] = "connect", NEW j \in 1 .. Len(ready'), ready'[j].task = In(d)
        PROVE  i < j /\ ready'[i].run = "wake"
    <3>1. j \in 1 .. Len(ready) /\ ready'[j] = ready[j]
      BY <1>4, <2>4
    <3> QED  BY <2>2, <2>3, <2>4, <3>1 DEF Fresh
  <2> QED  BY <1>2, <2>3, <2>4 DEF Fresh
<1>7. \A u, r \in Sock : \A m \in Mode : Awaits(u, r, m) /\ HasItem(u)' => HasItem(u)
  BY <1>4 DEF HasItem, Awaits
<1> QED  BY <1>2, <1>6, <1>7, SelectorStays


\* A client's sockets are closed; at most one of its tasks was waiting.
LEMMA CloseTurn ==
  ASSUME TurnAll, NEW c \in Clients, CloseBoth(c), sel' = Dropped(sel, c), fut' = fut,
         NEW t \in {In(c), Out(c)}, ~ Waiting(t),
         \A u \in Sock : at'[u] = at[u] \/ (u = t /\ at'[u] = "done"),
         NEW X \in SUBSET Item, Moved(0, X), \A x \in X : x.task = In(c) /\ at[In(c)] = "gate"
  PROVE  TurnInv'
<1>1. Inv /\ ListInv /\ One /\ Own /\ Known /\ Held /\ Young
  BY DEF TurnAll, TurnInv
<1>2. open' = open \ {In(c), Out(c)} /\ UNCHANGED <<fd, inherited>>
  BY DEF CloseBoth
<1>3. /\ sel'.key = sel.key /\ sel'.cancelled = sel.cancelled
      /\ \A n \in Fds : sel'.epoll[n] = IF \E s \in {In(c), Out(c)} : s \in open /\ fd[s] = n
                                        THEN {} ELSE sel.epoll[n]
  BY <1>1, DropEffect
<1>4. \A s \in open' : s \in open /\ fd[s] \in Fds /\ sel'.epoll[fd[s]] = sel.epoll[fd[s]]
  BY <1>1, <1>2, <1>3, OpenNumber
<1>5. ASSUME NEW u \in Sock, NEW s, NEW m, Awaits(u, s, m)'
      PROVE  at'[u] = at[u] /\ Awaits(u, s, m) /\ s \in Sock /\ m \in Mode /\ fd[s] \in Fds
  <2>1. at'[u] = at[u]
    BY <1>5 DEF Awaits
  <2> QED  BY <1>1, <1>5, <2>1, AwaitsKept, WaitedIn
<1>6. ASSUME NEW i \in 1 .. Len(ready'), ready'[i] \notin X
      PROVE  i \in 1 .. Len(ready) /\ ready'[i] = ready[i]
  <2>1. i + 0 \in 1 .. Len(ready) /\ ready'[i] = ready[i + 0]
    BY <1>1, <1>6, WasItem
  <2> QED  BY <2>1
<1>7. One'
  <2> SUFFICES ASSUME NEW n \in Fds, sel'.epoll[n] = {}, NEW m \in Mode, NEW k \in Mode,
                      sel.key[n][m] # None, sel.key[n][k] # None, m # k
               PROVE  FALSE
    BY <1>3 DEF One
  <2>1. sel.epoll[n] # {}
    BY <1>1 DEF One
  <2>2. PICK s \in {In(c), Out(c)} : s \in open /\ fd[s] = n
    BY <1>3, <2>1
  <2>3. m \in sel.epoll[n] /\ k \in sel.epoll[n]
    BY <1>1, <2>1 DEF Inv, EventInv, AllOrNone, modes
  <2>4. /\ sel.key[n][m] \in Sock /\ Awaits(sel.key[n][m], s, m)
        /\ sel.key[n][k] \in Sock /\ Awaits(sel.key[n][k], s, k)
    <3>1. PICK q \in Sock : Awaits(sel.key[n][m], q, m) /\ fd[q] = n /\ q \in open
      BY <1>1, <2>3, KeyIs
    <3>2. PICK r \in Sock : Awaits(sel.key[n][k], r, k) /\ fd[r] = n /\ r \in open
      BY <1>1, <2>3, KeyIs
    <3>3. q = s /\ r = s
      BY <1>1, <2>2, <3>1, <3>2, OpenNumber
    <3> QED  BY <1>1, <3>1, <3>2, <3>3, KeyIs
  <2>5. /\ sel.key[n][m] = IF m = "read" THEN s ELSE Other(s)
        /\ sel.key[n][k] = IF k = "read" THEN s ELSE Other(s)
        /\ Waiting(sel.key[n][m]) /\ Waiting(sel.key[n][k])
    BY <1>1, <2>4, WaiterIs, AwaitsWaits
  <2>6. t = s \/ t = Other(s)
    BY Ends
  <2> QED  BY <2>5, <2>6 DEF Mode
<1>8. Own'
  BY <1>1, <1>2, <1>3, <1>4 DEF Own
<1>9. Known'
  BY <1>1, <1>2, <1>3, <1>4, <1>5, Ends DEF Known
<1>10. ASSUME NEW u \in Sock, NEW s, NEW m, Awaits(u, s, m)', NEW i \in 1 .. Len(ready'),
              ready'[i].task = u
       PROVE  i \in 1 .. Len(ready) /\ ready'[i] = ready[i]
  <2>1. at[u] # "gate"
    BY <1>5, <1>10 DEF Awaits
  <2> QED  BY <1>6, <1>10, <2>1
<1>11. Held'
  <2> SUFFICES ASSUME NEW u \in Sock, NEW q \in Sock, NEW e \in Mode, HasItem(u)', Awaits(u, q, e)'
               PROVE  \/ u \in sel'.cancelled
                      \/ sel'.key[fd[q]][e] = u /\ (q \in open' => e \in sel'.epoll[fd[q]])
                      \/ q \notin open' /\ e = "read"
    BY <1>2 DEF Held
  <2>1. HasItem(u) /\ Awaits(u, q, e)
    BY <1>5, <1>10 DEF HasItem
  <2>2. \/ u \in sel.cancelled
        \/ sel.key[fd[q]][e] = u /\ (q \in open => e \in sel.epoll[fd[q]])
        \/ q \notin open /\ e = "read"
    BY <1>1, <2>1 DEF Held
  <2> QED  BY <1>2, <1>3, <1>4, <2>2
<1>12. Young'
  <2> SUFFICES ASSUME NEW i \in 1 .. Len(ready'), NEW u \in Sock, NEW r \in Sock, NEW m \in Mode,
                      ready'[i].task = u, Awaits(u, r, m)', r \notin open',
                      NEW d \in Clients, NEW s \in {In(d), Out(d)}, s \in open', fd'[s] = fd'[r]
               PROVE  Fresh(d, i)'
    BY DEF Young
  <2>1. i \in 1 .. Len(ready) /\ ready'[i] = ready[i] /\ Awaits(u, r, m)
    BY <1>5, <1>10
  <2>2. s \in open /\ fd[s] = fd[r] /\ r \notin open
    BY <1>1, <1>2, OpenNumber
  <2>3. Fresh(d, i)
    BY <1>1, <2>1, <2>2 DEF Young
  <2>4. d # c
    BY <1>2
  <2>5. /\ In(d) \in Sock /\ Out(d) \in Sock
        /\ In(d) \notin {In(c), Out(c)} /\ Out(d) \notin {In(c), Out(c)}
    BY <2>4, Ends
  <2>6. at'[In(d)] = at[In(d)] /\ at'[Out(d)] = at[Out(d)]
    BY <2>5
  <2>7. ASSUME at[In(d)] = "connect", NEW j \in 1 .. Len(ready'), ready'[j].task = In(d)
        PROVE  i < j /\ ready'[i].run = "wake"
    <3>1. j \in 1 .. Len(ready) /\ ready'[j] = ready[j]
      BY <1>6, <2>5, <2>7
    <3> QED  BY <2>1, <2>3, <2>7, <3>1 DEF Fresh
  <2> QED  BY <2>3, <2>6, <2>7 DEF Fresh
<1> QED  BY <1>7, <1>8, <1>9, <1>11, <1>12 DEF TurnInv

LEMMA LeaveTurn ==
  ASSUME TurnAll, NEW t \in Sock, Leave(t)
  PROVE  TurnInv'
<1>1. Inv /\ ListInv
  BY DEF TurnAll
<1>2. PICK c \in Clients : t \in {In(c), Out(c)} /\ t[1] = c
  BY Ends
<1>3. /\ CloseBoth(c) /\ sel' = Dropped(sel, c) /\ fut' = fut /\ ready' = ready
      /\ at' = [at EXCEPT ![t] = "done"] /\ ~ Waiting(t)
  BY <1>2 DEF Leave, Waiting
<1>4. \A u \in Sock : at'[u] = at[u] \/ (u = t /\ at'[u] = "done")
  BY <1>1, <1>3, Types
<1>5. Moved(0, {}) /\ {} \in SUBSET Item
  <2>1. ready \in Seq(Item) /\ [task |-> t, run |-> "wake"] \in Item
    BY <1>1 DEF ListInv, Queue, Item
  <2> QED  BY <1>3, <2>1, ListMoves
<1> QED  BY <1>2, <1>3, <1>4, <1>5, CloseTurn

LEMMA AbortTurn ==
  ASSUME TurnAll, NEW c \in Clients, Abort(c)
  PROVE  TurnInv'
<1>1. Inv /\ ListInv
  BY DEF TurnAll
<1>2. /\ CloseBoth(c) /\ sel' = Dropped(sel, c) /\ fut' = fut /\ at' = at
      /\ at[In(c)] \in {"connect", "gate"}
  BY DEF Abort, Decide
<1>3. ~ Waiting(Out(c))
  BY <1>1, <1>2 DEF Inv, DataInv, Early, Waiting
<1>4. PICK X \in SUBSET Item : /\ Moved(0, X)
                               /\ \A x \in X : x.task = In(c) /\ at[In(c)] = "gate"
  BY <1>1, DecideMoves DEF Abort
<1> QED  BY <1>2, <1>3, <1>4, CloseTurn

\* A socket is opened that nobody waits for.
LEMMA NewSocket ==
  ASSUME Inv, NEW c \in Clients, NEW s \in {In(c), Out(c)}, at[In(c)] \in {"new", "start"},
         s \notin open, OpenSocket(s)
  PROVE  /\ Lowest \in Fds /\ fd'[s] = Lowest /\ open' = open \cup {s}
         /\ \A r \in open : fd[r] # Lowest
         /\ \A r \in Sock : r # s => fd'[r] = fd[r]
         /\ inherited' = IF modes(sel, Lowest) = {} THEN inherited ELSE inherited \cup {c}
         /\ \A u \in Sock : \A r, m : Awaits(u, r, m) =>
              r \in Sock /\ m \in Mode /\ r \notin {In(c), Out(c)} /\ fd'[r] = fd[r]
              /\ fd[r] \in Fds
<1>1. s \in Sock /\ s[1] = c
  BY Ends
<1>2. /\ Lowest \in Fds /\ fd'[s] = Lowest /\ \A r \in Sock : r # s => fd'[r] = fd[r]
  BY <1>1, NewNumber DEF Inv, EventInv
<1>3. \A r \in open : fd[r] # Lowest
  <2>1. Free # {} /\ Free \subseteq Nat
    BY RelayAssumption DEF OpenSocket, Free
  <2>2. Lowest \in Free
    BY <2>1, Smallest DEF Lowest
  <2> QED  BY <2>2 DEF Free
<1>4. ASSUME NEW u \in Sock, NEW r, NEW m, Awaits(u, r, m)
      PROVE  r \in Sock /\ m \in Mode /\ r \notin {In(c), Out(c)} /\ fd'[r] = fd[r]
             /\ fd[r] \in Fds
  <2>1. r \in Sock /\ m \in Mode /\ fd[r] \in Fds /\ Waiting(u) /\ Awaited(u).sock = r
    BY <1>4, WaitedIn, AwaitsIs
  <2>2. r \notin {In(c), Out(c)}
    BY <2>1, NobodyWaits DEF Inv
  <2> QED  BY <1>2, <2>1, <2>2
<1> QED  BY <1>1, <1>2, <1>3, <1>4 DEF OpenSocket

LEMMA AcceptTurn ==
  ASSUME TurnAll, NEW c \in Clients, Accept(c)
  PROVE  TurnInv'
<1>1. Inv /\ ListInv /\ One /\ Own /\ Known /\ Held /\ Young
  BY DEF TurnAll, TurnInv
<1> DEFINE x == [task |-> In(c), run |-> "start"]
<1>2. x \in Item /\ x.task = In(c) /\ In(c) \in Sock /\ In(c) # Out(c)
  BY Ends DEF Item
<1>3. /\ at[In(c)] = "new" /\ OpenSocket(In(c)) /\ at' = [at EXCEPT ![In(c)] = "start"]
      /\ ready' = Append(ready, x) /\ UNCHANGED <<sel, fut>>
  BY DEF Accept
<1>4. Moved(0, {x})
  BY <1>1, <1>2, <1>3, ListMoves DEF ListInv, Queue
<1> HIDE DEF x
<1>5. /\ In(c) \notin open /\ Out(c) \notin open /\ at[Out(c)] = "new"
  BY <1>1, <1>3 DEF Inv, DataInv, Early
<1>6. at'[In(c)] = "start" /\ \A u \in Sock : u # In(c) => at'[u] = at[u]
  BY <1>1, <1>2, <1>3, Types
<1>7. /\ Lowest \in Fds /\ fd'[In(c)] = Lowest /\ open' = open \cup {In(c)}
      /\ \A r \in open : fd[r] # Lowest
      /\ \A r \in Sock : r # In(c) => fd'[r] = fd[r]
      /\ inherited' = IF modes(sel, Lowest) = {} THEN inherited ELSE inherited \cup {c}
      /\ \A u \in Sock : \A r, m : Awaits(u, r, m) =>
           r \in Sock /\ m \in Mode /\ r \notin {In(c), Out(c)} /\ fd'[r] = fd[r] /\ fd[r] \in Fds
  BY <1>1, <1>3, <1>5, NewSocket
<1>8. ASSUME NEW u \in Sock, NEW s, NEW m, Awaits(u, s, m)'
      PROVE  /\ u # In(c) /\ Awaits(u, s, m) /\ s \in Sock /\ m \in Mode
             /\ s \notin {In(c), Out(c)} /\ fd'[s] = fd[s] /\ (s \in open' <=> s \in open)
  <2>1. u # In(c)
    BY <1>6, <1>8 DEF Awaits
  <2>2. Awaits(u, s, m)
    BY <1>6, <1>8, <2>1, AwaitsKept
  <2> QED  BY <1>7, <2>1, <2>2
<1>9. ASSUME NEW i \in 1 .. Len(ready'), ready'[i].task # In(c)
      PROVE  i \in 1 .. Len(ready) /\ ready'[i] = ready[i]
  <2>1. i + 0 \in 1 .. Len(ready) /\ ready'[i] = ready[i + 0]
    BY <1>1, <1>2, <1>4, <1>9, WasItem
  <2> QED  BY <2>1
<1>10. One'
  BY <1>1, <1>3 DEF One
<1>11. Own'
  <2> SUFFICES ASSUME NEW d \in Clients, NEW s \in {In(d), Out(d)}, s \in open',
              d \notin inherited',
                      sel'.epoll[fd'[s]] = {}, NEW m \in Mode
               PROVE  sel'.key[fd'[s]][m] = None
    BY DEF Own
  <2>1. CASE s = In(c)
    <3>1. d = c /\ modes(sel, Lowest) = {}
      BY <1>7, <2>1, Ends
    <3> QED  BY <1>3, <1>7, <2>1, <3>1 DEF modes
  <2>2. CASE s # In(c)
    <3>1. s \in open /\ s \in Sock /\ fd'[s] = fd[s] /\ d \notin inherited
      BY <1>1, <1>7, <2>2, OpenNumber
    <3> QED  BY <1>1, <1>3, <3>1 DEF Own
  <2> QED  BY <2>1, <2>2
<1>12. Known'
  <2> SUFFICES ASSUME NEW d \in Clients, NEW u \in {In(d), Out(d)}, NEW s \in Sock, NEW m \in Mode,
                      Awaits(u, s, m)', fut'[u] = "pending", s \in open', d \notin inherited'
               PROVE  sel'.key[fd'[s]][m] = u
    BY DEF Known
  <2>1. u \in Sock
    BY Ends
  <2> QED  BY <1>1, <1>3, <1>7, <1>8, <2>1 DEF Known
<1>13. Held'
  <2> SUFFICES ASSUME NEW u \in Sock, NEW q \in Sock, NEW e \in Mode, HasItem(u)', Awaits(u, q, e)'
               PROVE  \/ u \in sel'.cancelled
                      \/ sel'.key[fd'[q]][e] = u /\ (q \in open' => e \in sel'.epoll[fd'[q]])
                      \/ q \notin open' /\ e = "read"
    BY DEF Held
  <2>1. HasItem(u)
    BY <1>8, <1>9 DEF HasItem
  <2> QED  BY <1>1, <1>3, <1>8, <2>1 DEF Held
<1>14. Young'
  <2> SUFFICES ASSUME NEW i \in 1 .. Len(ready'), NEW u \in Sock, NEW r \in Sock, NEW m \in Mode,
                      ready'[i].task = u, Awaits(u, r, m)', r \notin open',
                      NEW d \in Clients, NEW s \in {In(d), Out(d)}, s \in open', fd'[s] = fd'[r]
               PROVE  Fresh(d, i)'
    BY DEF Young
  <2>1. i \in 1 .. Len(ready) /\ ready'[i] = ready[i] /\ Awaits(u, r, m) /\ r \notin open
    BY <1>8, <1>9
  <2>2. Out(c) \in Sock /\ Out(c) # In(c) /\ In(d) \in Sock /\ Out(d) \in Sock /\ Out(d) # In(c)
    BY Ends
  <2>3. CASE d = c
    BY <1>5, <1>6, <2>2, <2>3 DEF Fresh
  <2>4. CASE d # c
    <3>1. s # In(c) /\ In(d) # In(c)
      BY <2>4, Ends
    <3>2. s \in open /\ fd[s] = fd[r]
      BY <1>1, <1>7, <1>8, <3>1, OpenNumber
    <3>3. Fresh(d, i)
      BY <1>1, <2>1, <3>2 DEF Young
    <3>4. ASSUME at[In(d)] = "connect", NEW j \in 1 .. Len(ready'), ready'[j].task = In(d)
          PROVE  i < j /\ ready'[i].run = "wake"
      <4>1. j \in 1 .. Len(ready) /\ ready'[j] = ready[j]
        BY <1>9, <3>1, <3>4
      <4> QED  BY <2>1, <3>3, <3>4, <4>1 DEF Fresh
    <3> QED  BY <1>3, <1>6, <2>2, <3>1, <3>3, <3>4 DEF Fresh
  <2> QED  BY <2>3, <2>4
<1> QED  BY <1>10, <1>11, <1>12, <1>13, <1>14 DEF TurnInv


LEMMA SameList ==
  ASSUME ready' = ready
  PROVE  (\A u : HasItem(u)' <=> HasItem(u)) /\ Len(ready') = Len(ready)
BY DEF HasItem

LEMMA ConnectTurn ==
  ASSUME TurnAll, NEW c \in Clients, Connect(c)
  PROVE  TurnInv'
<1>1. Inv /\ ListInv /\ One /\ Own /\ Known /\ Held /\ Young
  BY DEF TurnAll, TurnInv
<1> DEFINE t == In(c)
           n == Lowest
<1>2. t \in Sock /\ Out(c) \in Sock /\ t # Out(c) /\ t[1] = c
  BY Ends
<1>3. /\ cur = t /\ at[t] = "start" /\ OpenSocket(Out(c)) /\ ready' = ready
      /\ sel' = AddHandler(sel, t, n, "write")
  BY DEF Connect, Await
<1>4. /\ \A u \in Sock : u # t => at'[u] = at[u] /\ fut'[u] = fut[u]
      /\ at'[t] \in {"connect", "failed"}
      /\ at'[t] = "connect" <=> ~Raises(sel, n, "write")
      /\ at'[t] = "connect" => fut'[t] = "pending"
  BY <1>1, ConnectAdvances DEF Advances
<1>5. Out(c) \notin open /\ at[Out(c)] = "new" /\ t \in open
  BY <1>1, <1>3 DEF Inv, DataInv, Early
<1>6. /\ n \in Fds /\ fd'[Out(c)] = n /\ open' = open \cup {Out(c)}
      /\ \A r \in open : fd[r] # n
      /\ \A r \in Sock : r # Out(c) => fd'[r] = fd[r]
      /\ inherited' = IF modes(sel, n) = {} THEN inherited ELSE inherited \cup {c}
      /\ \A u \in Sock : \A r, m : Awaits(u, r, m) =>
           r \in Sock /\ m \in Mode /\ r \notin {In(c), Out(c)} /\ fd'[r] = fd[r] /\ fd[r] \in Fds
  BY <1>1, <1>3, <1>5, NewSocket
<1>7. "write" \in Mode /\ \A m \in Mode : m = "read" \/ m = "write"
  BY DEF Mode
<1>8. /\ \A k \in Fds : k # n => sel'.key[k] = sel.key[k] /\ sel'.epoll[k] = sel.epoll[k]
      /\ \A u \in Sock : u # t /\ u \in sel.cancelled => u \in sel'.cancelled
      /\ Raises(sel, n, "write") =>
           /\ \A e \in Mode : sel'.key[n][e] = None
           /\ sel.epoll[n] = {} /\ sel'.epoll[n] = {}
           /\ sel.key[n]["write"] = None /\ \E e \in Mode : sel.key[n][e] # None
      /\ ~Raises(sel, n, "write") =>
           /\ sel'.key[n]["write"] = t
           /\ \A e \in Mode : e # "write" => sel'.key[n][e] = sel.key[n][e]
           /\ sel.key[n]["write"] # None => sel'.epoll[n] = sel.epoll[n]
           /\ sel.key[n]["write"] = None =>
                \A e \in Mode : e \in sel'.epoll[n] <=> e = "write" \/ sel.key[n][e] # None
           /\ \A u \in Sock : u # t /\ u = sel.key[n]["write"] => u \in sel'.cancelled
  BY <1>1, <1>2, <1>3, <1>6, <1>7, AddEffect
<1> HIDE DEF n, t
<1>9. ASSUME NEW u \in Sock, NEW s, NEW m, Awaits(u, s, m)', u # t
      PROVE  /\ Awaits(u, s, m) /\ s \in Sock /\ m \in Mode /\ s # Out(c) /\ fd'[s] = fd[s]
             /\ (s \in open' <=> s \in open) /\ fut'[u] = fut[u] /\ fd[s] \in Fds
             /\ (s \in open => fd[s] # n)
  <2>1. Awaits(u, s, m)
    BY <1>4, <1>9, AwaitsKept
  <2> QED  BY <1>4, <1>6, <1>9, <2>1
<1>10. \A u \in Sock : HasItem(u) => u # t
  BY <1>1, <1>3, ItemOf DEF HasItem, Fits
<1>11. One'
  <2> SUFFICES ASSUME NEW k \in Fds, sel'.epoll[k] = {}, NEW m \in Mode, NEW e \in Mode,
                      sel'.key[k][m] # None, sel'.key[k][e] # None
               PROVE  m = e
    BY DEF One
  <2>1. CASE k # n
    BY <1>1, <1>8, <2>1 DEF One
  <2>2. CASE k = n
    <3>1. ~Raises(sel, n, "write") /\ sel.key[n]["write"] # None /\ sel.epoll[n] = {}
      BY <1>7, <1>8, <2>2
    <3>2. \A d \in Mode : sel'.key[n][d] # None => sel.key[n][d] # None
      BY <1>8, <3>1
    <3> QED  BY <1>1, <1>6, <2>2, <3>1, <3>2 DEF One
  <2> QED  BY <2>1, <2>2
<1>12. Own'
  <2> SUFFICES ASSUME NEW d \in Clients, NEW s \in {In(d), Out(d)}, s \in open',
              d \notin inherited',
                      sel'.epoll[fd'[s]] = {}, NEW m \in Mode
               PROVE  sel'.key[fd'[s]][m] = None
    BY DEF Own
  <2>1. CASE s = Out(c)
    <3>1. d = c
      BY <2>1, Ends
    <3>2. \A e \in Mode : sel.key[n][e] = None
      BY <1>6, <3>1 DEF modes
    <3> QED  BY <1>6, <1>7, <1>8, <2>1, <3>2
  <2>2. CASE s # Out(c)
    <3>1. s \in open /\ s \in Sock /\ fd'[s] = fd[s] /\ d \notin inherited /\ fd[s] # n
          /\ fd[s] \in Fds
      BY <1>1, <1>6, <2>2, OpenNumber
    <3> QED  BY <1>1, <1>8, <3>1 DEF Own
  <2> QED  BY <2>1, <2>2
<1>13. Known'
  <2> SUFFICES ASSUME NEW d \in Clients, NEW u \in {In(d), Out(d)}, NEW s \in Sock, NEW m \in Mode,
                      Awaits(u, s, m)', fut'[u] = "pending", s \in open', d \notin inherited'
               PROVE  sel'.key[fd'[s]][m] = u
    BY DEF Known
  <2>1. u \in Sock
    BY Ends
  <2>2. CASE u # t
    BY <1>1, <1>6, <1>8, <1>9, <2>1, <2>2 DEF Known
  <2>3. CASE u = t
    <3>1. at'[t] = "connect" /\ s = Out(c) /\ m = "write"
      BY <1>2, <1>4, <2>3 DEF Awaits, t
    <3> QED  BY <1>4, <1>6, <1>8, <2>3, <3>1
  <2> QED  BY <2>2, <2>3
<1>14. Held'
  <2> SUFFICES ASSUME NEW u \in Sock, NEW q \in Sock, NEW e \in Mode, HasItem(u)', Awaits(u, q, e)'
               PROVE  \/ u \in sel'.cancelled
                      \/ sel'.key[fd'[q]][e] = u /\ (q \in open' => e \in sel'.epoll[fd'[q]])
                      \/ q \notin open' /\ e = "read"
    BY DEF Held
  <2>1. HasItem(u) /\ u # t
    BY <1>3, <1>10, SameList
  <2>2. /\ Awaits(u, q, e) /\ fd'[q] = fd[q] /\ (q \in open' <=> q \in open) /\ fd[q] \in Fds
        /\ (q \in open => fd[q] # n)
    BY <1>9, <2>1
  <2>3. \/ u \in sel.cancelled
        \/ sel.key[fd[q]][e] = u /\ (q \in open => e \in sel.epoll[fd[q]])
        \/ q \notin open /\ e = "read"
    BY <1>1, <2>1, <2>2 DEF Held
  <2>4. CASE fd[q] # n
    BY <1>8, <2>1, <2>2, <2>3, <2>4
  <2>5. CASE fd[q] = n
    <3>1. q \notin open' /\ (e = "read" \/ e = "write")
      BY <1>7, <2>2, <2>5
    <3>2. CASE e = "read"
      BY <3>1, <3>2
    <3>3. CASE e = "write"
      BY <1>8, <2>1, <2>3, <2>5, <3>3, NoneIsNoSocket
    <3> QED  BY <3>1, <3>2, <3>3
  <2> QED  BY <2>4, <2>5
<1>15. Young'
  <2> SUFFICES ASSUME NEW i \in 1 .. Len(ready'), NEW u \in Sock, NEW r \in Sock, NEW m \in Mode,
                      ready'[i].task = u, Awaits(u, r, m)', r \notin open',
                      NEW d \in Clients, NEW s \in {In(d), Out(d)}, s \in open', fd'[s] = fd'[r]
               PROVE  Fresh(d, i)'
    BY DEF Young
  <2>1. i \in 1 .. Len(ready) /\ ready[i].task = u /\ u # t
    BY <1>3, <1>10 DEF HasItem
  <2>2. Awaits(u, r, m) /\ fd'[r] = fd[r] /\ r \notin open
    BY <1>9, <2>1
  <2>3. CASE d = c
    <3>1. at'[Out(c)] = "new"
      BY <1>2, <1>4, <1>5
    <3>2. \A j \in 1 .. Len(ready') : ready'[j].task # t
      BY <1>2, <1>3, <1>10 DEF HasItem
    <3> QED  BY <1>4, <2>3, <3>1, <3>2 DEF Fresh, t
  <2>4. CASE d # c
    <3>1. s # Out(c) /\ In(d) # t /\ Out(d) # t /\ In(d) \in Sock /\ Out(d) \in Sock
      BY <2>4, Ends DEF t
    <3>2. s \in open /\ fd[s] = fd[r]
      BY <1>1, <1>6, <2>2, <3>1, OpenNumber
    <3>3. Fresh(d, i)
      BY <1>1, <2>1, <2>2, <3>2 DEF Young
    <3> QED  BY <1>3, <1>4, <3>1, <3>3 DEF Fresh
  <2> QED  BY <2>3, <2>4
<1> QED  BY <1>11, <1>12, <1>13, <1>14, <1>15 DEF TurnInv

\* A forwarding task goes on, or waits for the open socket s.
LEMMA ForwardTurn ==
  ASSUME TurnAll, NEW t \in Sock, cur = t, at[t] \in {"receive", "send"},
         UNCHANGED <<fd, open, inherited, ready>>,
         \A u \in Sock : u # t => at'[u] = at[u] /\ fut'[u] = fut[u],
         \/ sel' = sel /\ ~ Waiting(t)'
         \/ \E s \in open : \E m \in Mode :
              /\ sel' = AddHandler(sel, t, fd[s], m)
              /\ t = IF m = "read" THEN s ELSE Other(s)
              /\ Raises(sel, fd[s], m) => ~ Waiting(t)'
              /\ \A q, e : Awaits(t, q, e)' => q = s /\ e = m
  PROVE  TurnInv'
<1>1. Inv /\ ListInv /\ One /\ Own /\ Known /\ Held /\ Young
  BY DEF TurnAll, TurnInv
<1>2. \A u \in Sock : HasItem(u) => u # t
  BY <1>1, ItemOf DEF HasItem, Fits
<1>3. ASSUME NEW u \in Sock, NEW s, NEW m, Awaits(u, s, m)', u # t
      PROVE  Awaits(u, s, m) /\ s \in Sock /\ m \in Mode /\ fut'[u] = fut[u] /\ fd[s] \in Fds
  <2>1. Awaits(u, s, m)
    BY <1>3, AwaitsKept
  <2> QED  BY <1>1, <1>3, <2>1, WaitedIn
<1>4. ASSUME NEW d \in Clients, at[In(d)] \in {"start", "connect", "failed"}, at[Out(d)] = "new"
      PROVE  In(d) # t /\ Out(d) # t
  BY <1>4
<1>5. Young'
  <2> SUFFICES ASSUME NEW i \in 1 .. Len(ready'), NEW u \in Sock, NEW r \in Sock, NEW m \in Mode,
                      ready'[i].task = u, Awaits(u, r, m)', r \notin open',
                      NEW d \in Clients, NEW s \in {In(d), Out(d)}, s \in open', fd'[s] = fd'[r]
               PROVE  Fresh(d, i)'
    BY DEF Young
  <2>1. i \in 1 .. Len(ready) /\ ready[i].task = u /\ u # t
    BY <1>2 DEF HasItem
  <2>2. Awaits(u, r, m) /\ r \notin open /\ s \in open /\ fd[s] = fd[r]
    BY <1>3, <2>1
  <2>3. Fresh(d, i)
    BY <1>1, <2>1, <2>2 DEF Young
  <2>4. In(d) # t /\ Out(d) # t /\ In(d) \in Sock /\ Out(d) \in Sock
    BY <1>4, <2>3, Ends DEF Fresh
  <2> QED  BY <2>3, <2>4 DEF Fresh
<1>6. CASE sel' = sel /\ ~ Waiting(t)'
  <2>1. One' /\ Own'
    BY <1>1, <1>6 DEF One, Own
  <2>2. \A u \in Sock : \A s, m : Awaits(u, s, m)' => u # t
    BY <1>6, AwaitsWaits
  <2>3. Known'
    BY <1>1, <1>3, <1>6, <2>2, Ends DEF Known
  <2>4. Held'
    BY <1>1, <1>3, <1>6, <2>2, SameList DEF Held
  <2> QED  BY <1>5, <2>1, <2>3, <2>4 DEF TurnInv
<1>7. ASSUME NEW s \in open, NEW m \in Mode, sel' = AddHandler(sel, t, fd[s], m),
             t = IF m = "read" THEN s ELSE Other(s),
             Raises(sel, fd[s], m) => ~ Waiting(t)',
             \A q, e : Awaits(t, q, e)' => q = s /\ e = m
      PROVE  TurnInv'
  <2> DEFINE n == fd[s]
  <2>1. n \in Fds /\ s \in Sock /\ \A q \in open : fd[q] = n => q = s
    BY <1>1, OpenNumber
  <2>2. /\ \A k \in Fds : k # n => sel'.key[k] = sel.key[k] /\ sel'.epoll[k] = sel.epoll[k]
        /\ \A u \in Sock : u # t /\ u \in sel.cancelled => u \in sel'.cancelled
        /\ Raises(sel, n, m) =>
             /\ \A e \in Mode : sel'.key[n][e] = None
             /\ sel.epoll[n] = {} /\ sel'.epoll[n] = {}
             /\ sel.key[n][m] = None /\ \E e \in Mode : sel.key[n][e] # None
        /\ ~Raises(sel, n, m) =>
             /\ sel'.key[n][m] = t
             /\ \A e \in Mode : e # m => sel'.key[n][e] = sel.key[n][e]
             /\ sel.key[n][m] # None => sel'.epoll[n] = sel.epoll[n]
             /\ sel.key[n][m] = None =>
                  \A e \in Mode : e \in sel'.epoll[n] <=> e = m \/ sel.key[n][e] # None
             /\ \A u \in Sock : u # t /\ u = sel.key[n][m] => u \in sel'.cancelled
    BY <1>1, <1>7, <2>1, AddEffect
  <2>3. Raises(sel, n, m) => ~ Waiting(t)'
    BY <1>7
  <2>4. n = fd[s]
    OBVIOUS
  <2> HIDE DEF n
  <2>5. One'
    <3> SUFFICES ASSUME NEW k \in Fds, sel'.epoll[k] = {}, NEW d \in Mode, NEW e \in Mode,
                        sel'.key[k][d] # None, sel'.key[k][e] # None
                 PROVE  d = e
      BY DEF One
    <3>1. CASE k # n
      BY <1>1, <2>2, <3>1 DEF One
    <3>2. CASE k = n
      <4>1. ~Raises(sel, n, m) /\ sel.key[n][m] # None /\ sel.epoll[n] = {}
        BY <2>2, <3>2
      <4>2. \A f \in Mode : sel'.key[n][f] # None => sel.key[n][f] # None
        BY <2>2, <4>1
      <4> QED  BY <1>1, <2>1, <3>2, <4>1, <4>2 DEF One
    <3> QED  BY <3>1, <3>2
  <2>6. Own'
    <3> SUFFICES ASSUME NEW d \in Clients, NEW q \in {In(d), Out(d)}, q \in open,
                d \notin inherited,
                        sel'.epoll[fd[q]] = {}, NEW e \in Mode
                 PROVE  sel'.key[fd[q]][e] = None
      BY DEF Own
    <3>1. fd[q] \in Fds
      BY <1>1, OpenNumber
    <3>2. sel.epoll[fd[q]] = {} => \A f \in Mode : sel.key[fd[q]][f] = None
      BY <1>1 DEF Own
    <3>3. CASE fd[q] # n
      BY <2>2, <3>1, <3>2, <3>3
    <3>4. CASE fd[q] = n
      BY <2>2, <3>2, <3>4
    <3> QED  BY <3>3, <3>4
  <2>7. Known'
    <3> SUFFICES ASSUME NEW d \in Clients, NEW u \in {In(d), Out(d)}, NEW q \in Sock,
                NEW e \in Mode,
                        Awaits(u, q, e)', fut'[u] = "pending", q \in open, d \notin inherited
                 PROVE  sel'.key[fd[q]][e] = u
      BY DEF Known
    <3>1. u \in Sock
      BY Ends
    <3>2. CASE u = t
      <4>1. q = s /\ e = m /\ ~Raises(sel, n, m)
        BY <1>7, <2>3, <3>2, AwaitsWaits
      <4> QED  BY <2>2, <2>4, <3>2, <4>1
    <3>3. CASE u # t
      <4>1. Awaits(u, q, e) /\ fut[u] = "pending" /\ fd[q] \in Fds
        BY <1>3, <3>1, <3>3
      <4>2. sel.key[fd[q]][e] = u
        BY <1>1, <4>1 DEF Known
      <4>3. CASE fd[q] # n
        BY <2>2, <4>1, <4>2, <4>3
      <4>4. CASE fd[q] = n
        <5>1. q = s
          BY <2>1, <4>4
        <5>2. e # m
          BY <1>1, <1>7, <3>1, <3>3, <4>1, <5>1, WaiterIs
        <5>3. ~Raises(sel, n, m)
          <6>1. q \in {In(d), Out(d)}
            BY <1>1, <3>1, <4>1, SameClient
          <6>2. sel.epoll[n] # {}
            BY <1>1, <3>1, <4>2, <4>4, <6>1, NoneIsNoSocket DEF Own
          <6> QED  BY <2>2, <6>2
        <5> QED  BY <2>2, <4>2, <4>4, <5>2, <5>3
      <4> QED  BY <4>3, <4>4
    <3> QED  BY <3>2, <3>3
  <2>8. Held'
    <3> SUFFICES ASSUME NEW u \in Sock, NEW q \in Sock, NEW e \in Mode, HasItem(u)', Awaits(u, q,
                e)'
                 PROVE  \/ u \in sel'.cancelled
                        \/ sel'.key[fd[q]][e] = u /\ (q \in open => e \in sel'.epoll[fd[q]])
                        \/ q \notin open /\ e = "read"
      BY DEF Held
    <3>1. HasItem(u) /\ u # t
      BY <1>2, SameList
    <3>2. Awaits(u, q, e) /\ fd[q] \in Fds
      BY <1>3, <3>1
    <3>3. \/ u \in sel.cancelled
          \/ sel.key[fd[q]][e] = u /\ (q \in open => e \in sel.epoll[fd[q]])
          \/ q \notin open /\ e = "read"
      BY <1>1, <3>1, <3>2 DEF Held
    <3>4. CASE fd[q] # n
      BY <2>2, <3>1, <3>2, <3>3, <3>4
    <3>5. CASE fd[q] = n /\ ~Raises(sel, n, m)
      BY <2>2, <3>1, <3>3, <3>5, NoneIsNoSocket
    <3>6. CASE fd[q] = n /\ Raises(sel, n, m) /\ sel.key[n][e] = u
      <4>1. q \notin open
        BY <2>2, <3>3, <3>6, <1>1, OpenNumber, <3>1 DEF Inv, EventInv, Keys
      <4>2. PICK i \in 1 .. Len(ready) : ready[i].task = u
        BY <3>1 DEF HasItem
      <4>3. PICK d \in Clients : s \in {In(d), Out(d)}
        BY <2>1, Ends
      <4>4. Fresh(d, i)
        BY <1>1, <2>4, <3>2, <3>6, <4>1, <4>2, <4>3 DEF Young
      <4>5. t \in {In(d), Out(d)}
        BY <1>7, <4>3, Ends
      <4> QED  BY <1>4, <4>4, <4>5 DEF Fresh
    <3> QED  BY <2>2, <3>1, <3>3, <3>4, <3>5, <3>6
  <2> QED  BY <1>5, <2>5, <2>6, <2>7, <2>8 DEF TurnInv
<1> QED  BY <1>6, <1>7


LEMMA ReceiveTurn ==
  ASSUME TurnAll, NEW t \in Sock, SockRecv(t)
  PROVE  TurnInv'
<1>1. Inv /\ ListInv /\ cur = t /\ at[t] = "receive" /\ Advances(t)
  BY CoroutineAdvances DEF TurnAll, SockRecv, Coroutine
<1>2. /\ UNCHANGED <<fd, open, inherited, ready>>
      /\ \A u \in Sock : u # t => at'[u] = at[u] /\ fut'[u] = fut[u]
  BY <1>1 DEF SockRecv, sock_vars, Advances
<1>3. CASE sel' = sel /\ (at' = [at EXCEPT ![t] = "break"] \/ at' = [at EXCEPT ![t] = "send"])
  <2>1. ~ Waiting(t)'
    BY <1>1, <1>3, Types DEF Waiting
  <2> QED  BY <1>1, <1>2, <1>3, <2>1, ForwardTurn
<1>4. CASE RecvOutcome(t) = "pending" /\ Await(t, fd[t], "recv", "read", "break")
  <2>1. t \in open /\ sel' = AddHandler(sel, t, fd[t], "read") /\ "read" \in Mode
    BY <1>4 DEF RecvOutcome, Await, Mode
  <2>2. /\ at'[t] \in {"recv", "break"} /\ (Raises(sel, fd[t], "read") => at'[t] # "recv")
    BY <1>1, <1>4, AwaitAdvances DEF SockRecv, Advances
  <2>3. /\ Raises(sel, fd[t], "read") => ~ Waiting(t)'
        /\ \A q, e : Awaits(t, q, e)' => q = t /\ e = "read"
    BY <2>2 DEF Waiting, Awaits
  <2> QED  BY <1>1, <1>2, <2>1, <2>3, ForwardTurn
<1> QED  BY <1>3, <1>4 DEF SockRecv

LEMMA SendallTurn ==
  ASSUME TurnAll, NEW t \in Sock, SockSendall(t)
  PROVE  TurnInv'
<1>1. Inv /\ ListInv /\ cur = t /\ at[t] = "send" /\ Advances(t)
  BY CoroutineAdvances DEF TurnAll, SockSendall, Coroutine
<1>2. /\ UNCHANGED <<fd, open, inherited, ready>>
      /\ \A u \in Sock : u # t => at'[u] = at[u] /\ fut'[u] = fut[u]
  BY <1>1 DEF SockSendall, sock_vars, Advances
<1>3. CASE sel' = sel /\ (at' = [at EXCEPT ![t] = "break"] \/ at' = [at EXCEPT ![t] = "receive"])
  <2>1. ~ Waiting(t)'
    BY <1>1, <1>3, Types DEF Waiting
  <2> QED  BY <1>1, <1>2, <1>3, <2>1, ForwardTurn
<1>4. CASE SendOutcome(t) = "pending" /\ Await(t, fd[Other(t)], "sending", "write", "break")
  <2>1. /\ Other(t) \in open /\ sel' = AddHandler(sel, t, fd[Other(t)], "write")
        /\ "write" \in Mode /\ t = Other(Other(t))
    BY <1>4, Others DEF SendOutcome, Await, Mode
  <2>2. /\ at'[t] \in {"sending", "break"}
        /\ (Raises(sel, fd[Other(t)], "write") => at'[t] # "sending")
    BY <1>1, <1>4, AwaitAdvances DEF SockSendall, Advances
  <2>3. /\ Raises(sel, fd[Other(t)], "write") => ~ Waiting(t)'
        /\ \A q, e : Awaits(t, q, e)' => q = Other(t) /\ e = "write"
    BY <2>2 DEF Waiting, Awaits
  <2> QED  BY <1>1, <1>2, <2>1, <2>3, ForwardTurn
<1> QED  BY <1>3, <1>4 DEF SockSendall

(***************************************************************************)
(* The theorem                                                             *)
(***************************************************************************)
LEMMA TurnInitially ==
  ASSUME Init
  PROVE  TurnAll
<1>1. Inv /\ ListInv
  BY EventsInitially, ListInitially
<1>2. /\ ready = <<>> /\ open = {} /\ at = [s \in Sock |-> "new"]
      /\ sel.key = [n \in Fds |-> NoKey]
  BY DEF Init
<1>3. \A n \in Fds : \A m \in Mode : sel.key[n][m] = None
  BY <1>2 DEF NoKey, Mode
<1>4. One /\ Own /\ Known
  BY <1>2, <1>3 DEF One, Own, Known
<1>5. Len(ready) = 0
  BY <1>2, EmptySeq
<1>6. Held /\ Young
  BY <1>5 DEF Held, Young, HasItem
<1> QED  BY <1>1, <1>4, <1>6 DEF TurnAll, TurnInv

LEMMA TurnStep ==
  ASSUME TurnAll, [Next]_vars
  PROVE  TurnAll'
<1>1. Inv' /\ ListInv'
  BY EventsStep, ListStep DEF TurnAll
<1>2. ASSUME UNCHANGED <<sel, fd, open, inherited, at, fut, ready>> PROVE TurnInv'
  BY <1>2, QuietTurn
<1>3. TurnInv'
  <2>1. CASE UNCHANGED vars
    BY <1>2, <2>1 DEF vars, loop_vars, task_vars, sock_vars
  <2>2. CASE Select
    BY <2>2, SelectTurn
  <2>3. ASSUME NEW t \in Sock, Resume(t) \/ Callback(t) \/ Coroutine(t) PROVE TurnInv'
    BY <2>3, ResumeTurn, CallbackTurn, ReceiveTurn, SendallTurn, LeaveTurn DEF Coroutine
  <2>4. ASSUME NEW c \in Clients, Connect(c) \/ Accept(c) \/ Verdict(c) \/ Abort(c) PROVE TurnInv'
    BY <2>4, ConnectTurn, AcceptTurn, VerdictTurn, AbortTurn
  <2>5. ASSUME NEW c \in Clients, Answer(c) PROVE TurnInv'
    BY <1>2, <2>5 DEF Answer, loop_vars, task_vars, sock_vars
  <2>6. ASSUME NEW s \in Sock, PeerWrites(s) \/ PeerReads(s) \/ PeerEnds(s) PROVE TurnInv'
    BY <1>2, <2>6 DEF PeerWrites, PeerReads, PeerEnds, loop_vars, task_vars, sock_vars
  <2> QED  BY <2>1, <2>2, <2>3, <2>4, <2>5, <2>6, Zenon DEF Next, Loop, Environment
<1> QED  BY <1>1, <1>3 DEF TurnAll

LEMMA KnownGivesRegistered ==
  ASSUME TurnAll
  PROVE  WaitersRegistered
<1> SUFFICES ASSUME NEW t \in Sock, Waits(t), t[1] \notin inherited
             PROVE  LET n == fd[Awaited(t).sock]  m == Awaited(t).mode IN
                    sel.key[n][m] = t /\ m \in sel.epoll[n] /\ t \notin sel.cancelled
  BY DEF WaitersRegistered
<1>1. Inv /\ ListInv /\ Own /\ Known
  BY DEF TurnAll, TurnInv
<1>2. Waiting(t) /\ fut[t] = "pending" /\ Awaited(t).sock \in open
  BY <1>1 DEF Waits, ListInv, FutureOf
<1>3. PICK s \in Sock, m \in Mode : Awaited(t) = [sock |-> s, mode |-> m]
  BY <1>2, AwaitedOf
<1>4. PICK c \in Clients : t \in {In(c), Out(c)} /\ t[1] = c
  BY Ends
<1>5. Awaits(t, s, m) /\ s \in open /\ fd[s] \in Fds /\ s \in {In(c), Out(c)}
  BY <1>1, <1>2, <1>3, <1>4, AwaitsIs, WaitedIn, SameClient
<1>6. sel.key[fd[s]][m] = t
  BY <1>1, <1>2, <1>4, <1>5 DEF Known
<1>7. sel.epoll[fd[s]] # {}
  BY <1>1, <1>4, <1>5, <1>6, NoneIsNoSocket DEF Own
<1>8. m \in sel.epoll[fd[s]] /\ t \notin sel.cancelled
  BY <1>1, <1>5, <1>6, <1>7, NoneIsNoSocket DEF Inv, EventInv, AllOrNone, Keys, modes
<1> QED  BY <1>3, <1>6, <1>8

\* However the two tasks of a client, the closed clients' late callbacks and the reuse of
\* file numbers interleave, a task that waits for an open socket is known to asyncio and
\* to the kernel: only a client whose number came with an old key can wait unheard.
THEOREM WaitersStayRegistered == Spec => []WaitersRegistered
<1>1. Init => TurnAll
  BY TurnInitially
<1>2. TurnAll /\ [Next]_vars => TurnAll'
  BY TurnStep
<1>3. TurnAll => WaitersRegistered
  BY KnownGivesRegistered
<1> QED  BY <1>1, <1>2, <1>3, PTL DEF Spec

(***************************************************************************)
(* The types                                                               *)
(***************************************************************************)
\* The numbers are bounded: a peer writes MaxWrites segments, no stream holds more.
Bounded ==
  /\ spent \in [writes : 0 .. MaxWrites, trouble : 0 .. MaxTrouble]
  /\ \A s \in Sock : Len(wrote[s]) <= spent.writes /\ Len(sent[s]) <= MaxWrites
  /\ taken \in [Sock -> 0 .. MaxWrites]

Segmented ==
  /\ buf \in [Sock -> Segments] /\ rx \in [Sock -> Segments]
  /\ wrote \in [Sock -> Segments] /\ sent \in [Sock -> Segments]

Named ==
  /\ inherited \subseteq Clients /\ failed \subseteq Clients
  /\ con \in [Clients -> {"none", "trying", "up", "refused", "reset"}]
  /\ end \in [Sock -> {"open", "eof", "reset"}]

Cancels == sel.cancelled \subseteq Sock

TypeInv == Bounded /\ Segmented /\ Named /\ Cancels

TypeAll == Inv /\ ListInv /\ TypeInv

(***************************************************************************)
(* What asyncio cancels                                                    *)
(***************************************************************************)
LEMMA SelectorCancels ==
  ASSUME Inv, Cancels, NEW t \in Sock, NEW n \in Fds, NEW m \in Mode,
         sel' = AddHandler(sel, t, n, m) \/ sel' = RemoveHandler(sel, t, n, m)
  PROVE  Cancels'
<1>1. SelShape
  BY DEF Inv, EventInv
<1>2. CASE sel' = AddHandler(sel, t, n, m)
  <2>1. CASE Raises(sel, n, m)
    <3>1. sel' = [sel EXCEPT !.key[n] = NoKey]
      BY <1>2, <2>1 DEF AddHandler
    <3> QED  BY <1>1, <3>1 DEF SelShape, Cancels
  <2>2. CASE ~ Raises(sel, n, m)
    <3>1. sel'.cancelled = (sel.cancelled \cup ({sel.key[n][m]} \ {None})) \ {t}
      BY <1>2, <2>2 DEF AddHandler
    <3> QED  BY <1>1, <3>1 DEF SelShape, Cancels
  <2> QED  BY <2>1, <2>2
<1>3. CASE sel' = RemoveHandler(sel, t, n, m)
  <2> DEFINE rest == modes(sel, n) \ {m}
  <2>1. CASE t \in sel.cancelled \/ m \notin modes(sel, n)
    BY <1>3, <2>1 DEF RemoveHandler, Cancels
  <2>2. CASE ~(t \in sel.cancelled \/ m \notin modes(sel, n)) /\ rest # {} /\ sel.epoll[n] = {}
    <3>1. sel' = [sel EXCEPT !.key[n] = NoKey]
      BY <1>3, <2>2 DEF RemoveHandler
    <3> QED  BY <1>1, <3>1 DEF SelShape, Cancels
  <2>3. CASE ~(t \in sel.cancelled \/ m \notin modes(sel, n)) /\ ~(rest # {} /\ sel.epoll[n] = {})
    <3>1. sel' = [key |-> [sel.key EXCEPT ![n][m] = None],
                  epoll |-> [sel.epoll EXCEPT ![n] = rest],
                  cancelled |-> sel.cancelled \cup {sel.key[n][m]}]
      BY <1>3, <2>3, Zenon DEF RemoveHandler
    <3>2. sel.key[n][m] \in Sock
      BY <1>1, <2>3 DEF SelShape, modes
    <3>3. sel'.cancelled = sel.cancelled \cup {sel.key[n][m]}
      BY <3>1
    <3> QED  BY <3>2, <3>3 DEF Cancels
  <2> QED  BY <2>1, <2>2, <2>3
<1> QED  BY <1>2, <1>3

LEMMA CancelsStep ==
  ASSUME Inv, Cancels, [Next]_vars
  PROVE  Cancels'
<1>1. ASSUME sel'.cancelled = sel.cancelled PROVE Cancels'
  BY <1>1 DEF Cancels
<1>2. CASE UNCHANGED vars \/ Select
  BY <1>1, <1>2 DEF vars, loop_vars, Select
<1>3. ASSUME NEW t \in Sock, Resume(t) PROVE Cancels'
  <2>1. CASE Waiting(t)
    <3>1. sel' = RemoveHandler(sel, t, fd[Awaited(t).sock], Awaited(t).mode)
      BY <1>3, <2>1 DEF Resume, Waiting
    <3>2. fd[Awaited(t).sock] \in Fds /\ Awaited(t).mode \in Mode
      BY <2>1, WaitedNumber, AwaitedOf
    <3> QED  BY <3>1, <3>2, SelectorCancels
  <2>2. CASE ~ Waiting(t)
    BY <1>1, <1>3, <2>2 DEF Resume, Waiting
  <2> QED  BY <2>1, <2>2
<1>4. ASSUME NEW t \in Sock, Callback(t) PROVE Cancels'
  BY <1>1, <1>4
  DEF Callback, Cancelled, ConnectCallback, RecvCallback, SendCallback, HandleRuns
<1>5. ASSUME NEW t \in Sock, SockRecv(t) PROVE Cancels'
  <2>1. CASE sel' = sel
    BY <1>1, <2>1
  <2>2. CASE RecvOutcome(t) = "pending" /\ Await(t, fd[t], "recv", "read", "break")
    <3>1. fd[t] \in Fds /\ "read" \in Mode
      BY <2>2, OpenNumber DEF RecvOutcome, Mode
    <3> QED  BY <2>2, <3>1, SelectorCancels DEF Await
  <2> QED  BY <1>5, <2>1, <2>2 DEF SockRecv
<1>6. ASSUME NEW t \in Sock, SockSendall(t) PROVE Cancels'
  <2>1. CASE sel' = sel
    BY <1>1, <2>1
  <2>2. CASE SendOutcome(t) = "pending" /\ Await(t, fd[Other(t)], "sending", "write", "break")
    <3>1. fd[Other(t)] \in Fds /\ "write" \in Mode
      BY <2>2, OpenNumber DEF SendOutcome, Mode
    <3> QED  BY <2>2, <3>1, SelectorCancels DEF Await
  <2> QED  BY <1>6, <2>1, <2>2 DEF SockSendall
<1>7. ASSUME NEW t \in Sock, Leave(t) PROVE Cancels'
  BY <1>1, <1>7 DEF Leave, Dropped
<1>8. ASSUME NEW c \in Clients, Connect(c) PROVE Cancels'
  <2>1. Out(c) \in Sock /\ In(c) \in Sock /\ Out(c) \notin open
    BY <1>8, Ends DEF Connect, Inv, DataInv, Early
  <2>2. Lowest \in Fds /\ "write" \in Mode
    BY <1>8, <2>1, NewNumber DEF Connect, Inv, EventInv, Mode
  <2> QED  BY <1>8, <2>1, <2>2, SelectorCancels DEF Connect, Await
<1>9. ASSUME NEW c \in Clients, Accept(c) \/ Answer(c) \/ Verdict(c) \/ Abort(c) PROVE Cancels'
  <2>1. CASE Abort(c)
    BY <1>1, <2>1, DropEffect DEF Abort
  <2>2. CASE Accept(c) \/ Answer(c) \/ Verdict(c)
    BY <1>1, <2>2 DEF Accept, Answer, Verdict, loop_vars
  <2> QED  BY <1>9, <2>1, <2>2
<1>10. ASSUME NEW s \in Sock, PeerWrites(s) \/ PeerReads(s) \/ PeerEnds(s) PROVE Cancels'
  BY <1>1, <1>10 DEF PeerWrites, PeerReads, PeerEnds, loop_vars
<1> QED  BY <1>2, <1>3, <1>4, <1>5, <1>6, <1>7, <1>8, <1>9, <1>10, Zenon
         DEF Next, Loop, Environment, Coroutine

(***************************************************************************)
(* The small ones                                                          *)
(***************************************************************************)
LEMMA NamedStep ==
  ASSUME Named, [Next]_vars
  PROVE  Named'
<1>1. ASSUME UNCHANGED <<inherited, failed, con, end>> PROVE Named'
  BY <1>1 DEF Named
<1>2. ASSUME NEW c \in Clients, CloseBoth(c), failed' \subseteq Clients PROVE Named'
  BY <1>2 DEF Named, CloseBoth, Gone
<1>3. CASE UNCHANGED vars \/ Select
  BY <1>1, <1>3 DEF vars, Select, task_vars, peer_vars, sock_vars
<1>4. ASSUME NEW t \in Sock, Resume(t) \/ Callback(t) \/ SockRecv(t) \/ SockSendall(t)
      PROVE  Named'
  BY <1>1, <1>4
  DEF Resume, Callback, Cancelled, ConnectCallback, RecvCallback, SendCallback, HandleRuns,
      SockRecv, SockSendall, TakeReceived, SendSome, peer_vars, sock_vars
<1>5. ASSUME NEW t \in Sock, Leave(t) PROVE Named'
  BY <1>2, <1>5, Ends DEF Leave, Named, Sock
<1>6. ASSUME NEW c \in Clients, Connect(c) \/ Accept(c) PROVE Named'
  BY <1>6, Ends DEF Connect, Accept, OpenSocket, Named, peer_vars
<1>7. ASSUME NEW c \in Clients, Answer(c) PROVE Named'
  BY <1>7 DEF Answer, Named, task_vars, sock_vars
<1>8. ASSUME NEW c \in Clients, Verdict(c) PROVE Named'
  BY <1>1, <1>8 DEF Verdict, Decide, peer_vars, sock_vars
<1>9. ASSUME NEW c \in Clients, Abort(c) PROVE Named'
  BY <1>2, <1>9 DEF Abort, Decide, Named
<1>10. ASSUME NEW s \in Sock, PeerWrites(s) \/ PeerReads(s) \/ PeerEnds(s) PROVE Named'
  BY <1>10 DEF PeerWrites, PeerReads, PeerEnds, Named, task_vars, sock_vars
<1> QED  BY <1>3, <1>4, <1>5, <1>6, <1>7, <1>8, <1>9, <1>10, Zenon
         DEF Next, Loop, Environment, Coroutine

(***************************************************************************)
(* Segments and their numbers                                              *)
(***************************************************************************)
LEMMA Cut ==
  ASSUME NEW S, NEW s \in Seq(S), NEW k \in 0 .. Len(s)
  PROVE  SubSeq(s, 1, k) \in Seq(S) /\ SubSeq(s, k + 1, Len(s)) \in Seq(S)
         /\ Len(SubSeq(s, 1, k)) = k
<1>1. Len(s) \in Nat /\ \A i \in 1 .. Len(s) : s[i] \in S
  BY LenProperties, ElementOfSeq
<1>2. \A i \in 1 .. k : s[i] \in S
  BY <1>1
<1>3. \A i \in k + 1 .. Len(s) : s[i] \in S
  BY <1>1
<1> QED  BY <1>1, <1>2, <1>3, SubSeqProperties

LEMMA StillData ==
  ASSUME Bounded, Segmented, UNCHANGED <<buf, rx, wrote, sent, taken, spent>>
  PROVE  Bounded' /\ Segmented'
BY DEF Bounded, Segmented

LEMMA TakingData ==
  ASSUME Bounded, Segmented, NEW t \in Sock, TakeReceived(t)
  PROVE  Bounded' /\ Segmented'
<1>1. /\ buf' = [buf EXCEPT ![t] = Received(t)]
      /\ rx' = [rx EXCEPT ![t] = SubSeq(@, Len(Received(t)) + 1, Len(@))]
      /\ UNCHANGED <<wrote, sent, taken, spent>>
  BY Zenon DEF TakeReceived
<1>2. rx[t] \in Segments
  BY DEF Segmented
<1> DEFINE k == IF Len(rx[t]) < MaxRecv THEN Len(rx[t]) ELSE MaxRecv
<1>3. k \in 0 .. Len(rx[t])
  <2>1. MaxRecv \in Nat /\ Len(rx[t]) \in Nat
    BY <1>2, RelayAssumption, LenProperties DEF Segments
  <2> QED  BY <2>1
<1>4. Received(t) = SubSeq(rx[t], 1, k)
  BY Zenon DEF Received
<1> HIDE DEF k
<1>5. Received(t) \in Segments /\ SubSeq(rx[t], Len(Received(t)) + 1, Len(rx[t])) \in Segments
  BY <1>2, <1>3, <1>4, Cut DEF Segments
<1> QED  BY <1>1, <1>5 DEF Bounded, Segmented

\* While a socket is open, what was passed on is part of what its peer wrote.
LEMMA PassingData ==
  ASSUME DataInv, Bounded, Segmented, NEW t \in Sock, SendSome(t),
         Other(t) \in open, t \in open, open' = open, DataInv'
  PROVE  Bounded' /\ Segmented'
<1>1. PICK k \in 0 .. Len(buf[t]) : Passes(t, k)
  BY SendSomePasses DEF DataInv
<1>2. UNCHANGED <<rx, wrote, taken, spent>>
  BY DEF SendSome
<1>3. buf[t] \in Segments /\ sent[Other(t)] \in Segments /\ Other(t) \in Sock
  BY Others DEF Segmented
<1>4. SubSeq(buf[t], 1, k) \in Segments /\ SubSeq(buf[t], k + 1, Len(buf[t])) \in Segments
  BY <1>3, Cut DEF Segments
<1>5. sent[Other(t)] \o SubSeq(buf[t], 1, k) \in Segments
  BY <1>3, <1>4, ConcatProperties DEF Segments
<1>6. Segmented'
  BY <1>1, <1>2, <1>3, <1>4, <1>5 DEF Passes, Segmented
<1>7. Len(sent'[Other(t)]) <= MaxWrites
  <2>1. /\ wrote'[t] = (sent'[Other(t)] \o buf'[t]) \o rx'[t]
        /\ sent'[Other(t)] \in Data /\ buf'[t] \in Data /\ rx'[t] \in Data
    BY <1>3 DEF DataInv, Shape, NothingLost
  <2> DEFINE a == sent'[Other(t)]  b == buf'[t]  c == rx'[t]
  <2> HIDE DEF a, b, c
  <2>2. a \o b \in Data /\ Len(a \o b) = Len(a) + Len(b) /\ Len(b) \in Nat /\ Len(a) \in Nat
    BY <2>1, ConcatProperties, LenProperties DEF a, b, Data
  <2>3. Len((a \o b) \o c) = Len(a) + Len(b) + Len(c) /\ Len(c) \in Nat
    BY <2>1, <2>2, ConcatProperties, LenProperties DEF c, Data
  <2>4. Len(wrote[t]) <= spent.writes /\ spent.writes \in Nat /\ spent.writes <= MaxWrites
    BY RelayAssumption DEF Bounded
  <2>5. Len(wrote[t]) = Len(a) + Len(b) + Len(c)
    BY <1>2, <2>1, <2>3, Zenon DEF a, b, c
  <2>6. Len(a) <= MaxWrites
    BY <2>2, <2>3, <2>4, <2>5, RelayAssumption
  <2> QED  BY <2>6 DEF a
<1>8. \A s \in Sock : s # Other(t) => sent'[s] = sent[s]
  BY <1>1, <1>3 DEF Passes, Segmented
<1>9. Bounded'
  BY <1>2, <1>7, <1>8 DEF Bounded
<1> QED  BY <1>6, <1>9

LEMMA ClosingData ==
  ASSUME Bounded, Segmented, NEW c \in Clients, CloseBoth(c), UNCHANGED buf,
         spent' = spent \/ Count("trouble", MaxTrouble)
  PROVE  Bounded' /\ Segmented'
<1>1. /\ rx' = [rx EXCEPT ![In(c)] = <<>>, ![Out(c)] = <<>>]
      /\ taken' = [taken EXCEPT ![In(c)] = 0, ![Out(c)] = 0]
      /\ UNCHANGED <<wrote, sent>>
  BY DEF CloseBoth, Gone
<1>2. <<>> \in Segments /\ 0 \in 0 .. MaxWrites
  BY EmptySeq, RelayAssumption DEF Segments
<1>3. rx' \in [Sock -> Segments] /\ taken' \in [Sock -> 0 .. MaxWrites]
  BY <1>1, <1>2 DEF Segmented, Bounded
<1>4. spent' \in [writes : 0 .. MaxWrites, trouble : 0 .. MaxTrouble]
            /\ spent'.writes = spent.writes
  BY RelayAssumption DEF Bounded, Count
<1> QED  BY <1>1, <1>3, <1>4 DEF Bounded, Segmented

LEMMA WritingData ==
  ASSUME Bounded, Segmented, NEW s \in Sock, PeerWrites(s)
  PROVE  Bounded' /\ Segmented'
<1> DEFINE n == Len(wrote[s]) + 1
<1>1. /\ UNCHANGED <<buf, sent, taken>>
      /\ wrote' = [wrote EXCEPT ![s] = Append(wrote[s], n)]
      /\ rx' = [rx EXCEPT ![s] = Append(rx[s], n)]
      /\ spent.writes < MaxWrites /\ spent' = [spent EXCEPT !.writes = @ + 1]
  BY DEF PeerWrites, Count, task_vars
<1>2. /\ wrote[s] \in Segments /\ rx[s] \in Segments /\ Len(wrote[s]) \in Nat
      /\ Len(wrote[s]) <= spent.writes /\ spent.writes \in Nat
  BY LenProperties, RelayAssumption DEF Segmented, Segments, Bounded
<1>3. n \in 1 .. MaxWrites
  BY <1>1, <1>2, RelayAssumption
<1>4. /\ Append(wrote[s], n) \in Segments /\ Append(rx[s], n) \in Segments
      /\ Len(Append(wrote[s], n)) = n
  BY <1>2, <1>3, AppendProperties DEF Segments
<1> HIDE DEF n
<1>5. Segmented'
  BY <1>1, <1>4 DEF Segmented
<1>6. /\ spent' \in [writes : 0 .. MaxWrites, trouble : 0 .. MaxTrouble]
      /\ spent'.writes = spent.writes + 1
  BY <1>1, RelayAssumption, SMTT(30) DEF Bounded
<1>7. n <= spent'.writes
  BY <1>2, <1>6 DEF n
<1>8. ASSUME NEW r \in Sock PROVE Len(wrote'[r]) <= spent'.writes
  <2>1. CASE r = s
    BY <1>1, <1>4, <1>7, <2>1 DEF Segmented
  <2>2. CASE r # s
    <3>1. wrote'[r] = wrote[r] /\ Len(wrote[r]) \in Nat /\ Len(wrote[r]) <= spent.writes
      BY <1>1, <2>2, LenProperties DEF Segmented, Segments, Bounded
    <3> QED  BY <1>2, <1>6, <3>1
  <2> QED  BY <2>1, <2>2
<1> QED  BY <1>1, <1>5, <1>6, <1>8 DEF Bounded

LEMMA ReadingData ==
  ASSUME Bounded, Segmented, NEW s \in Sock, PeerReads(s)
  PROVE  Bounded' /\ Segmented'
<1>1. /\ UNCHANGED <<buf, rx, wrote, sent, spent>>
      /\ taken' = [taken EXCEPT ![s] = @ + 1] /\ taken[s] < Len(sent[s])
  BY DEF PeerReads, task_vars
<1>2. Len(sent[s]) \in Nat /\ Len(sent[s]) <= MaxWrites /\ taken[s] \in Nat
  BY LenProperties, RelayAssumption DEF Segmented, Segments, Bounded
<1>3. taken[s] + 1 \in 0 .. MaxWrites
  BY <1>1, <1>2, RelayAssumption
<1> QED  BY <1>1, <1>3 DEF Bounded, Segmented

LEMMA TroubleData ==
  ASSUME Bounded, Segmented, UNCHANGED <<buf, rx, wrote, sent, taken>>,
         spent' = spent \/ Count("trouble", MaxTrouble)
  PROVE  Bounded' /\ Segmented'
<1>1. spent' \in [writes : 0 .. MaxWrites, trouble : 0 .. MaxTrouble]
            /\ spent'.writes = spent.writes
  BY RelayAssumption DEF Bounded, Count
<1> QED  BY <1>1 DEF Bounded, Segmented

LEMMA DataStep ==
  ASSUME DataInv, DataInv', Bounded, Segmented, [Next]_vars
  PROVE  Bounded' /\ Segmented'
<1>1. CASE UNCHANGED vars \/ Select
  BY <1>1, StillData DEF vars, Select, task_vars, peer_vars
<1>2. ASSUME NEW t \in Sock, Resume(t) \/ Cancelled(t) \/ ConnectCallback(t)
      PROVE  Bounded' /\ Segmented'
  BY <1>2, StillData DEF Resume, Cancelled, ConnectCallback, peer_vars
<1>3. ASSUME NEW t \in Sock, RecvCallback(t) \/ SockRecv(t) PROVE Bounded' /\ Segmented'
  BY <1>3, StillData, TakingData DEF RecvCallback, SockRecv, peer_vars
<1>4. ASSUME NEW t \in Sock, SendCallback(t) \/ SockSendall(t) PROVE Bounded' /\ Segmented'
  <2>1. CASE UNCHANGED <<buf, peer_vars>>
    BY <2>1, StillData DEF peer_vars
  <2>2. CASE SendSome(t) /\ SendOutcome(t) # "error"
    <3>1. open' = open
      BY <1>4 DEF SendCallback, SockSendall, HandleRuns, sock_vars
    <3>2. Other(t) \in open /\ at[t] \in {"send", "sending"}
      BY <1>4, <2>2 DEF SendCallback, SockSendall, SendOutcome
    <3>3. t \in open
      BY <3>2, BothOpen
    <3> QED  BY <2>2, <3>1, <3>2, <3>3, PassingData
  <2> QED  BY <1>4, <2>1, <2>2 DEF SendCallback, SockSendall
<1>5. ASSUME NEW t \in Sock, Leave(t) PROVE Bounded' /\ Segmented'
  BY <1>5, ClosingData, Ends DEF Leave, Sock
<1>6. ASSUME NEW c \in Clients, Connect(c) \/ Accept(c) \/ Verdict(c)
      PROVE  Bounded' /\ Segmented'
  BY <1>6, StillData DEF Connect, Accept, Verdict, Decide, peer_vars
<1>7. ASSUME NEW c \in Clients, Abort(c) PROVE Bounded' /\ Segmented'
  BY <1>7, ClosingData DEF Abort, Decide
<1>8. ASSUME NEW c \in Clients, Answer(c) PROVE Bounded' /\ Segmented'
  BY <1>8, TroubleData DEF Answer, task_vars
<1>9. ASSUME NEW s \in Sock, PeerEnds(s) PROVE Bounded' /\ Segmented'
  BY <1>9, TroubleData DEF PeerEnds, task_vars
<1>10. ASSUME NEW s \in Sock, PeerWrites(s) \/ PeerReads(s) PROVE Bounded' /\ Segmented'
  BY <1>10, WritingData, ReadingData
<1> QED  BY <1>1, <1>2, <1>3, <1>4, <1>5, <1>6, <1>7, <1>8, <1>9, <1>10, Zenon
         DEF Next, Loop, Environment, Coroutine, Callback

LEMMA TypesInitially ==
  ASSUME Init
  PROVE  TypeAll
<1>1. Inv /\ ListInv
  BY EventsInitially, ListInitially
<1>2. <<>> \in Segments /\ Len(<<>>) = 0 /\ MaxWrites \in Nat /\ MaxTrouble \in Nat
  BY EmptySeq, RelayAssumption DEF Segments
<1>3. Segmented
  BY <1>2 DEF Init, Segmented
<1>4. Bounded
  BY <1>2 DEF Init, Bounded
<1>5. Named /\ Cancels
  BY DEF Init, Named, Cancels
<1> QED  BY <1>1, <1>3, <1>4, <1>5 DEF TypeAll, TypeInv

LEMMA TypesStep ==
  ASSUME TypeAll, [Next]_vars
  PROVE  TypeAll'
<1>1. Inv' /\ ListInv'
  BY EventsStep, ListStep DEF TypeAll
<1>2. Bounded' /\ Segmented'
  BY <1>1, DataStep DEF TypeAll, TypeInv, Inv
<1>3. Named' /\ Cancels'
  BY NamedStep, CancelsStep DEF TypeAll, TypeInv
<1> QED  BY <1>1, <1>2, <1>3 DEF TypeAll, TypeInv

LEMMA TypesGiveTypeOK ==
  ASSUME TypeAll
  PROVE  TypeOK
<1>1. /\ fd \in [Sock -> Fds \cup {0}] /\ open \subseteq Sock
      /\ at \in [Sock -> Place] /\ fut \in [Sock -> {"none", "pending", "data", "ok", "error"}]
  BY DEF TypeAll, Inv, DataInv, Shape, EventInv, Numbers
<1>2. sel \in [key : [Fds -> [Mode -> Sock \cup {None}]],
               epoll : [Fds -> SUBSET Mode], cancelled : SUBSET Sock]
  BY DEF TypeAll, Inv, EventInv, SelShape, TypeInv, Cancels
<1>3. /\ ready \in Seq(Item) /\ batch \in 0 .. Len(ready) /\ cur \in Sock \cup {None}
      /\ verdict \in [Clients -> {"none", "good", "bad"}]
  BY DEF TypeAll, ListInv, Queue
<1> QED  BY <1>1, <1>2, <1>3
         DEF TypeAll, TypeInv, Bounded, Segmented, Named, TypeOK

\* The bounds of the model are those of its data: no stream grows beyond what its peers
\* write, nothing but tasks is ever cancelled, and each variable keeps its type.
THEOREM TypeCorrect == Spec => []TypeOK
<1>1. Init => TypeAll
  BY TypesInitially
<1>2. TypeAll /\ [Next]_vars => TypeAll'
  BY TypesStep
<1>3. TypeAll => TypeOK
  BY TypesGiveTypeOK
<1> QED  BY <1>1, <1>2, <1>3, PTL DEF Spec

(***************************************************************************)
(* No wake-up is lost                                                      *)
(***************************************************************************)
Cared(t) ==
  \/ cur = t \/ fut[t] = "pending" \/ HasItem(t)
  \/ at[t] = "gate" /\ verdict[t[1]] = "none"

Caring == \A t \in Sock : Begun(t) => Cared(t)

CareAll == Inv /\ ListInv /\ Caring

LEMMA ItemsKept ==
  ASSUME ready \in Seq(Item), NEW x \in Item
  PROVE  /\ ready' = Append(ready, x) =>
              HasItem(x.task)' /\ \A u \in Sock : HasItem(u) => HasItem(u)'
         /\ ready # <<>> /\ ready' \in {Tail(ready), Append(Tail(ready), x)} =>
              \A u \in Sock : HasItem(u) /\ u # ready[1].task => HasItem(u)'
         /\ ready # <<>> /\ ready' = Append(Tail(ready), x) => HasItem(x.task)'
<1>1. Len(ready) \in Nat
  BY LenProperties
<1>2. ASSUME ready' = Append(ready, x)
      PROVE  HasItem(x.task)' /\ \A u \in Sock : HasItem(u) => HasItem(u)'
  <2>1. /\ Len(ready') = Len(ready) + 1 /\ ready'[Len(ready) + 1] = x
        /\ \A i \in 1 .. Len(ready) : ready'[i] = ready[i]
    BY <1>2, AppendProperties
  <2> QED  BY <1>1, <2>1 DEF HasItem
<1> DEFINE q == Tail(ready)
<1>3. ASSUME ready # <<>>
      PROVE  /\ q \in Seq(Item) /\ Len(q) = Len(ready) - 1 /\ Len(ready) >= 1
             /\ \A i \in 1 .. Len(ready) - 1 : q[i] = ready[i + 1]
             /\ Len(Append(q, x)) = Len(q) + 1 /\ Append(q, x)[Len(q) + 1] = x
             /\ \A i \in 1 .. Len(q) : Append(q, x)[i] = q[i]
  <2>1. /\ q \in Seq(Item) /\ Len(q) = Len(ready) - 1 /\ Len(ready) >= 1
        /\ \A i \in 1 .. Len(ready) - 1 : q[i] = ready[i + 1]
    BY <1>1, <1>3, HeadTailProperties, EmptySeq
  <2> HIDE DEF q
  <2> QED  BY <2>1, AppendProperties
<1> HIDE DEF q
<1>4. ASSUME ready # <<>>, ready' \in {Tail(ready), Append(Tail(ready), x)},
             NEW u \in Sock, HasItem(u), u # ready[1].task
      PROVE  HasItem(u)'
  <2>1. PICK i \in 1 .. Len(ready) : ready[i].task = u
    BY <1>4 DEF HasItem
  <2>2. i # 1
    BY <1>4, <2>1
  <2>3. PICK j \in 1 .. Len(ready) - 1 : i = j + 1
    <3>1. i - 1 \in 1 .. Len(ready) - 1 /\ i = (i - 1) + 1
      BY <1>1, <2>2
    <3> QED  BY <3>1
  <2>4. ready' = q \/ ready' = Append(q, x)
    BY <1>4 DEF q
  <2>5. j \in 1 .. Len(ready') /\ ready'[j].task = u
    BY <1>1, <1>3, <1>4, <2>1, <2>3, <2>4
  <2> QED  BY <2>5 DEF HasItem
<1>5. ASSUME ready # <<>>, ready' = Append(Tail(ready), x) PROVE HasItem(x.task)'
  <2>1. ready' = Append(q, x)
    BY <1>5 DEF q
  <2>2. Len(q) + 1 \in 1 .. Len(ready') /\ ready'[Len(q) + 1].task = x.task
    BY <1>1, <1>3, <1>5, <2>1
  <2> QED  BY <2>2 DEF HasItem
<1> QED  BY <1>2, <1>4, <1>5

\* What becomes of the others, when the head of the list runs.
LEMMA OthersCared ==
  ASSUME CareAll, NEW t \in Sock, NEW run \in {"start", "event", "wake"}, Runs(t, run),
         NEW x \in Item, ready' \in {Tail(ready), Append(Tail(ready), x)},
         NEW u \in Sock, u # t, at'[u] = at[u], fut'[u] = fut[u], verdict' = verdict
  PROVE  Begun(u)' => Cared(u)'
<1>1. ready # <<>> /\ ready[1].task = t /\ cur = None /\ ready \in Seq(Item)
  BY HeadItem DEF CareAll, ListInv, Queue
<1>2. HasItem(u) => HasItem(u)'
  BY <1>1, ItemsKept
<1> QED  BY <1>1, <1>2, NoneIsNoSocket DEF CareAll, Caring, Cared, Begun

LEMMA ResumeCare ==
  ASSUME CareAll, NEW t \in Sock, Resume(t)
  PROVE  Caring'
<1>1. Inv /\ ListInv
  BY DEF CareAll
<1>2. PICK run \in {"start", "event", "wake"} : Runs(t, run)
  BY <1>1, Resumed
<1>3. /\ fut' = [fut EXCEPT ![t] = "none"] /\ verdict' = verdict /\ ready # <<>>
      /\ \A u \in Sock : u # t => fut'[u] = fut[u]
  BY <1>1, <1>2, Resumed, HeadItem, Types
<1> DEFINE wake == [task |-> t, run |-> "wake"]
           start == [task |-> Other(t), run |-> "start"]
<1>4. wake \in Item /\ start \in Item /\ wake.task = t /\ start.task = Other(t)
  BY Others DEF Item
<1>5. at \in [Sock -> Place] /\ ready \in Seq(Item)
  BY <1>1, Types DEF ListInv, Queue
<1>6. \/ /\ cur' = t /\ ready' = Tail(ready) /\ \E p \in Place : at' = [at EXCEPT ![t] = p]
      \/ /\ at' = [at EXCEPT ![t] = "gate"]
         /\ ready' = IF verdict[t[1]] = "none" THEN Tail(ready) ELSE Append(Tail(ready), wake)
      \/ /\ cur' = t /\ ready' = Append(Tail(ready), start)
         /\ at' = [at EXCEPT ![t] = "receive", ![Other(t)] = "receive"]
  <2>1. CASE at[t] = "connect" /\ fut[t] = "ok" /\ WaitVerdict(t)
    BY <2>1, Zenon DEF WaitVerdict
  <2>2. CASE at[t] = "connect" /\ fut[t] # "ok" /\ GoOn(t, "failed")
    BY <2>2 DEF GoOn, Place
  <2>3. CASE at[t] = "gate" /\ ActOnVerdict(t)
    <3>1. CASE verdict[t[1]] = "good"
      BY <2>3, <3>1, Zenon DEF ActOnVerdict
    <3>2. CASE verdict[t[1]] # "good"
      BY <2>3, <3>2 DEF ActOnVerdict, Place
    <3> QED  BY <3>1, <3>2
  <2>4. CASE at[t] = "recv" /\ GoOn(t, IF fut[t] = "data" THEN "send" ELSE "break")
    BY <2>4 DEF GoOn, Place
  <2>5. CASE at[t] = "sending" /\ GoOn(t, IF fut[t] = "ok" THEN "receive" ELSE "break")
    BY <2>5 DEF GoOn, Place
  <2>6. CASE at[t] \notin {"connect", "gate", "recv", "sending"} /\ GoOn(t, at[t])
    BY <1>5, <2>6 DEF GoOn
  <2> QED  BY <2>1, <2>2, <2>3, <2>4, <2>5, <2>6, Zenon DEF Resume
<1> HIDE DEF wake, start
<1>7. PICK x \in Item : ready' \in {Tail(ready), Append(Tail(ready), x)}
  BY <1>4, <1>6
<1>8. ASSUME NEW u \in Sock, Begun(u)' PROVE Cared(u)'
  <2>1. CASE u # t /\ at'[u] = at[u]
    BY <1>2, <1>3, <1>7, <1>8, <2>1, OthersCared
  <2>2. CASE u = t
    <3>1. CASE cur' = t
      BY <2>2, <3>1 DEF Cared
    <3>2. CASE /\ at' = [at EXCEPT ![t] = "gate"]
               /\ ready' = IF verdict[t[1]] = "none" THEN Tail(ready)
                           ELSE Append(Tail(ready), wake)
      <4>1. CASE verdict[t[1]] = "none"
        BY <1>3, <1>5, <2>2, <3>2, <4>1 DEF Cared
      <4>2. CASE verdict[t[1]] # "none"
        BY <1>3, <1>4, <1>5, <2>2, <3>2, <4>2, ItemsKept DEF Cared
      <4> QED  BY <4>1, <4>2
    <3> QED  BY <1>6, <3>1, <3>2
  <2>3. CASE u # t /\ at'[u] # at[u]
    <3>1. u = Other(t) /\ ready' = Append(Tail(ready), start)
      BY <1>5, <1>6, <2>3
    <3> QED  BY <1>3, <1>4, <1>5, <3>1, ItemsKept DEF Cared
  <2> QED  BY <2>1, <2>2, <2>3
<1> QED  BY <1>8 DEF Caring

LEMMA CallbackCare ==
  ASSUME CareAll, NEW t \in Sock, Callback(t)
  PROVE  Caring'
<1>1. Inv /\ ListInv
  BY DEF CareAll
<1> DEFINE wake == [task |-> t, run |-> "wake"]
<1>2. wake \in Item /\ wake.task = t
  BY DEF Item
<1>3. /\ Runs(t, "event") /\ UNCHANGED <<at, verdict>>
      /\ \/ fut' = fut /\ ready' = Tail(ready)
         \/ (\E r \in Results : fut' = [fut EXCEPT ![t] = r]) /\ ready' = Append(Tail(ready), wake)
  BY <1>1, CalledBack
<1> HIDE DEF wake
<1>4. fut[t] = "pending" /\ ready # <<>> /\ ready \in Seq(Item)
  BY <1>1, <1>3, HeadItem DEF ListInv, Queue
<1>5. \A u \in Sock : u # t => fut'[u] = fut[u]
  BY <1>1, <1>3, Types
<1>6. ASSUME NEW u \in Sock, Begun(u)' PROVE Cared(u)'
  <2>1. CASE u # t
    <3>1. ready' \in {Tail(ready), Append(Tail(ready), wake)} /\ at'[u] = at[u]
      BY <1>3
    <3> QED  BY <1>2, <1>3, <1>5, <1>6, <2>1, <3>1, OthersCared
  <2>2. CASE u = t
    BY <1>2, <1>3, <1>4, <2>2, ItemsKept DEF Cared
  <2> QED  BY <2>1, <2>2
<1> QED  BY <1>6 DEF Caring

LEMMA AdvanceCare ==
  ASSUME CareAll, NEW t \in Sock, Advances(t)
  PROVE  Caring'
<1>1. ASSUME NEW u \in Sock, Begun(u)' PROVE Cared(u)'
  <2>1. CASE u = t
    BY <1>1, <2>1 DEF Advances, Cared, Begun
  <2>2. CASE u # t
    BY <1>1, <2>2 DEF Advances, CareAll, Caring, Cared, Begun, HasItem
  <2> QED  BY <2>1, <2>2
<1> QED  BY <1>1 DEF Caring

LEMMA AcceptCare ==
  ASSUME CareAll, NEW c \in Clients, Accept(c)
  PROVE  Caring'
<1> DEFINE x == [task |-> In(c), run |-> "start"]
<1>1. x \in Item /\ x.task = In(c) /\ In(c) \in Sock
  BY Ends DEF Item
<1>2. /\ at' = [at EXCEPT ![In(c)] = "start"] /\ ready' = Append(ready, x)
      /\ UNCHANGED <<cur, fut, verdict>>
  BY DEF Accept
<1> HIDE DEF x
<1>3. ready \in Seq(Item) /\ at \in [Sock -> Place]
  BY Types DEF CareAll, ListInv, Queue
<1>4. HasItem(In(c))' /\ \A u \in Sock : HasItem(u) => HasItem(u)'
  BY <1>1, <1>2, <1>3, ItemsKept
<1>5. \A u \in Sock : u # In(c) => at'[u] = at[u]
  BY <1>2, <1>3
<1> QED  BY <1>2, <1>4, <1>5 DEF CareAll, Caring, Cared, Begun

LEMMA DecideCare ==
  ASSUME CareAll, NEW c \in Clients, NEW v, Decide(c, v)
  PROVE  Caring'
<1> DEFINE x == [task |-> In(c), run |-> "wake"]
<1>1. x \in Item /\ x.task = In(c)
  BY Ends DEF Item
<1>2. /\ verdict' = [verdict EXCEPT ![c] = v] /\ UNCHANGED <<cur, at, fut>>
      /\ ready' = IF at[In(c)] = "gate" THEN Append(ready, x) ELSE ready
  BY Zenon DEF Decide, Wake
<1> HIDE DEF x
<1>3. ready \in Seq(Item) /\ verdict \in [Clients -> {"none", "good", "bad"}]
  BY DEF CareAll, ListInv, Queue
<1>4. \A u \in Sock : HasItem(u) => HasItem(u)'
  <2>1. CASE at[In(c)] = "gate"
    BY <1>1, <1>2, <1>3, <2>1, ItemsKept
  <2>2. CASE at[In(c)] # "gate"
    BY <1>2, <2>2 DEF HasItem
  <2> QED  BY <2>1, <2>2
<1>5. ASSUME NEW u \in Sock, at[u] = "gate" PROVE HasItem(u)' \/ verdict'[u[1]] = verdict[u[1]]
  <2>1. PICK d \in Clients : (u = In(d) \/ u = Out(d)) /\ u[1] = d
    BY Ends
  <2>2. u = In(d)
    BY <1>5, <2>1 DEF CareAll, Inv, DataInv, Early
  <2>3. CASE d = c
    BY <1>1, <1>2, <1>3, <1>5, <2>2, <2>3, ItemsKept
  <2>4. CASE d # c
    BY <1>2, <1>3, <2>1, <2>4
  <2> QED  BY <2>3, <2>4
<1> QED  BY <1>2, <1>4, <1>5 DEF CareAll, Caring, Cared, Begun

LEMMA SelectCare ==
  ASSUME CareAll, Select
  PROVE  Caring'
<1>1. /\ UNCHANGED <<cur, at, fut, verdict>> /\ Len(ready) <= Len(ready')
      /\ \A i \in 1 .. Len(ready) : ready'[i] = ready[i]
      /\ Len(ready) \in Nat /\ Len(ready') \in Nat
  BY Selected, LenProperties DEF CareAll, ListInv, Queue
<1>2. \A u \in Sock : HasItem(u) => HasItem(u)'
  BY <1>1 DEF HasItem
<1> QED  BY <1>1, <1>2 DEF CareAll, Caring, Cared, Begun

LEMMA CareStep ==
  ASSUME CareAll, [Next]_vars
  PROVE  CareAll'
<1>1. Inv /\ ListInv /\ Inv' /\ ListInv'
  BY EventsStep, ListStep DEF CareAll
<1>2. ASSUME UNCHANGED <<ready, cur, verdict, at, fut>> PROVE Caring'
  BY <1>2 DEF CareAll, Caring, Cared, Begun, HasItem
<1>3. CASE UNCHANGED vars
  BY <1>1, <1>2, <1>3 DEF CareAll, vars, loop_vars, task_vars
<1>4. CASE Select
  BY <1>1, <1>4, SelectCare DEF CareAll
<1>5. ASSUME NEW t \in Sock, Resume(t) \/ Callback(t) \/ Coroutine(t) PROVE Caring'
  BY <1>1, <1>5, ResumeCare, CallbackCare, CoroutineAdvances, AdvanceCare
<1>6. ASSUME NEW c \in Clients, Connect(c) PROVE Caring'
  BY <1>1, <1>6, ConnectAdvances, AdvanceCare, Ends
<1>7. ASSUME NEW c \in Clients, Accept(c) PROVE Caring'
  BY <1>7, AcceptCare
<1>8. ASSUME NEW c \in Clients, Verdict(c) \/ Abort(c) PROVE Caring'
  BY <1>8, DecideCare DEF Verdict, Abort
<1>9. ASSUME NEW c \in Clients, Answer(c) PROVE Caring'
  BY <1>2, <1>9 DEF Answer, loop_vars, task_vars
<1>10. ASSUME NEW s \in Sock, PeerWrites(s) \/ PeerReads(s) \/ PeerEnds(s) PROVE Caring'
  BY <1>2, <1>10 DEF PeerWrites, PeerReads, PeerEnds, loop_vars, task_vars
<1>11. CASE Next
  BY <1>1, <1>4, <1>5, <1>6, <1>7, <1>8, <1>9, <1>10, <1>11, Zenon
  DEF CareAll, Next, Loop, Environment
<1> QED  BY <1>3, <1>11

\* asyncio forgets no task of a relay: one that has begun runs, is on the loop's list,
\* is waiting for the selector, or waits for a verdict that is still to come; a verdict
\* that comes before its task waits for it is not lost (handle, fake_tcp.py:122).
THEOREM NoLostWakeup == Spec => []NoTaskForgotten
<1>1. Init => CareAll
  <2>1. Init => Inv /\ ListInv
    BY EventsInitially, ListInitially
  <2>2. Init => Caring
    BY DEF Init, Caring, Begun
  <2> QED  BY <2>1, <2>2 DEF CareAll
<1>2. CareAll /\ [Next]_vars => CareAll'
  BY CareStep
<1>3. CareAll => NoTaskForgotten
  BY DEF CareAll, Caring, Cared, HasItem, NoTaskForgotten
<1> QED  BY <1>1, <1>2, <1>3, PTL DEF Spec

(***************************************************************************)
(* When a client is told that the server could not be reached              *)
(***************************************************************************)
Excused(c) == con[c] \in {"refused", "reset"} \/ c \in inherited \/ verdict[c] = "bad"

HasEvent(t) == \E i \in 1 .. Len(ready) : ready[i] = [task |-> t, run |-> "event"]

Answered(c) == con[c] \in {"up", "refused", "reset"}

\* The connect of c fails, or is reported as failed, for a reason; what the selector
\* said of it, it said after the server's answer.
Excusing(c) ==
  /\ c \in failed \/ at[In(c)] = "failed" => Excused(c)
  /\ at[In(c)] = "connect" /\ fut[In(c)] \notin {"pending", "ok"} => Excused(c)
  /\ at[In(c)] = "connect" /\ Out(c) \notin open => verdict[c] = "bad"
  /\ at[In(c)] = "connect" /\ HasEvent(In(c)) => Answered(c)
  /\ at[In(c)] \in {"new", "start"} => con[c] = "none"
  /\ con[c] \in {"up", "reset"} \/ end[Out(c)] = "open"

ExcuseAll == TypeAll /\ \A c \in Clients : Excusing(c)

\* What a step may do to c without giving an excuse.
Minor(c) ==
  /\ con'[c] = con[c] \/ (con[c] = "up" /\ con'[c] = "reset")
  /\ inherited \subseteq inherited'
  /\ verdict'[c] = verdict[c] \/ verdict[c] = "none"
  /\ c \in failed' => c \in failed \/ Excused(c)
  /\ Out(c) \in open /\ Out(c) \notin open' => at'[In(c)] # "connect" \/ verdict'[c] = "bad"
  /\ end'[Out(c)] \in {end[Out(c)], "open"} \/ con[c] = "up"
  /\ \/ at'[In(c)] = at[In(c)]
     \/ at'[In(c)] \notin {"new", "start", "connect", "failed"}
     \/ at'[In(c)] = "start" /\ at[In(c)] = "new"
     \/ at'[In(c)] = "failed" /\ Excused(c)
  /\ \/ fut'[In(c)] = fut[In(c)]
     \/ at'[In(c)] # "connect" \/ fut'[In(c)] = "ok" \/ Excused(c)
  /\ HasEvent(In(c))' => HasEvent(In(c)) \/ at[In(c)] # "connect" \/ Answered(c)

LEMMA MinorStep ==
  ASSUME NEW c \in Clients, Excusing(c), Minor(c)
  PROVE  Excusing(c)'
<1>1. Excused(c) => Excused(c)'
  BY DEF Excused, Minor
<1>2. Answered(c) => Answered(c)'
  BY DEF Answered, Minor
<1> QED  BY <1>1, <1>2 DEF Excusing, Minor

\* A list to which no event is added.
LEMMA NoNewEvent ==
  ASSUME ready \in Seq(Item), NEW x \in Item, x.run # "event",
         \/ ready' \in {ready, Append(ready, x)}
         \/ ready # <<>> /\ ready' \in {Tail(ready), Append(Tail(ready), x)}
  PROVE  \A t \in Sock : HasEvent(t)' => HasEvent(t)
<1>1. Len(ready) \in Nat
  BY LenProperties
<1>2. PICK k \in {0, 1} : Moved(k, {x}) \/ Moved(k, {})
  BY ListMoves
<1>3. Len(ready') \in Nat
  BY <1>2, LenProperties DEF Moved
<1> SUFFICES ASSUME NEW t \in Sock, HasEvent(t)' PROVE HasEvent(t)
  OBVIOUS
<1>4. PICK i \in 1 .. Len(ready') : ready'[i] = [task |-> t, run |-> "event"]
  BY DEF HasEvent
<1>5. ready'[i] # x
  BY <1>4
<1>6. i + k <= Len(ready) /\ ready'[i] = ready[i + k]
  BY <1>2, <1>5 DEF Moved
<1>7. i + k \in 1 .. Len(ready)
  BY <1>1, <1>3, <1>6
<1> QED  BY <1>4, <1>6, <1>7 DEF HasEvent

LEMMA ExcuseTypes ==
  ASSUME TypeAll
  PROVE  /\ Inv /\ ListInv /\ Named /\ ready \in Seq(Item)
         /\ at \in [Sock -> Place]
         /\ fut \in [Sock -> {"none", "pending", "data", "ok", "error"}]
         /\ verdict \in [Clients -> {"none", "good", "bad"}]
         /\ con \in [Clients -> {"none", "trying", "up", "refused", "reset"}]
         /\ end \in [Sock -> {"open", "eof", "reset"}]
BY Types DEF TypeAll, TypeInv, Named, ListInv, Queue

LEMMA SelectExcuse ==
  ASSUME ExcuseAll, Select, NEW c \in Clients
  PROVE  Minor(c)
<1>1. Inv /\ ListInv /\ In(c) \in Sock /\ Out(c) \in Sock /\ Excusing(c) /\ In(c)[1] = c
  BY ExcuseTypes, Ends DEF ExcuseAll
<1>2. UNCHANGED <<con, end, failed, open, inherited, verdict, at, fut>>
  BY DEF Select, task_vars, peer_vars, sock_vars
<1>3. ASSUME HasEvent(In(c))', at[In(c)] = "connect" PROVE HasEvent(In(c)) \/ Answered(c)
  <2>1. PICK i \in 1 .. Len(ready') : ready'[i] = [task |-> In(c), run |-> "event"]
    BY <1>3 DEF HasEvent
  <2>2. Len(ready) \in Nat /\ Len(ready') \in Nat
    BY <1>1, Selected, LenProperties DEF ListInv, Queue
  <2>3. CASE i <= Len(ready)
    BY <1>1, <2>1, <2>2, <2>3, Selected DEF HasEvent
  <2>4. CASE i > Len(ready)
    <3>1. In(c) \in Reported
      BY <1>1, <2>1, <2>4, Selected
    <3>2. PICK s \in open : \E m \in sel.epoll[fd[s]] :
            sel.key[fd[s]][m] = In(c) /\ IF m = "read" THEN Readable(s) ELSE Writable(s)
      BY <3>1 DEF Reported
    <3>3. PICK m \in sel.epoll[fd[s]] :
            sel.key[fd[s]][m] = In(c) /\ IF m = "read" THEN Readable(s) ELSE Writable(s)
      BY <3>2
    <3>4. fut[In(c)] = "pending"
      BY <1>1, <3>1, ReportedIs
    <3>5. Awaited(In(c)) = [sock |-> s, mode |-> m]
      BY <1>1, <3>3, <3>4, InvGivesOwnEvents DEF OwnEvents
    <3>6. Awaited(In(c)) = [sock |-> Out(c), mode |-> "write"]
      BY <1>1, <1>3, AwaitedIs
    <3>7. s = Out(c) /\ m = "write"
      BY <3>5, <3>6
    <3>8. Writable(Out(c)) /\ Out(c)[1] = c /\ Out(c)[2] = "out"
      BY <3>3, <3>7, Ends DEF Out
    <3> QED  BY <1>1, <3>8 DEF Writable, Excusing, Answered
  <2> QED  BY <2>2, <2>3, <2>4
<1> QED  BY <1>2, <1>3 DEF Minor

LEMMA ResumeExcuse ==
  ASSUME ExcuseAll, NEW t \in Sock, Resume(t), NEW c \in Clients
  PROVE  Minor(c)
<1>1. Inv /\ ListInv /\ In(c) \in Sock /\ Excusing(c) /\ ready \in Seq(Item)
  BY ExcuseTypes, Ends DEF ExcuseAll
<1>2. UNCHANGED <<con, end, failed, open, inherited, verdict>>
  BY DEF Resume, peer_vars, sock_vars
<1>3. PICK run \in {"start", "wake"} : Runs(t, run)
  BY DEF Resume
<1>4. ready # <<>>
  BY <1>1, <1>3, HeadItem
<1>5. HasEvent(In(c))' => HasEvent(In(c))
  BY <1>1, <1>4, Resumed, NoNewEvent
<1>6. /\ at[t] # "failed" /\ (at[t] = "connect" => fut[t] # "pending")
      /\ at \in [Sock -> Place]
  BY <1>1, <1>3, HeadItem, ExcuseTypes DEF ExcuseAll, Results, Waiting
<1>7. /\ at'[t] \notin {"new", "connect"} /\ (at'[t] = "start" => at[t] = "start")
      /\ at'[t] = "failed" => at[t] = "connect" /\ fut[t] \notin {"ok", "pending"}
  <2>1. ~Waiting(t)' /\ at'[t] # "new"
    BY <1>1, Resumed
  <2>2. CASE at[t] = "connect" /\ fut[t] = "ok" /\ WaitVerdict(t)
    BY <1>6, <2>2 DEF WaitVerdict
  <2>3. CASE at[t] = "connect" /\ fut[t] # "ok" /\ GoOn(t, "failed")
    BY <1>6, <2>3 DEF GoOn
  <2>4. CASE at[t] = "gate" /\ ActOnVerdict(t)
    BY <1>6, <2>4, Others DEF ActOnVerdict
  <2>5. CASE at[t] = "recv" /\ GoOn(t, IF fut[t] = "data" THEN "send" ELSE "break")
    BY <1>6, <2>5 DEF GoOn
  <2>6. CASE at[t] = "sending" /\ GoOn(t, IF fut[t] = "ok" THEN "receive" ELSE "break")
    BY <1>6, <2>6 DEF GoOn
  <2>7. CASE at[t] \notin {"connect", "gate", "recv", "sending"} /\ GoOn(t, at[t])
    BY <1>6, <2>1, <2>7 DEF GoOn, Waiting
  <2> QED  BY <2>2, <2>3, <2>4, <2>5, <2>6, <2>7, Zenon DEF Resume
<1>8. CASE t = In(c)
  BY <1>1, <1>2, <1>5, <1>6, <1>7, <1>8 DEF Minor, Excusing
<1>9. CASE t # In(c)
  <2>1. fut'[In(c)] = fut[In(c)] /\ (at'[In(c)] = at[In(c)] \/ at'[In(c)] = "receive")
    BY <1>1, <1>9, Resumed, ExcuseTypes DEF ExcuseAll
  <2> QED  BY <1>2, <1>5, <2>1 DEF Minor
<1> QED  BY <1>8, <1>9

LEMMA CallbackExcuse ==
  ASSUME ExcuseAll, NEW t \in Sock, Callback(t), NEW c \in Clients
  PROVE  Minor(c)
<1>1. Inv /\ ListInv /\ In(c) \in Sock /\ Excusing(c) /\ ready \in Seq(Item) /\ In(c)[1] = c
  BY ExcuseTypes, Ends DEF ExcuseAll
<1>2. UNCHANGED <<at, con, end, failed, open, inherited, verdict>>
  BY DEF Callback, Cancelled, ConnectCallback, RecvCallback, SendCallback, HandleRuns,
         TakeReceived, SendSome, peer_vars, sock_vars
<1>3. Runs(t, "event") /\ fut[t] = "pending" /\ ready # <<>> /\ ready[1].task = t
      /\ ready[1].run = "event" /\ 1 \in 1 .. Len(ready) /\ ready[1] \in Item
  BY <1>1, CalledBack, HeadItem, ItemOf
<1> DEFINE wake == [task |-> t, run |-> "wake"]
<1>4. wake \in Item /\ wake.run = "wake"
  BY DEF Item
<1>5. ready' \in {Tail(ready), Append(Tail(ready), wake)}
  BY <1>1, CalledBack
<1> HIDE DEF wake
<1>6. HasEvent(In(c))' => HasEvent(In(c))
  BY <1>1, <1>3, <1>4, <1>5, NoNewEvent
<1>7. CASE t = In(c) /\ at[In(c)] = "connect"
  <2>1. fut' = fut \/ fut' = [fut EXCEPT ![t] = IF Out(c) \in open
              /\ con[c] = "up" THEN "ok" ELSE "error"]
    BY <1>1, <1>7 DEF Callback, Cancelled, ConnectCallback, RecvCallback, SendCallback,
                StillPending, Done
  <2>2. HasEvent(In(c))
    BY <1>3, <1>7 DEF HasEvent, Item
  <2>3. fut'[t] = fut[t] \/ fut'[t] = "ok" \/ Out(c) \notin open \/ con[c] # "up"
    BY <2>1, ExcuseTypes DEF ExcuseAll
  <2>4. Out(c) \notin open \/ con[c] # "up" => Excused(c)
    BY <1>1, <1>7, <2>2 DEF Excusing, Excused, Answered
  <2> QED  BY <1>2, <1>6, <1>7, <2>3, <2>4 DEF Minor
<1>8. CASE t # In(c) \/ at[In(c)] # "connect"
  <2>1. fut'[In(c)] = fut[In(c)] \/ at[In(c)] # "connect"
    BY <1>1, <1>8, CalledBack, ExcuseTypes DEF ExcuseAll
  <2> QED  BY <1>2, <1>6, <2>1 DEF Minor
<1> QED  BY <1>7, <1>8

LEMMA ForwardExcuse ==
  ASSUME ExcuseAll, NEW t \in Sock, SockRecv(t) \/ SockSendall(t), NEW c \in Clients
  PROVE  Minor(c)
<1>1. Inv /\ ListInv /\ In(c) \in Sock
  BY ExcuseTypes, Ends DEF ExcuseAll
<1>2. UNCHANGED <<ready, con, end, failed, open, inherited, verdict>>
  BY DEF SockRecv, SockSendall, TakeReceived, SendSome, peer_vars, sock_vars
<1>3. at'[t] \in {"receive", "send", "break", "recv", "sending"}
      /\ \A u \in Sock : u # t => at'[u] = at[u] /\ fut'[u] = fut[u]
  BY ExcuseTypes DEF ExcuseAll, SockRecv, SockSendall, Await
<1>4. HasEvent(In(c))' => HasEvent(In(c))
  BY <1>2 DEF HasEvent
<1> QED  BY <1>1, <1>2, <1>3, <1>4 DEF Minor

LEMMA ClosingExcuse ==
  ASSUME NEW d \in Clients, CloseBoth(d), NEW c \in Clients
  PROVE  /\ UNCHANGED <<con, inherited>>
         /\ end \in [Sock -> {"open", "eof", "reset"}] => end'[Out(c)] \in {end[Out(c)], "open"}
         /\ c # d /\ Out(c) \in open => Out(c) \in open'
BY Ends DEF CloseBoth, Gone

LEMMA LeaveExcuse ==
  ASSUME ExcuseAll, NEW t \in Sock, Leave(t), NEW c \in Clients
  PROVE  Minor(c)
<1>1. Inv /\ In(c) \in Sock /\ Excusing(c)
  BY ExcuseTypes, Ends DEF ExcuseAll
<1>2. PICK d \in Clients : (t = In(d) \/ t = Out(d)) /\ t[1] = d
  BY Ends
<1>3. /\ CloseBoth(d) /\ at[t] \in {"failed", "break"} /\ at' = [at EXCEPT ![t] = "done"]
      /\ failed' = IF at[t] = "failed" THEN failed \cup {d} ELSE failed
      /\ UNCHANGED <<ready, fut, verdict>>
  BY <1>2, Zenon DEF Leave
<1>4. HasEvent(In(c))' => HasEvent(In(c))
  BY <1>3 DEF HasEvent
<1>5. at[t] = "failed" => t = In(d)
  BY <1>2 DEF Inv, DataInv, Early, ExcuseAll, TypeAll
<1>6. c \in failed' => c \in failed \/ Excused(c)
  BY <1>1, <1>3, <1>5 DEF Excusing
<1>7. c = d => at'[In(c)] # "connect"
  <2>1. CASE t = In(d)
    BY <1>3, <2>1, ExcuseTypes DEF ExcuseAll
  <2>2. CASE t = Out(d)
    BY <1>1, <1>3, <2>2, Ends, ExcuseTypes DEF Inv, DataInv, Early, ExcuseAll
  <2> QED  BY <1>2, <2>1, <2>2
<1>8. at'[In(c)] \in {at[In(c)], "done"}
  BY <1>1, <1>3, ExcuseTypes DEF ExcuseAll
<1> QED  BY <1>3, <1>4, <1>6, <1>7, <1>8, ClosingExcuse, ExcuseTypes DEF Minor, ExcuseAll

LEMMA AcceptExcuse ==
  ASSUME ExcuseAll, NEW d \in Clients, Accept(d), NEW c \in Clients
  PROVE  Minor(c)
<1> DEFINE x == [task |-> In(d), run |-> "start"]
<1>1. x \in Item /\ x.run = "start" /\ In(c) \in Sock /\ In(d) \in Sock
  BY Ends DEF Item
<1>2. /\ at[In(d)] = "new" /\ at' = [at EXCEPT ![In(d)] = "start"] /\ ready' = Append(ready, x)
      /\ UNCHANGED <<fut, verdict, failed, con, end>>
      /\ open \subseteq open' /\ inherited \subseteq inherited'
  BY DEF Accept, OpenSocket, peer_vars
<1> HIDE DEF x
<1>3. HasEvent(In(c))' => HasEvent(In(c))
  BY <1>1, <1>2, NoNewEvent, ExcuseTypes DEF ExcuseAll
<1>4. at'[In(c)] = at[In(c)] \/ (at'[In(c)] = "start" /\ at[In(c)] = "new")
  BY <1>1, <1>2, ExcuseTypes DEF ExcuseAll
<1> QED  BY <1>2, <1>3, <1>4 DEF Minor

LEMMA DecideExcuse ==
  ASSUME ExcuseAll, NEW d \in Clients, NEW v, Decide(d, v), NEW c \in Clients
  PROVE  /\ UNCHANGED <<at, fut, failed>>
         /\ verdict'[c] = verdict[c] \/ verdict[c] = "none"
         /\ c = d => verdict'[c] = v
         /\ HasEvent(In(c))' => HasEvent(In(c))
<1> DEFINE x == [task |-> In(d), run |-> "wake"]
<1>1. x \in Item /\ x.run = "wake" /\ In(c) \in Sock
  BY Ends DEF Item
<1>2. /\ verdict[d] = "none" /\ verdict' = [verdict EXCEPT ![d] = v] /\ UNCHANGED <<at, fut,
            failed>>
      /\ ready' \in {ready, Append(ready, x)}
  BY Zenon DEF Decide, Wake
<1> HIDE DEF x
<1>3. HasEvent(In(c))' => HasEvent(In(c))
  BY <1>1, <1>2, NoNewEvent, ExcuseTypes DEF ExcuseAll
<1> QED  BY <1>2, <1>3, ExcuseTypes DEF ExcuseAll

LEMMA VerdictExcuse ==
  ASSUME ExcuseAll, NEW d \in Clients, Verdict(d), NEW c \in Clients
  PROVE  Minor(c)
<1>1. UNCHANGED <<con, end, open, inherited>> /\ \E v : Decide(d, v)
  BY DEF Verdict, peer_vars, sock_vars
<1> QED  BY <1>1, DecideExcuse DEF Minor

LEMMA AbortExcuse ==
  ASSUME ExcuseAll, NEW d \in Clients, Abort(d), NEW c \in Clients
  PROVE  Minor(c)
<1>1. Decide(d, "bad") /\ CloseBoth(d)
  BY DEF Abort
<1> QED  BY <1>1, DecideExcuse, ClosingExcuse, ExcuseTypes DEF Minor, ExcuseAll

LEMMA ConnectExcuse ==
  ASSUME ExcuseAll, NEW d \in Clients, Connect(d), NEW c \in Clients
  PROVE  Excusing(c)'
<1>1. /\ Inv /\ ListInv /\ Excusing(c) /\ In(c) \in Sock /\ Out(c) \in Sock /\ In(d) \in Sock
      /\ c # d => In(c) # In(d)
  BY ExcuseTypes, Ends DEF ExcuseAll
<1>2. /\ cur = In(d) /\ at[In(d)] = "start" /\ con' = [con EXCEPT ![d] = "trying"]
      /\ open' = open \cup {Out(d)} /\ UNCHANGED <<ready, verdict, failed, end>>
      /\ inherited' = IF modes(sel, Lowest) = {} THEN inherited ELSE inherited \cup {Out(d)[1]}
  BY DEF Connect, OpenSocket
<1>3. Out(d)[1] = d
  BY Ends
<1>4. HasEvent(In(c))' => HasEvent(In(c))
  BY <1>2 DEF HasEvent
<1>5. CASE c # d
  <2>1. at'[In(c)] = at[In(c)] /\ fut'[In(c)] = fut[In(c)]
    BY <1>1, <1>5, ConnectAdvances DEF Advances
  <2>2. Minor(c)
    BY <1>2, <1>4, <1>5, <2>1, ExcuseTypes DEF Minor, ExcuseAll
  <2> QED  BY <1>1, <2>2, MinorStep
<1>6. CASE c = d
  <2>1. con[c] = "none" /\ con'[c] = "trying" /\ end[Out(c)] = "open"
    BY <1>1, <1>2, <1>6, ExcuseTypes DEF Excusing, ExcuseAll
  <2>2. ~HasEvent(In(c))
    BY <1>1, <1>2, <1>6, ItemOf DEF HasEvent, Fits
  <2>3. /\ at'[In(c)] \in {"connect", "failed"}
              /\ (at'[In(c)] = "connect" => fut'[In(c)] = "pending")
        /\ at'[In(c)] = "failed" => Raises(sel, Lowest, "write")
    BY <1>1, <1>6, ConnectAdvances
  <2>4. at'[In(c)] = "failed" => c \in inherited'
    BY <1>2, <1>3, <1>6, <2>3 DEF Raises
  <2>5. c \in failed => Excused(c)'
    BY <1>1, <1>2, <2>1 DEF Excusing, Excused
  <2> QED  BY <1>2, <1>4, <1>6, <2>1, <2>2, <2>3, <2>4, <2>5 DEF Excusing, Excused
<1> QED  BY <1>5, <1>6

LEMMA AnswerExcuse ==
  ASSUME ExcuseAll, NEW d \in Clients, Answer(d), NEW c \in Clients
  PROVE  Excusing(c)'
<1>1. /\ con[d] = "trying" /\ \E r \in {"up", "refused"} : con' = [con EXCEPT ![d] = r]
      /\ UNCHANGED <<ready, at, fut, verdict, failed, end, open, inherited>>
  BY DEF Answer, loop_vars, task_vars, sock_vars
<1>2. HasEvent(In(c))' => HasEvent(In(c))
  BY <1>1 DEF HasEvent
<1>3. CASE c = d
  <2>1. con'[c] \in {"up", "refused"} /\ con[c] = "trying" /\ Excusing(c)
    BY <1>1, <1>3, ExcuseTypes DEF ExcuseAll
  <2>2. Excused(c) => Excused(c)'
    BY <1>1, <2>1 DEF Excused
  <2> QED  BY <1>1, <2>1, <2>2 DEF Excusing, Answered
<1>4. CASE c # d
  <2>1. con'[c] = con[c]
    BY <1>1, <1>4, ExcuseTypes DEF ExcuseAll
  <2>2. Minor(c) /\ Excusing(c)
    BY <1>1, <1>2, <2>1 DEF Minor, ExcuseAll
  <2> QED  BY <2>2, MinorStep
<1> QED  BY <1>3, <1>4

LEMMA PeerExcuse ==
  ASSUME ExcuseAll, NEW s \in Sock, PeerWrites(s) \/ PeerReads(s) \/ PeerEnds(s),
         NEW c \in Clients
  PROVE  Minor(c)
<1>1. UNCHANGED <<ready, at, fut, verdict, failed, open, inherited>>
  BY DEF PeerWrites, PeerReads, PeerEnds, loop_vars, task_vars, sock_vars
<1>2. HasEvent(In(c))' => HasEvent(In(c))
  BY <1>1 DEF HasEvent
<1>3. end'[Out(c)] = end[Out(c)] \/ con[c] = "up"
  <2>1. CASE s # Out(c)
    BY <2>1, ExcuseTypes, Ends DEF ExcuseAll, PeerWrites, PeerReads, PeerEnds
  <2>2. CASE s = Out(c)
    BY <2>2, Ends DEF PeerWrites, PeerReads, PeerEnds, Connected, Out
  <2> QED  BY <2>1, <2>2
<1>4. con'[c] = con[c] \/ (con[c] = "up" /\ con'[c] = "reset")
  <2>1. con' = con \/ (s[2] = "out" /\ con[s[1]] = "up" /\ con' = [con EXCEPT ![s[1]] = "reset"])
    BY DEF PeerWrites, PeerReads, PeerEnds, Connected
  <2> QED  BY <2>1, ExcuseTypes DEF ExcuseAll
<1> QED  BY <1>1, <1>2, <1>3, <1>4 DEF Minor

LEMMA ExcuseStep ==
  ASSUME ExcuseAll, [Next]_vars
  PROVE  ExcuseAll'
<1>1. TypeAll'
  BY TypesStep DEF ExcuseAll
<1> SUFFICES ASSUME NEW c \in Clients PROVE Excusing(c)'
  BY <1>1 DEF ExcuseAll
<1>2. Minor(c) => Excusing(c)'
  BY MinorStep DEF ExcuseAll
<1>3. CASE UNCHANGED vars
  BY <1>2, <1>3
  DEF vars, loop_vars, task_vars, peer_vars, sock_vars, Minor, HasEvent
<1>4. CASE Select
  BY <1>2, <1>4, SelectExcuse
<1>5. ASSUME NEW t \in Sock, Resume(t) \/ Callback(t) \/ Coroutine(t) PROVE Excusing(c)'
  BY <1>2, <1>5, ResumeExcuse, CallbackExcuse, ForwardExcuse, LeaveExcuse DEF Coroutine
<1>6. ASSUME NEW d \in Clients, Connect(d) \/ Answer(d) PROVE Excusing(c)'
  BY <1>6, ConnectExcuse, AnswerExcuse
<1>7. ASSUME NEW d \in Clients, Accept(d) \/ Verdict(d) \/ Abort(d) PROVE Excusing(c)'
  BY <1>2, <1>7, AcceptExcuse, VerdictExcuse, AbortExcuse
<1>8. ASSUME NEW s \in Sock, PeerWrites(s) \/ PeerReads(s) \/ PeerEnds(s) PROVE Excusing(c)'
  BY <1>2, <1>8, PeerExcuse
<1> QED  BY <1>3, <1>4, <1>5, <1>6, <1>7, <1>8, Zenon DEF Next, Loop, Environment

\* "could not connect to ..." (main.py:205) is said of a server that accepted only where
\* the connection was reset before the loop had seen it come up, a number of the client
\* came with an old key, or the injector has ended the connect.
THEOREM ConnectReportHasReason == Spec => []ConnectErrorExplained
<1>1. Init => ExcuseAll
  <2>1. ASSUME Init, NEW c \in Clients PROVE Excusing(c)
    BY <2>1, Ends DEF Init, Excusing
  <2> QED  BY <2>1, TypesInitially DEF ExcuseAll
<1>2. ExcuseAll /\ [Next]_vars => ExcuseAll'
  BY ExcuseStep
<1>3. ExcuseAll => ConnectErrorExplained
  BY DEF ExcuseAll, TypeAll, TypeInv, Named, Excusing, Excused, ConnectErrorExplained
<1> QED  BY <1>1, <1>2, <1>3, PTL DEF Spec
===============================================================================
