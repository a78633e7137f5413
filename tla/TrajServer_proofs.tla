--------------------------- MODULE TrajServer_proofs ---------------------------
(***************************************************************************)
(* What the trajectory server commands, for every line of places, circle,  *)
(* rate and delay.  The invariant follows each trajectory from the         *)
(* planning that read its start, through the topic, to the command: where  *)
(* it goes on from the one before it, and what the server can have         *)
(* commanded until it is received.                                         *)
(***************************************************************************)
EXTENDS TrajServer, TLAPS

Messages ==
  [id : Nat \ {0}, start : Nat, from : Places, to : Places, duration : Nat, taken : Nat]

\* No faster than a place per tick, begun, and read before that.
Sound(m) ==
  /\ m \in Messages
  /\ Distance(m.from, m.to) <= m.duration
  /\ m.start <= now /\ m.taken <= now

\* A trajectory from `from`, read at `taken`, goes on where p was then, unless p
\* could still be in transit.
GoesOn(p, from, taken) ==
  \/ /\ p.id # 0 /\ p.start <= taken
     /\ from = PositionAt(p, taken - p.start)
  \/ taken <= p.start + MaxDelay

Before(i) == IF i = 1 THEN traj ELSE link[i - 1]

LinkInv ==
  /\ local.id \in 0 .. MaxTrajs
  /\ local.id # 0 => Sound(local)
  /\ local.id = 0 => local.start = 0
  /\ traj.id # 0 => Sound(traj)
  /\ traj.id \in Nat
  /\ traj.id = 0 => traj.start = 0
  /\ link \in Seq(Messages)
  /\ local = IF link = << >> THEN traj ELSE link[Len(link)]
  /\ \A i \in 1 .. Len(link) :
       /\ Sound(link[i])
       /\ now <= link[i].start + MaxDelay
       /\ link[i].id = traj.id + i
       /\ GoesOn(Before(i), link[i].from, link[i].taken)

Calls ==
  [pc : {"idle", "called", "regenerate", "optimize", "undefined", "endless"},
   todo : Seq({"polynomial", "previous"}), start : Nat, taken : Nat, target : Nat,
   spent : Nat, initial : Nat, read : Nat]

CallInv ==
  /\ call \in Calls
  /\ call.pc # "idle" =>
       /\ local.id < MaxTrajs
       /\ call.todo # << >>
       /\ \A i \in 1 .. Len(call.todo) : call.todo[i] = "previous" => local.id # 0
       /\ call.start \in Places /\ call.target \in Places
       /\ call.taken \in 0 .. now
       /\ GoesOn(local, call.start, call.taken)
  /\ call.pc = "optimize" =>
       /\ call.initial \in Places /\ call.read \in 0 .. now
       /\ GoesOn(local, call.initial, call.read)

Behind(m) == cmd.id < m.id => cmd.at <= m.start + MaxDelay

CmdInv ==
  /\ cmd.mode \in {"none", "fly", "hover"} /\ cmd.pos \in Places
  /\ cmd.at \in 0 .. now /\ cmd.start \in Nat /\ cmd.id \in 0 .. traj.id
  /\ cmd.id = 0 => cmd.at = 0 /\ cmd.start = 0
  /\ Behind(traj) /\ \A i \in 1 .. Len(link) : Behind(link[i])
  /\ cmd.id = traj.id /\ traj.id # 0 =>
       /\ cmd.start = traj.start /\ traj.start <= cmd.at
       /\ cmd.pos = PositionAt(traj, cmd.at - traj.start)
  /\ cmd.id + 1 = traj.id /\ cmd.start + MaxDelay < traj.taken =>
       Distance(traj.from, cmd.pos) <= Distance(traj.taken, cmd.at)

YawInv == yaw \in -HalfTurn .. HalfTurn /\ timeLast \in 0 .. now

IInv == now \in 0 .. MaxNow /\ LinkInv /\ CallInv /\ CmdInv /\ YawInv

-----------------------------------------------------------------------------
(* Along a trajectory *)

LEMMA DivMod ==
  ASSUME NEW a \in Int, NEW m \in Nat \ {0}
  PROVE  a = m * (a \div m) + (a % m) /\ a % m \in 0 .. m - 1 /\ a \div m \in Int
  OBVIOUS

\* The whole part of a slope of one at the most rises, by no more than the step.
LEMMA Progress ==
  ASSUME NEW n \in Nat \ {0}, NEW d \in 0 .. n, NEW a \in Nat, NEW b \in Nat, a <= b
  PROVE  /\ (a * d) \div n \in Int /\ (b * d) \div n \in Int
         /\ (a * d) \div n <= (b * d) \div n
         /\ (b * d) \div n <= (a * d) \div n + (b - a)
<1> DEFINE x == a * d
           y == b * d
           p == x \div n
           q == y \div n
           r == x % n
           s == y % n
           c == b - a
<1>1. x \in Int /\ y \in Int
  OBVIOUS
<1>2. c \in Nat /\ c * d \in Int /\ y - x = c * d
  OBVIOUS
<1>3. 0 <= c * d /\ c * d <= c * n /\ c * n \in Int
  BY <1>2
<1> HIDE DEF x, y, c
<1>4. x = n * p + r /\ r \in 0 .. n - 1 /\ p \in Int
  BY <1>1, DivMod
<1>5. y = n * q + s /\ s \in 0 .. n - 1 /\ q \in Int
  BY <1>1, DivMod
<1> HIDE DEF p, q, r, s
<1>6. n * (q - p) = c * d + r - s
  BY <1>1, <1>2, <1>4, <1>5
<1>7. p <= q
  <2> SUFFICES ASSUME q - p <= -1 PROVE FALSE
    BY <1>4, <1>5
  <2>1. n * (q - p) <= -n
    BY <1>4, <1>5
  <2> QED
    BY <1>2, <1>3, <1>4, <1>5, <1>6, <2>1
<1>8. q <= p + c
  <2> DEFINE e == q - p - c
  <2> SUFFICES ASSUME e >= 1 PROVE FALSE
    BY <1>2, <1>4, <1>5
  <2>1. e \in Int /\ q - p = c + e
    BY <1>2, <1>4, <1>5
  <2> HIDE DEF e
  <2>2. n * (c + e) = n * c + n * e /\ n * e >= n /\ n * c = c * n /\ n * e \in Int
    BY <1>2, <2>1
  <2> QED
    BY <1>2, <1>3, <1>4, <1>5, <1>6, <2>1, <2>2
<1> QED
  BY <1>4, <1>5, <1>7, <1>8 DEF p, q, x, y, c

LEMMA ProgressEnds ==
  ASSUME NEW n \in Nat \ {0}, NEW d \in 0 .. n
  PROVE  (0 * d) \div n = 0 /\ (n * d) \div n = d
<1>1. 0 * d = 0 /\ 0 \div n = 0
  OBVIOUS
<1> DEFINE x == n * d
           q == x \div n
           r == x % n
<1>2. x \in Int
  OBVIOUS
<1>3. x = n * d
  OBVIOUS
<1> HIDE DEF x
<1>4. x = n * q + r /\ r \in 0 .. n - 1 /\ q \in Int
  BY <1>2, DivMod
<1> HIDE DEF q, r
<1>5. n * (d - q) = r
  BY <1>3, <1>4
<1>8. d = q
  <2>1. ASSUME d - q >= 1 PROVE FALSE
    <3>1. n * (d - q) >= n
      BY <1>4, <2>1
    <3> QED
      BY <1>4, <1>5, <3>1
  <2>2. ASSUME d - q <= -1 PROVE FALSE
    <3>1. n * (d - q) <= -n
      BY <1>4, <2>2
    <3> QED
      BY <1>4, <1>5, <3>1
  <2> QED
    BY <1>4, <2>1, <2>2
<1> QED
  BY <1>1, <1>8 DEF q, x

\* A trajectory that is no faster than a place per tick.
Flyable(m) == m.from \in Places /\ m.to \in Places /\ m.duration \in Nat
              /\ Distance(m.from, m.to) <= m.duration

Clamped(m, t) == IF t < 0 THEN 0 ELSE IF t < m.duration THEN t ELSE m.duration
Gone(m, t) == (Clamped(m, t) * Distance(m.from, m.to)) \div m.duration

LEMMA DistanceType ==
  ASSUME NEW a \in Int, NEW b \in Int
  PROVE  Distance(a, b) \in Nat
  BY DEF Distance

LEMMA PlacesAreNumbers == \A x \in Places : x \in Nat /\ x \in Int
  BY PlacesAssumption

\* How far it has gone after t ticks.
LEMMA GoneRange ==
  ASSUME NEW m, Flyable(m), m.duration # 0, NEW s \in Int, NEW t \in Int, s <= t
  PROVE  /\ Gone(m, s) \in 0 .. Distance(m.from, m.to)
         /\ Gone(m, t) \in 0 .. Distance(m.from, m.to)
         /\ Gone(m, s) <= Gone(m, t) /\ Gone(m, t) <= Gone(m, s) + (t - s)
         /\ Gone(m, 0) = 0
         /\ m.duration <= t => Gone(m, t) = Distance(m.from, m.to)
<1> DEFINE n == m.duration
           d == Distance(m.from, m.to)
           a == Clamped(m, s)
           b == Clamped(m, t)
<1>1. n \in Nat \ {0} /\ d \in 0 .. n
  <2>1. m.from \in Int /\ m.to \in Int /\ m.duration \in Nat
        /\ Distance(m.from, m.to) <= m.duration
    BY PlacesAreNumbers DEF Flyable
  <2>2. Distance(m.from, m.to) \in Nat
    BY <2>1, DistanceType
  <2> QED
    BY <2>1, <2>2
<1>2. /\ a \in 0 .. n /\ b \in 0 .. n /\ a <= b /\ b - a <= t - s
      /\ Clamped(m, 0) = 0 /\ (n <= t => b = n)
  BY <1>1 DEF Clamped
<1> HIDE DEF a, b, n, d
<1>3. /\ (a * d) \div n \in Int /\ (b * d) \div n \in Int
      /\ (a * d) \div n <= (b * d) \div n
      /\ (b * d) \div n <= (a * d) \div n + (b - a)
  BY <1>1, <1>2, Progress
<1>4. (0 * d) \div n = 0 /\ (n * d) \div n = d
  BY <1>1, ProgressEnds
<1>5. (0 * d) \div n <= (a * d) \div n
  <2> DEFINE o == 0
  <2>1. o \in Nat /\ o <= a /\ a \in Nat
    BY <1>1, <1>2
  <2> HIDE DEF o
  <2>2. (o * d) \div n <= (a * d) \div n
    BY <1>1, <2>1, Progress
  <2> QED
    BY <2>2 DEF o
<1>6. (b * d) \div n <= (n * d) \div n
  BY <1>1, <1>2, Progress
<1>7. Gone(m, s) = (a * d) \div n /\ Gone(m, t) = (b * d) \div n
      /\ Gone(m, 0) = (0 * d) \div n
  BY <1>2 DEF Gone, a, b, n, d
<1> QED
  BY <1>1, <1>2, <1>3, <1>4, <1>5, <1>6, <1>7 DEF n, d

\* A trajectory begins in its first place and ends in its last, passes through
\* places, and moves by no more than one of them per tick.
LEMMA AlongTrajectory ==
  ASSUME NEW m, Flyable(m), NEW s \in Int, NEW t \in Int, s <= t
  PROVE  /\ PositionAt(m, s) \in Places /\ PositionAt(m, t) \in Places
         /\ Distance(PositionAt(m, t), PositionAt(m, s)) <= t - s
         /\ PositionAt(m, 0) = m.from
         /\ m.duration <= t => PositionAt(m, t) = m.to
<1> DEFINE d == Distance(m.from, m.to)
<1>1. m.from \in Nat /\ m.to \in Nat /\ m.from \in Places /\ m.to \in Places
      /\ m.from .. m.to \subseteq Places /\ m.to .. m.from \subseteq Places
  BY PlacesAssumption DEF Flyable
<1>2. CASE m.duration = 0
  <2>1. m.from = m.to
    BY <1>1, <1>2 DEF Flyable, Distance
  <2> QED
    BY <1>1, <1>2, <2>1 DEF PositionAt, Distance
<1>3. CASE m.duration # 0
  <2>1. \A u \in Int : PositionAt(m, u) = Toward(m.from, m.to, Gone(m, u))
    BY <1>3 DEF PositionAt, Gone, Clamped
  <2>2. /\ Gone(m, s) \in 0 .. d /\ Gone(m, t) \in 0 .. d
        /\ Gone(m, s) <= Gone(m, t) /\ Gone(m, t) <= Gone(m, s) + (t - s)
        /\ Gone(m, 0) = 0 /\ (m.duration <= t => Gone(m, t) = d)
    BY <1>3, GoneRange
  <2> DEFINE p == Gone(m, s)
             q == Gone(m, t)
  <2>3. PositionAt(m, s) = Toward(m.from, m.to, p) /\ PositionAt(m, t) = Toward(m.from, m.to, q)
        /\ PositionAt(m, 0) = Toward(m.from, m.to, 0)
    BY <2>1, <2>2
  <2>4. p \in 0 .. d /\ q \in 0 .. d /\ p <= q /\ q <= p + (t - s)
        /\ (m.duration <= t => q = d)
    BY <2>2
  <2> HIDE DEF p, q
  <2>5. Toward(m.from, m.to, 0) = m.from /\ Toward(m.from, m.to, d) = m.to
    BY <1>1 DEF Toward, Distance
  <2>6. /\ Toward(m.from, m.to, p) \in Places /\ Toward(m.from, m.to, q) \in Places
        /\ Distance(Toward(m.from, m.to, q), Toward(m.from, m.to, p)) <= q - p
    BY <1>1, <2>4 DEF Toward, Distance
  <2>7. q - p <= t - s
    BY <1>1, <2>4 DEF Distance
  <2>8. \A x, y \in Int : Distance(x, y) \in Int
    BY DEF Distance
  <2>9. Distance(Toward(m.from, m.to, q), Toward(m.from, m.to, p)) \in Int
        /\ p \in Int /\ q \in Int
    <3>1. Toward(m.from, m.to, q) \in Int /\ Toward(m.from, m.to, p) \in Int
      BY <2>6, PlacesAreNumbers
    <3> QED
      BY <2>4, <2>8, <3>1
  <2> QED
    BY <2>3, <2>4, <2>5, <2>6, <2>7, <2>9
<1> QED
  BY <1>2, <1>3 DEF Flyable

-----------------------------------------------------------------------------
(* What the invariant says of the trajectories *)

LEMMA SoundFlyable ==
  ASSUME NEW m, Sound(m)
  PROVE  /\ Flyable(m) /\ m.id \in Nat \ {0} /\ m.start \in Nat /\ m.taken \in Nat
         /\ m.start <= now /\ m.taken <= now
  BY DEF Sound, Messages, Flyable

LEMMA LocalIsLast ==
  ASSUME LinkInv
  PROVE  /\ local.id = traj.id + Len(link) /\ Len(link) \in Nat
         /\ link = << >> => local = traj
         /\ link # << >> => local = link[Len(link)] /\ Len(link) \in 1 .. Len(link)
<1>1. Len(link) \in Nat /\ (link # << >> => Len(link) \in 1 .. Len(link))
  BY DEF LinkInv
<1>2. CASE link = << >>
  BY <1>1, <1>2 DEF LinkInv
<1>3. CASE link # << >>
  BY <1>1, <1>3 DEF LinkInv
<1> QED
  BY <1>1, <1>2, <1>3

\* Where the vehicle was seen is where the local trajectory took it, unless that
\* may not have been received then.
LEMMA CommandGoesOn ==
  ASSUME now \in Nat, LinkInv, CmdInv
  PROVE  GoesOn(local, cmd.pos, cmd.at)
<1>1. /\ local.id = traj.id + Len(link) /\ Len(link) \in Nat
      /\ link = << >> => local = traj
      /\ link # << >> => local = link[Len(link)] /\ Len(link) \in 1 .. Len(link)
  BY LocalIsLast
<1>2. /\ traj.id \in Nat /\ cmd.id \in 0 .. traj.id /\ cmd.at \in 0 .. now
      /\ MaxDelay \in Nat
  BY AnglesAssumption DEF LinkInv, CmdInv
<1>3. CASE local.id = 0
  <2>1. traj.id = 0
    BY <1>1, <1>2, <1>3
  <2>2. cmd.id = 0
    BY <1>2, <2>1
  <2>3. local.start = 0 /\ cmd.at = 0
    BY <1>3, <2>2 DEF LinkInv, CmdInv
  <2> QED
    BY <1>2, <2>3 DEF GoesOn
<1>4. CASE local.id # 0 /\ cmd.id < local.id
  <2>1. Behind(local)
    BY <1>1 DEF CmdInv
  <2> QED
    BY <1>4, <2>1 DEF Behind, GoesOn
<1>5. CASE local.id # 0 /\ ~(cmd.id < local.id)
  <2>1. Len(link) = 0 /\ cmd.id = traj.id
    BY <1>1, <1>2, <1>5
  <2>2. link = << >>
    BY <2>1 DEF LinkInv
  <2> QED
    BY <1>1, <1>5, <2>1, <2>2 DEF CmdInv, GoesOn
<1> QED
  BY <1>3, <1>4, <1>5

LEMMA InitIInv == Init => IInv
<1> SUFFICES ASSUME Init PROVE IInv
  OBVIOUS
<1>1. /\ now = 0 /\ link = << >> /\ traj = local /\ yaw = 0 /\ timeLast = 0
      /\ local = [id |-> 0, start |-> 0, from |-> 0, to |-> 0, duration |-> 0, taken |-> 0]
      /\ call = Idle
      /\ cmd \in [mode : {"none"}, pos : Places, at : {0}, id : {0}, start : {0}]
  BY DEF Init, PlannerInit
<1>2. MaxNow \in Nat /\ MaxTrajs \in Nat /\ MaxDelay \in Nat /\ HalfTurn \in Nat
  BY BoundsAssumption, AnglesAssumption
<1>3. LinkInv
  BY <1>1, <1>2 DEF LinkInv
<1>4. CallInv
  BY <1>1 DEF CallInv, Calls, Idle
<1>5. CmdInv
  BY <1>1, <1>2 DEF CmdInv, Behind
<1>6. YawInv
  BY <1>1, <1>2 DEF YawInv
<1> QED
  BY <1>1, <1>2, <1>3, <1>4, <1>5, <1>6 DEF IInv

-----------------------------------------------------------------------------
(* The planner's steps *)

LEMMA QuietPlanner ==
  ASSUME IInv, UNCHANGED <<now, local, serverVars>>, CallInv'
  PROVE  IInv'
BY DEF IInv, LinkInv, CmdInv, YawInv, Sound, Before, Behind, serverVars

LEMMA PlanKeeps ==
  ASSUME IInv, PlanFromGlobalTraj(cmd.pos, cmd.at) \/ PlanFromCurrentTraj
  PROVE  CallInv'
<1>1. now \in Nat /\ LinkInv /\ CmdInv /\ local.id < MaxTrajs /\ local' = local /\ now' = now
  BY BoundsAssumption DEF IInv, PlanFromGlobalTraj, PlanFromCurrentTraj
<1>2. CASE PlanFromGlobalTraj(cmd.pos, cmd.at)
  <2>1. PICK target \in Places :
          call' = [Idle EXCEPT !.pc = "called", !.todo = FromGlobal, !.start = cmd.pos,
                               !.taken = cmd.at, !.target = target]
    BY <1>2 DEF PlanFromGlobalTraj, Plan
  <2>2. FromGlobal \in Seq({"polynomial", "previous"}) /\ FromGlobal # << >>
        /\ \A i \in 1 .. Len(FromGlobal) : FromGlobal[i] # "previous"
    BY BoundsAssumption DEF FromGlobal
  <2>3. cmd.pos \in Places /\ cmd.at \in 0 .. now /\ GoesOn(local, cmd.pos, cmd.at)
    BY <1>1, CommandGoesOn DEF CmdInv
  <2>4. call' = [pc |-> "called", todo |-> FromGlobal, start |-> cmd.pos, taken |-> cmd.at,
                 target |-> target, spent |-> 0, initial |-> 0, read |-> 0]
    BY <2>1 DEF Idle
  <2>5. call' \in Calls
    BY <1>1, <2>2, <2>3, <2>4, PlacesAreNumbers DEF Calls
  <2>6. GoesOn(local, cmd.pos, cmd.at)'
        <=> GoesOn(local', cmd'.pos, cmd'.at)
    OBVIOUS
  <2> QED
    BY <1>1, <2>2, <2>3, <2>4, <2>5 DEF CallInv, GoesOn
<1>3. CASE PlanFromCurrentTraj
  <2> DEFINE place == PositionAt(local, now - local.start)
  <2>1. PICK target \in Places, newTarget \in BOOLEAN :
          call' = [Idle EXCEPT !.pc = "called", !.todo = FromCurrent(newTarget),
                               !.start = place, !.taken = now, !.target = target]
    BY <1>3 DEF PlanFromCurrentTraj, Plan
  <2>2. local.id # 0 /\ Sound(local)
    BY <1>1, <1>3 DEF PlanFromCurrentTraj, LinkInv
  <2>3. FromCurrent(newTarget) \in Seq({"polynomial", "previous"})
        /\ FromCurrent(newTarget) # << >>
    BY DEF FromCurrent
  <2>4. place \in Places /\ GoesOn(local, place, now)
    BY <1>1, <2>2, SoundFlyable, AlongTrajectory, now - local.start \in Int DEF GoesOn
  <2> HIDE DEF place
  <2>5. call' = [pc |-> "called", todo |-> FromCurrent(newTarget), start |-> place,
                 taken |-> now, target |-> target, spent |-> 0, initial |-> 0, read |-> 0]
    BY <2>1 DEF Idle
  <2>6. call' \in Calls
    BY <1>1, <2>3, <2>4, <2>5, PlacesAreNumbers DEF Calls
  <2> QED
    BY <1>1, <2>2, <2>3, <2>4, <2>5, <2>6 DEF CallInv, GoesOn
<1> QED
  BY <1>2, <1>3

LEMMA AttemptKeeps ==
  ASSUME now \in Nat, CallInv, call.pc # "idle", NextAttempt, UNCHANGED <<now, local>>
  PROVE  CallInv'
<1>1. /\ call \in Calls /\ call.todo \in Seq({"polynomial", "previous"}) /\ call.todo # << >>
      /\ \A i \in 1 .. Len(call.todo) : call.todo[i] = "previous" => local.id # 0
  BY DEF CallInv, Calls
<1>2. CASE call' = Idle
  BY <1>2 DEF CallInv, Calls, Idle
<1>3. CASE call' # Idle
  <2>1. Len(call.todo) # 1
        /\ call' = [call EXCEPT !.pc = "called", !.todo = Tail(call.todo), !.spent = 0,
                                !.initial = 0, !.read = 0]
    BY <1>1, <1>3 DEF NextAttempt, Calls
  <2>2. /\ Tail(call.todo) \in Seq({"polynomial", "previous"}) /\ Tail(call.todo) # << >>
        /\ \A i \in 1 .. Len(Tail(call.todo)) :
             Tail(call.todo)[i] = "previous" => local.id # 0
    <3> DEFINE todo == call.todo
    <3>1. todo \in Seq({"polynomial", "previous"}) /\ todo # << >> /\ Len(todo) # 1
          /\ \A i \in 1 .. Len(todo) : todo[i] = "previous" => local.id # 0
      BY <1>1, <2>1
    <3> HIDE DEF todo
    <3>2. /\ Tail(todo) \in Seq({"polynomial", "previous"}) /\ Len(Tail(todo)) = Len(todo) - 1
          /\ \A i \in 1 .. Len(todo) - 1 : Tail(todo)[i] = todo[i + 1]
      BY <3>1
    <3>3. Tail(todo) # << >>
      <4>1. Len(todo) \in Nat /\ Len(todo) # 0
        BY <3>1
      <4>2. Len(Tail(todo)) # 0
        BY <3>1, <3>2, <4>1
      <4>3. Len(<< >>) = 0
        OBVIOUS
      <4> QED
        BY <4>2, <4>3, Zenon
    <3>4. \A i \in 1 .. Len(Tail(todo)) : Tail(todo)[i] = "previous" => local.id # 0
      <4> SUFFICES ASSUME NEW i \in 1 .. Len(Tail(todo)), Tail(todo)[i] = "previous"
                   PROVE  local.id # 0
        OBVIOUS
      <4>1. i + 1 \in 1 .. Len(todo) /\ todo[i + 1] = "previous"
        BY <3>1, <3>2
      <4> QED
        BY <3>1, <4>1
    <3> QED
      BY <3>2, <3>3, <3>4 DEF todo
  <2>3. /\ call' \in Calls /\ call'.pc = "called" /\ call'.todo = Tail(call.todo)
        /\ call'.start = call.start /\ call'.target = call.target /\ call'.taken = call.taken
    BY <1>1, <2>1, <2>2 DEF Calls
  <2> QED
    BY <2>2, <2>3 DEF CallInv, GoesOn
<1> QED
  BY <1>2, <1>3

LEMMA PolynomialKeeps == ASSUME IInv, InitFromPolynomial PROVE CallInv'
<1>1. CallInv /\ call.pc \in {"called", "regenerate"} /\ UNCHANGED <<now, local>>
      /\ call' = [call EXCEPT !.pc = "optimize", !.initial = call.start, !.read = call.taken]
  BY DEF InitFromPolynomial, IInv, CallInv, Calls
<1>2. /\ call' \in Calls /\ call'.pc = "optimize" /\ call'.todo = call.todo
      /\ call'.start = call.start /\ call'.target = call.target /\ call'.taken = call.taken
      /\ call'.initial = call.start /\ call'.read = call.taken
  BY <1>1 DEF CallInv, Calls
<1> QED
  BY <1>1, <1>2 DEF CallInv, GoesOn

LEMMA PreviousKeeps == ASSUME IInv, InitFromPrevious PROVE CallInv'
<1>1. CallInv /\ LinkInv /\ now \in Nat /\ call.pc = "called" /\ UNCHANGED <<now, local>>
  BY BoundsAssumption DEF InitFromPrevious, IInv
<1>2. call \in Calls /\ call.todo \in Seq({"polynomial", "previous"}) /\ call.todo # << >>
  BY <1>1 DEF CallInv, Calls
<1>3. Head(call.todo) # "polynomial"
  BY DEF InitFromPrevious, ByPolynomial
<1>4. local.id # 0 /\ Sound(local)
  BY <1>1, <1>2, <1>3 DEF CallInv, LinkInv
<1>5. ResumeAt \in Places /\ GoesOn(local, ResumeAt, now)
  BY <1>1, <1>4, SoundFlyable, AlongTrajectory, now - local.start \in Int DEF GoesOn, ResumeAt
<1>6. \/ \E pc \in {"undefined", "endless", "regenerate"} : call' = [call EXCEPT !.pc = pc]
      \/ call' = [call EXCEPT !.pc = "optimize", !.initial = ResumeAt, !.read = now]
  BY DEF InitFromPrevious
<1> HIDE DEF ResumeAt
<1>7. CASE \E pc \in {"undefined", "endless", "regenerate"} : call' = [call EXCEPT !.pc = pc]
  <2>1. /\ call' \in Calls /\ call'.pc \in {"undefined", "endless", "regenerate"}
        /\ call'.todo = call.todo
        /\ call'.start = call.start /\ call'.target = call.target /\ call'.taken = call.taken
    BY <1>2, <1>7 DEF Calls
  <2> QED
    BY <1>1, <2>1 DEF CallInv, GoesOn
<1>8. CASE call' = [call EXCEPT !.pc = "optimize", !.initial = ResumeAt, !.read = now]
  <2>1. /\ call' \in Calls /\ call'.pc = "optimize" /\ call'.todo = call.todo
        /\ call'.start = call.start /\ call'.target = call.target /\ call'.taken = call.taken
        /\ call'.initial = ResumeAt /\ call'.read = now
    BY <1>1, <1>2, <1>5, <1>8, PlacesAreNumbers DEF Calls
  <2> QED
    BY <1>1, <1>5, <2>1 DEF CallInv, GoesOn
<1> QED
  BY <1>6, <1>7, <1>8

\* A trajectory that goes on from the local one is published.
LEMMA PublishKeeps ==
  ASSUME IInv, NEW from \in Places, NEW to \in Places, NEW duration \in Nat,
         NEW taken \in 0 .. now,
         local' = Trajectory(local.id + 1, from, to, duration, taken),
         Distance(from, to) <= duration, GoesOn(local, from, taken), local.id < MaxTrajs,
         link' = Append(link, local'), UNCHANGED <<now, traj, yaw, timeLast, cmd>>
  PROVE  LinkInv' /\ CmdInv'
<1>1. now \in Nat /\ LinkInv /\ CmdInv /\ MaxDelay \in Nat /\ MaxTrajs \in Nat
  BY BoundsAssumption, AnglesAssumption DEF IInv
<1>2. local' = [id |-> local.id + 1, start |-> now, from |-> from, to |-> to,
                duration |-> duration, taken |-> taken]
  BY DEF Trajectory
<1>3. /\ local.id \in 0 .. MaxTrajs
      /\ local.id = traj.id + Len(link) /\ Len(link) \in Nat
      /\ link = << >> => local = traj
      /\ link # << >> => local = link[Len(link)]
  BY <1>1, LocalIsLast DEF LinkInv
<1>4. local' \in Messages /\ local'.id = local.id + 1 /\ local'.start = now
      /\ local'.from = from /\ local'.to = to /\ local'.duration = duration
      /\ local'.taken = taken
  <2>1. local.id + 1 \in Nat \ {0} /\ taken \in Nat
    BY <1>1, <1>3
  <2>2. local' \in Messages
    BY <1>1, <1>2, <2>1 DEF Messages
  <2> QED
    BY <1>2, <2>2
<1>5. Sound(local)'
  BY <1>1, <1>4 DEF Sound
<1>6. /\ link \in Seq(Messages) /\ link' \in Seq(Messages) /\ Len(link') = Len(link) + 1
      /\ \A i \in 1 .. Len(link) : link'[i] = link[i]
      /\ link'[Len(link) + 1] = local' /\ link' # << >>
  BY <1>1, <1>4 DEF LinkInv
<1>7. ASSUME NEW i \in 1 .. Len(link')
      PROVE  /\ Sound(link[i])'
             /\ now <= link'[i].start + MaxDelay
             /\ link'[i].id = traj.id + i
             /\ GoesOn(Before(i)', link'[i].from, link'[i].taken)
  <2>1. CASE i \in 1 .. Len(link)
    <3>1. /\ link'[i] = link[i] /\ Before(i)' = Before(i)
      BY <1>1, <1>3, <1>6, <2>1 DEF Before
    <3> QED
      BY <1>1, <2>1, <3>1 DEF LinkInv, Sound
  <2>2. CASE i = Len(link) + 1
    <3>1. link'[i] = local'
      BY <1>6, <2>2
    <3>2. Before(i)' = local
      <4>1. CASE link = << >>
        <5>1. i = 1
          BY <2>2, <4>1
        <5> QED
          BY <1>3, <4>1, <5>1 DEF Before
      <4>2. CASE link # << >>
        <5>1. Len(link) \in 1 .. Len(link) /\ local = link[Len(link)]
          BY <1>1, <4>2, LocalIsLast
        <5>2. i # 1 /\ i - 1 = Len(link)
          BY <1>3, <2>2, <5>1
        <5>3. Before(i)' = link'[i - 1]
          BY <5>2 DEF Before
        <5> QED
          BY <1>6, <5>1, <5>2, <5>3
      <4> QED
        BY <4>1, <4>2
    <3>3. Sound(link[i])'
      BY <1>5, <3>1 DEF Sound
    <3>4. now <= now + MaxDelay /\ traj.id + i = local.id + 1 /\ traj.id \in Nat
      <4>1. traj.id \in Nat /\ now \in Nat /\ MaxDelay \in Nat
        BY <1>1 DEF LinkInv
      <4>2. local.id = traj.id + Len(link) /\ Len(link) \in Nat
        BY <1>3
      <4>3. i = Len(link) + 1
        BY <1>1, <1>3, <2>2, <4>2
      <4> DEFINE l == Len(link)
                 d == traj.id
                 e == local.id
      <4>4. d \in Nat /\ l \in Nat /\ e = d + l /\ i = l + 1
        BY <4>1, <4>2, <4>3
      <4> HIDE DEF l, d, e
      <4>5. d + i = e + 1
        BY <4>4
      <4> QED
        BY <4>1, <4>5 DEF d, e
    <3>5. GoesOn(Before(i)', link'[i].from, link'[i].taken)
      BY <1>4, <3>1, <3>2
    <3> QED
      BY <1>4, <3>1, <3>3, <3>4, <3>5
  <2> QED
    BY <1>3, <1>6, <2>1, <2>2
<1>8. LinkInv'
  <2>1. local' = IF link' = << >> THEN traj' ELSE link'[Len(link')]
    BY <1>6
  <2>2. local'.id \in 0 .. MaxTrajs /\ local'.id # 0
    <3>1. local.id \in Nat /\ local.id < MaxTrajs
      BY <1>1, <1>3
    <3> QED
      BY <1>1, <1>4, <3>1
  <2>3. /\ traj'.id # 0 => Sound(traj)'
        /\ traj'.id \in Nat
        /\ traj'.id = 0 => traj'.start = 0
    BY <1>1 DEF LinkInv, Sound
  <2> QED
    BY <1>5, <1>6, <1>7, <2>1, <2>2, <2>3 DEF LinkInv, GoesOn
<1>9. CmdInv'
  <2>1. \A i \in 1 .. Len(link') : Behind(link[i])'
    <3> SUFFICES ASSUME NEW i \in 1 .. Len(link') PROVE Behind(link[i])'
      OBVIOUS
    <3>1. CASE i \in 1 .. Len(link)
      BY <1>1, <1>6, <3>1 DEF CmdInv, Behind
    <3>2. CASE i = Len(link) + 1
      BY <1>1, <1>4, <1>6, <3>2 DEF CmdInv, Behind
    <3> QED
      BY <1>3, <1>6, <3>1, <3>2
  <2> QED
    BY <1>1, <2>1 DEF CmdInv, Behind
<1> QED
  BY <1>8, <1>9

LEMMA InstallKeeps ==
  ASSUME IInv, Install, Publish(local'), UNCHANGED <<traj, yaw, timeLast, cmd>>
  PROVE  IInv'
<1>1. CallInv /\ call.pc = "optimize" /\ now \in Nat
  BY BoundsAssumption DEF IInv, Install
<1>2. /\ call.initial \in Places /\ call.target \in Places /\ call.read \in 0 .. now
      /\ GoesOn(local, call.initial, call.read) /\ local.id < MaxTrajs
  BY <1>1 DEF CallInv
<1>3. PICK stretch \in {1, 2} :
        local' = Trajectory(local.id + 1, call.initial, call.target,
                            stretch * Distance(call.initial, call.target), call.read)
  BY DEF Install, UpdateTrajInfo
<1>4. Distance(call.initial, call.target) \in Nat
  BY <1>2, PlacesAreNumbers, DistanceType
<1> DEFINE d == Distance(call.initial, call.target)
           duration == stretch * d
<1>5. duration \in Nat /\ d <= duration
  BY <1>4
<1> HIDE DEF duration
<1>6. /\ local' = Trajectory(local.id + 1, call.initial, call.target, duration, call.read)
      /\ Distance(call.initial, call.target) <= duration
  BY <1>3, <1>5 DEF duration
<1>7. LinkInv' /\ CmdInv'
  BY <1>2, <1>5, <1>6, PublishKeeps DEF Publish, Install
<1>8. CallInv'
  BY DEF Install, CallInv, Calls, Idle
<1> QED
  BY <1>7, <1>8 DEF IInv, YawInv, Install

LEMMA EmergencyKeeps ==
  ASSUME IInv, EmergencyStop(cmd.pos, cmd.at), Publish(local'),
         UNCHANGED <<traj, yaw, timeLast, cmd>>
  PROVE  IInv'
<1>1. LinkInv /\ CmdInv /\ CallInv /\ now \in Nat /\ local.id < MaxTrajs /\ call.pc = "idle"
  BY BoundsAssumption DEF IInv, EmergencyStop
<1>2. cmd.pos \in Places /\ cmd.at \in 0 .. now /\ GoesOn(local, cmd.pos, cmd.at)
  BY <1>1, CommandGoesOn DEF CmdInv
<1>3. Distance(cmd.pos, cmd.pos) <= StopTime /\ StopTime \in Nat
  BY <1>2, PlacesAreNumbers, BoundsAssumption DEF Distance
<1>4. LinkInv' /\ CmdInv'
  BY <1>1, <1>2, <1>3, PublishKeeps DEF Publish, EmergencyStop, UpdateTrajInfo
<1>5. CallInv'
  BY <1>1 DEF EmergencyStop, CallInv
<1> QED
  BY <1>4, <1>5 DEF IInv, YawInv, EmergencyStop

LEMMA PlannerKeeps == ASSUME IInv, PlannerStep PROVE IInv'
<1>1. now \in Nat /\ CallInv
  BY BoundsAssumption DEF IInv
<1>2. ASSUME PlanFromGlobalTraj(cmd.pos, cmd.at) \/ PlanFromCurrentTraj \/ CloseToGoal
               \/ InitFromPolynomial \/ InitFromPrevious \/ OptimizeFails,
             UNCHANGED serverVars
      PROVE  IInv'
  <2>1. UNCHANGED <<now, local>>
    BY <1>2 DEF PlanFromGlobalTraj, PlanFromCurrentTraj, CloseToGoal, InitFromPolynomial,
                InitFromPrevious, OptimizeFails
  <2>2. CallInv'
    BY <1>1, <1>2, <2>1, PlanKeeps, PolynomialKeeps, PreviousKeeps, AttemptKeeps
       DEF CloseToGoal, OptimizeFails
  <2> QED
    BY <1>2, <2>1, <2>2, QuietPlanner
<1> QED
  BY <1>2, InstallKeeps, EmergencyKeeps DEF PlannerStep

-----------------------------------------------------------------------------
(* The yaw *)

\* A yaw that is no more than `most` from the last one, one way or the other.
Turned(y, most) ==
  /\ y \in -HalfTurn .. HalfTurn
  /\ Distance(y, yaw) <= most \/ 2 * HalfTurn - Distance(y, yaw) <= most

LEMMA LimitedYaw ==
  ASSUME yaw \in -HalfTurn .. HalfTurn, NEW goal \in -HalfTurn .. HalfTurn, NEW most \in Nat
  PROVE  Turned(Limited(goal, most), most)
<1>1. HalfTurn \in Nat \ {0} /\ yaw \in Int /\ goal \in Int
  BY AnglesAssumption
<1>2. CASE Turn(goal) < -most
  <2>1. Limited(goal, most) = Wrapped(yaw - most)
    <3>1. Turn(goal) \in Int
      BY <1>1 DEF Turn
    <3>2. ~(Turn(goal) > most)
      BY <1>2, <3>1
    <3> QED
      BY <1>2, <3>2 DEF Limited
  <2>2. most < HalfTurn
    BY <1>1, <1>2 DEF Turn
  <2> QED
    BY <1>1, <2>1, <2>2 DEF Wrapped, Turned, Distance
<1>3. CASE ~(Turn(goal) < -most) /\ Turn(goal) > most
  <2>1. Limited(goal, most) = Wrapped(yaw + most)
    BY <1>3 DEF Limited
  <2>2. most < HalfTurn
    BY <1>1, <1>3 DEF Turn
  <2> QED
    BY <1>1, <2>1, <2>2 DEF Wrapped, Turned, Distance
<1>4. CASE ~(Turn(goal) < -most) /\ ~(Turn(goal) > most)
  <2>1. Limited(goal, most) = goal
    BY <1>4 DEF Limited
  <2> QED
    BY <1>1, <1>4, <2>1 DEF Turn, Turned, Distance
<1> QED
  BY <1>2, <1>3, <1>4

LEMMA FilteredYaw ==
  ASSUME yaw \in -HalfTurn .. HalfTurn, NEW a, NEW most \in Nat, Turned(a, most),
         NEW y \in Filtered(a, most)
  PROVE  Turned(y, most)
<1>1. HalfTurn \in Nat /\ yaw \in Int /\ a \in Int /\ a \in -HalfTurn .. HalfTurn
  BY AnglesAssumption DEF Turned
<1>2. CASE Distance(a, yaw) <= most
  <2> DEFINE s == yaw + a
             q == s \div 2
             r == -((-s) \div 2)
  <2>1. s \in Int /\ s = yaw + a /\ y \in {q, r}
    BY <1>1, <1>2 DEF Filtered
  <2> HIDE DEF s
  <2>2. q \in Int /\ r \in Int /\ 2 * q <= s /\ s <= 2 * q + 1 /\ 2 * r >= s /\ s >= 2 * r - 1
    BY <2>1
  <2> HIDE DEF q, r
  <2> QED
    BY <1>1, <1>2, <2>1, <2>2 DEF Turned, Distance
<1>3. CASE ~(Distance(a, yaw) <= most)
  BY <1>3 DEF Filtered
<1> QED
  BY <1>2, <1>3

Most == Rate * (now - TimeLast)

LEMMA MostType == ASSUME IInv PROVE Most \in Nat
<1>1. Rate \in Nat /\ now - TimeLast \in Nat
  BY AnglesAssumption, BoundsAssumption DEF IInv, YawInv, TimeLast
<1> DEFINE t == now - TimeLast
<1>2. Rate \in Nat /\ t \in Nat
  BY <1>1
<1> HIDE DEF t
<1>3. Rate * t \in Nat
  BY <1>2
<1> QED
  BY <1>3 DEF Most, t

LEMMA YawsTurn ==
  ASSUME IInv, NEW t, NEW y \in Yaws(t)
  PROVE  Turned(y, Most)
<1>1. yaw \in -HalfTurn .. HalfTurn /\ Most \in Nat
  BY MostType DEF IInv, YawInv
<1>2. PICK goal \in Goals(t) : y \in Filtered(Limited(goal, Most), Most)
  BY DEF Yaws, Most
<1>3. goal \in -HalfTurn .. HalfTurn
  <2>1. goal \in {yaw} \union Headings
    BY <1>2 DEF Goals
  <2> QED
    BY <1>1, <2>1, AnglesAssumption
<1>4. Turned(Limited(goal, Most), Most)
  BY <1>1, <1>3, LimitedYaw
<1> QED
  BY <1>1, <1>2, <1>4, FilteredYaw

-----------------------------------------------------------------------------
(* The commands *)

LEMMA TrajectoryKnown ==
  ASSUME IInv, traj.id # 0
  PROVE  /\ Flyable(traj) /\ traj.start \in 0 .. now /\ now \in Nat /\ traj.id \in Nat
         /\ traj.taken \in 0 .. now
<1>1. LinkInv /\ now \in Nat /\ Sound(traj)
  BY BoundsAssumption DEF IInv, LinkInv
<1> QED
  BY <1>1, SoundFlyable

\* Every command is where the trajectory is now.
LEMMA CommandIsOnTrajectory ==
  ASSUME IInv, traj.id # 0, NEW c \in Commands
  PROVE  /\ c.mode \in {"fly", "hover"}
         /\ c.pos = PositionAt(traj, now - traj.start) /\ c.pos \in Places
         /\ Turned(c.yaw, Most)
<1> DEFINE t == now - traj.start
<1>1. Flyable(traj) /\ t \in Nat /\ t \in Int /\ traj.duration \in Nat
  BY TrajectoryKnown DEF Flyable
<1>2. Turned(yaw, Most)
  <2>1. yaw \in -HalfTurn .. HalfTurn /\ Most \in Nat
    BY MostType DEF IInv, YawInv
  <2>2. Distance(yaw, yaw) = 0
    BY <2>1, AnglesAssumption DEF Distance
  <2> QED
    BY <2>1, <2>2 DEF Turned
<1>3. CASE 0 <= t /\ t < traj.duration
  <2>1. c \in [mode : {"fly"}, pos : {PositionAt(traj, t)}, yaw : Yaws(t)]
    <3>1. ~(traj.duration <= t)
      BY <1>1, <1>3
    <3> QED
      BY <1>3, <3>1 DEF Commands
  <2> QED
    BY <1>1, <2>1, AlongTrajectory, YawsTurn
<1>4. CASE ~(0 <= t /\ t < traj.duration)
  <2>1. traj.duration <= t
    BY <1>1, <1>4
  <2>2. c \in [mode : {"hover"}, pos : {PositionAt(traj, traj.duration)}, yaw : {yaw}]
    BY <1>4, <2>1 DEF Commands
  <2>3. PositionAt(traj, traj.duration) = traj.to
    BY <1>1, AlongTrajectory
  <2>4. PositionAt(traj, t) = traj.to /\ PositionAt(traj, t) \in Places
    BY <1>1, <2>1, AlongTrajectory
  <2> QED
    BY <1>2, <2>2, <2>3, <2>4
<1> QED
  BY <1>3, <1>4

\* A new command is where the trajectory is, and of the trajectory.
LEMMA CmdCallbackKeeps == ASSUME IInv, CmdCallback PROVE IInv'
<1>1. LinkInv /\ CallInv /\ CmdInv /\ YawInv /\ now \in 0 .. MaxNow /\ now \in Nat
  BY BoundsAssumption DEF IInv
<1>2. PICK c \in Commands :
        /\ cmd' = [mode |-> c.mode, pos |-> c.pos, at |-> now, id |-> traj.id, start |-> traj.start]
        /\ yaw' = c.yaw
  BY DEF CmdCallback
<1>3. traj.id # 0 /\ timeLast' = now /\ UNCHANGED <<now, local, call, link, traj>>
  BY DEF CmdCallback, plannerVars
<1>4. /\ c.mode \in {"fly", "hover"}
      /\ c.pos = PositionAt(traj, now - traj.start) /\ c.pos \in Places
      /\ Turned(c.yaw, Most)
  BY <1>3, CommandIsOnTrajectory
<1>5. /\ cmd'.mode = c.mode /\ cmd'.pos = c.pos /\ cmd'.at = now
      /\ cmd'.id = traj.id /\ cmd'.start = traj.start
  BY <1>2
<1>6. traj.start \in 0 .. now /\ traj.id \in Nat
  BY <1>3, TrajectoryKnown
<1>7. LinkInv'
  BY <1>1, <1>3 DEF LinkInv, Sound, Before, GoesOn
<1>8. CallInv'
  BY <1>1, <1>3 DEF CallInv, GoesOn
<1>9. CmdInv'
  <2>1. \A i \in 1 .. Len(link') : Behind(link[i])'
    BY <1>1, <1>3, <1>5 DEF LinkInv, Behind
  <2>2. Behind(traj)'
    BY <1>3, <1>5, <1>6 DEF Behind
  <2>3. cmd'.mode \in {"none", "fly", "hover"} /\ cmd'.pos \in Places
        /\ cmd'.at \in 0 .. now' /\ cmd'.start \in Nat /\ cmd'.id \in 0 .. traj'.id
    BY <1>1, <1>3, <1>4, <1>5, <1>6
  <2>4. cmd'.pos = PositionAt(traj', cmd'.at - traj'.start) /\ traj'.start <= cmd'.at
        /\ cmd'.start = traj'.start /\ cmd'.id # 0 /\ cmd'.id + 1 # traj'.id
    BY <1>1, <1>3, <1>4, <1>5, <1>6
  <2> QED
    BY <2>1, <2>2, <2>3, <2>4 DEF CmdInv, PositionAt
<1>10. YawInv'
  BY <1>1, <1>2, <1>3, <1>4 DEF YawInv, Turned
<1> QED
  BY <1>1, <1>3, <1>7, <1>8, <1>9, <1>10 DEF IInv

LEMMA DistanceSymmetric ==
  ASSUME NEW a \in Int, NEW b \in Int
  PROVE  Distance(a, b) = Distance(b, a)
  BY DEF Distance

\* Two places of a trajectory are no farther apart than the ticks between them.
LEMMA BothWays ==
  ASSUME NEW m, Flyable(m), NEW s \in Int, NEW t \in Int
  PROVE  Distance(PositionAt(m, t), PositionAt(m, s)) <= Distance(t, s)
<1>1. CASE s <= t
  BY <1>1, AlongTrajectory DEF Distance
<1>2. CASE ~(s <= t)
  <2>1. Distance(PositionAt(m, s), PositionAt(m, t)) <= s - t
        /\ PositionAt(m, s) \in Int /\ PositionAt(m, t) \in Int
    BY <1>2, AlongTrajectory, PlacesAreNumbers
  <2>2. Distance(PositionAt(m, t), PositionAt(m, s)) <= s - t
    BY <2>1, DistanceSymmetric
  <2> QED
    BY <1>2, <2>2 DEF Distance
<1> QED
  BY <1>1, <1>2

\* A trajectory that arrives goes on from where the one before it took, or may
\* still take, the vehicle.
LEMMA DeliverKeeps == ASSUME IInv, Deliver PROVE IInv'
<1>1. LinkInv /\ CallInv /\ CmdInv /\ YawInv /\ now \in Nat /\ MaxDelay \in Nat
  BY BoundsAssumption, AnglesAssumption DEF IInv
<1>2. /\ link # << >> /\ traj' = link[1] /\ link' = Tail(link)
      /\ UNCHANGED <<now, local, call, yaw, timeLast, cmd>>
  BY DEF Deliver, BsplineCallback, plannerVars
<1>3. /\ link \in Seq(Messages) /\ link' \in Seq(Messages)
      /\ Len(link) \in Nat \ {0} /\ Len(link') = Len(link) - 1
      /\ \A i \in 1 .. Len(link') : link'[i] = link[i + 1] /\ i + 1 \in 1 .. Len(link)
  BY <1>1, <1>2 DEF LinkInv
<1>4. /\ traj.id \in Nat /\ 1 \in 1 .. Len(link)
      /\ Sound(link[1]) /\ link[1].id = traj.id + 1
      /\ GoesOn(traj, link[1].from, link[1].taken)
  BY <1>1, <1>3 DEF LinkInv, Before
<1>5. traj'.id = traj.id + 1 /\ Sound(traj)' /\ traj'.id # 0 /\ traj'.id \in Nat
  BY <1>2, <1>4 DEF Sound
<1>6. ASSUME NEW i \in 1 .. Len(link')
      PROVE  /\ Sound(link[i])'
             /\ now <= link'[i].start + MaxDelay
             /\ link'[i].id = traj'.id + i
             /\ GoesOn(Before(i)', link'[i].from, link'[i].taken)
  <2>1. i + 1 \in 1 .. Len(link) /\ link'[i] = link[i + 1] /\ i \in Int /\ i >= 1
    BY <1>3
  <2>2. /\ Sound(link[i + 1]) /\ now <= link[i + 1].start + MaxDelay
        /\ link[i + 1].id = traj.id + (i + 1)
        /\ GoesOn(Before(i + 1), link[i + 1].from, link[i + 1].taken)
    BY <1>1, <2>1 DEF LinkInv
  <2>3. Before(i)' = Before(i + 1)
    <3>1. Before(i + 1) = link[i]
      BY <2>1 DEF Before
    <3>2. CASE i = 1
      BY <1>2, <3>1, <3>2 DEF Before
    <3>3. CASE i # 1
      <4>1. i - 1 \in 1 .. Len(link') /\ (i - 1) + 1 = i
        BY <1>3, <2>1, <3>3
      <4>2. link'[i - 1] = link[i]
        BY <1>3, <4>1
      <4> QED
        BY <3>1, <3>3, <4>2 DEF Before
    <3> QED
      BY <3>2, <3>3
  <2>4. Sound(link[i])'
    BY <1>2, <2>1, <2>2 DEF Sound
  <2>5. link'[i].id = traj'.id + i
    <3>1. link'[i].id = traj.id + (i + 1)
      BY <2>1, <2>2
    <3>2. traj.id \in Nat /\ traj'.id = traj.id + 1 /\ i \in Int
      BY <1>4, <1>5, <2>1
    <3> DEFINE n == traj.id
               x == traj'.id
               y == link'[i].id
    <3>3. n \in Nat /\ i \in Int /\ x = n + 1 /\ y = n + (i + 1)
      BY <3>1, <3>2
    <3> HIDE DEF n, x, y
    <3>4. y = x + i
      BY <3>3
    <3> QED
      BY <3>4 DEF x, y
  <2> QED
    BY <2>1, <2>2, <2>3, <2>4, <2>5
<1>7. LinkInv'
  <2>1. local' = IF link' = << >> THEN traj' ELSE link'[Len(link')]
    <3>1. local = link[Len(link)]
      BY <1>1, <1>2 DEF LinkInv
    <3>2. CASE link' = << >>
      <4>1. Len(link') = 0
        BY <3>2
      <4>2. Len(link) = 1
        BY <1>3, <4>1
      <4> QED
        BY <1>2, <3>1, <3>2, <4>2
    <3>3. CASE link' # << >>
      <4>1. Len(link') \in 1 .. Len(link') /\ Len(link') + 1 = Len(link)
        BY <1>3, <3>3
      <4>2. link'[Len(link')] = link[Len(link)]
        BY <1>3, <4>1
      <4> QED
        BY <1>2, <3>1, <3>3, <4>2
    <3> QED
      BY <3>2, <3>3
  <2>2. /\ local'.id \in 0 .. MaxTrajs
        /\ local'.id # 0 => Sound(local)'
        /\ local'.id = 0 => local'.start = 0
    BY <1>1, <1>2 DEF LinkInv, Sound
  <2> QED
    BY <1>2, <1>3, <1>5, <1>6, <2>1, <2>2 DEF LinkInv, GoesOn
<1>8. CallInv'
  BY <1>1, <1>2 DEF CallInv, GoesOn
<1>9. CmdInv'
  <2>1. /\ cmd.mode \in {"none", "fly", "hover"} /\ cmd.pos \in Places
        /\ cmd.at \in 0 .. now /\ cmd.start \in Nat /\ cmd.id \in 0 .. traj.id
        /\ (cmd.id = 0 => cmd.at = 0 /\ cmd.start = 0)
        /\ \A i \in 1 .. Len(link) : Behind(link[i])
    BY <1>1 DEF CmdInv
  <2>2. Behind(traj)' /\ \A i \in 1 .. Len(link') : Behind(link[i])'
    BY <1>2, <1>3, <1>4, <2>1 DEF Behind
  <2>3. cmd'.id \in 0 .. traj'.id /\ cmd'.id # traj'.id
    BY <1>2, <1>4, <1>5, <2>1
  <2>4. ASSUME cmd.id + 1 = traj'.id, cmd.start + MaxDelay < traj'.taken
        PROVE  Distance(traj'.from, cmd.pos) <= Distance(traj'.taken, cmd.at)
    <3>1. cmd.id = traj.id
      BY <1>4, <1>5, <2>1, <2>4
    <3>2. traj'.taken \in Nat /\ traj'.from = link[1].from /\ traj'.taken = link[1].taken
      BY <1>2, <1>4, SoundFlyable
    <3>3. traj.id # 0
      <4> SUFFICES ASSUME traj.id = 0 PROVE FALSE
        OBVIOUS
      <4>1. cmd.start = 0 /\ traj.start = 0
        BY <1>1, <2>1, <3>1 DEF LinkInv
      <4>2. traj'.taken <= 0 + MaxDelay
        BY <1>4, <3>2, <4>1 DEF GoesOn
      <4> QED
        BY <1>1, <2>4, <3>2, <4>1, <4>2
    <3>4. cmd.start = traj.start /\ cmd.pos = PositionAt(traj, cmd.at - traj.start)
      BY <1>1, <3>1, <3>3 DEF CmdInv
    <3>5. Flyable(traj) /\ traj.start \in Nat
      BY <3>3, TrajectoryKnown
    <3>6. ~(traj'.taken <= traj.start + MaxDelay)
      BY <1>1, <2>4, <3>2, <3>4, <3>5
    <3>7. traj'.from = PositionAt(traj, traj'.taken - traj.start)
      BY <1>4, <3>2, <3>6 DEF GoesOn
    <3> DEFINE s == cmd.at - traj.start
               t == traj'.taken - traj.start
    <3>8. s \in Int /\ t \in Int /\ Distance(t, s) = Distance(traj'.taken, cmd.at)
      BY <2>1, <3>2, <3>5 DEF Distance
    <3>9. PositionAt(traj, t) = traj'.from /\ PositionAt(traj, s) = cmd.pos
      BY <3>4, <3>7
    <3> HIDE DEF s, t
    <3>10. Distance(PositionAt(traj, t), PositionAt(traj, s)) <= Distance(t, s)
      BY <3>5, <3>8, BothWays
    <3> QED
      BY <3>8, <3>9, <3>10
  <2> QED
    BY <1>2, <2>1, <2>2, <2>3, <2>4 DEF CmdInv
<1>10. YawInv' /\ now' \in 0 .. MaxNow
  BY <1>1, <1>2 DEF YawInv, IInv
<1> QED
  BY <1>7, <1>8, <1>9, <1>10 DEF IInv

\* Nothing is in transit for longer than the delay.
LEMMA TimePassesKeeps == ASSUME IInv, TimePasses PROVE IInv'
<1>1. /\ LinkInv /\ CallInv /\ CmdInv /\ YawInv /\ now \in Nat /\ MaxNow \in Nat
      /\ MaxDelay \in Nat
  BY BoundsAssumption, AnglesAssumption DEF IInv
<1>2. /\ now' = now + 1 /\ now < MaxNow /\ UNCHANGED <<local, link, traj, yaw, timeLast, cmd>>
      /\ \A i \in 1 .. Len(link) : now - link[i].start < MaxDelay
      /\ call' = IF Planning THEN [call EXCEPT !.spent = @ + 1] ELSE call
  <2>1. DOMAIN link = 1 .. Len(link)
    BY <1>1 DEF LinkInv
  <2> QED
    BY <2>1 DEF TimePasses, Tick, serverVars
<1>3. LinkInv'
  <2>1. ASSUME NEW m, Sound(m)
        PROVE  m \in Messages /\ Distance(m.from, m.to) <= m.duration
               /\ m.start <= now' /\ m.taken <= now' /\ m.start \in Nat
    BY <1>1, <1>2, <2>1 DEF Sound, Messages
  <2>2. ASSUME NEW i \in 1 .. Len(link)
        PROVE  now' <= link[i].start + MaxDelay
    <3>1. link[i].start \in Nat
      BY <1>1, <2>1 DEF LinkInv
    <3> QED
      BY <1>1, <1>2, <3>1
  <2> QED
    BY <1>1, <1>2, <2>1, <2>2 DEF LinkInv, Sound, Before, GoesOn
<1>4. CallInv'
  <2>1. /\ call' \in Calls
        /\ call'.pc = call.pc /\ call'.todo = call.todo
        /\ call'.start = call.start /\ call'.taken = call.taken /\ call'.target = call.target
        /\ call'.initial = call.initial /\ call'.read = call.read
    <3>1. call \in Calls /\ call.spent + 1 \in Nat
      BY <1>1 DEF CallInv, Calls
    <3>2. CASE call' = call
      BY <3>1, <3>2
    <3>3. CASE call' = [call EXCEPT !.spent = call.spent + 1]
      BY <3>1, <3>3 DEF Calls
    <3> QED
      BY <1>2, <3>2, <3>3
  <2>2. \A n : n \in 0 .. now => n \in 0 .. now'
    BY <1>1, <1>2
  <2> QED
    BY <1>1, <1>2, <2>1, <2>2 DEF CallInv, GoesOn
<1>5. CmdInv'
  BY <1>1, <1>2 DEF CmdInv, Behind
<1>6. YawInv'
  BY <1>1, <1>2 DEF YawInv
<1> QED
  BY <1>1, <1>2, <1>3, <1>4, <1>5, <1>6 DEF IInv

LEMMA StutterKeeps == ASSUME IInv, UNCHANGED vars PROVE IInv'
<1>1. UNCHANGED <<now, local, serverVars>> /\ call' = call
  BY DEF vars, plannerVars
<1>2. CallInv'
  BY <1>1 DEF IInv, CallInv, GoesOn
<1> QED
  BY <1>1, <1>2, QuietPlanner

-----------------------------------------------------------------------------
(* Theorems *)

\* The inductive invariant: every trajectory, from the planning that read its
\* start to the command, goes on from the one before it or from where the
\* vehicle was while that one could not have arrived.
\* (planner_manager.cpp, ego_replan_fsm.cpp and traj_server.cpp)
THEOREM ServerInvariance == Spec => []IInv
<1>1. IInv /\ [Next]_vars => IInv'
  BY PlannerKeeps, DeliverKeeps, CmdCallbackKeeps, TimePassesKeeps, StutterKeeps DEF Next
<1> QED
  BY <1>1, InitIInv, PTL DEF Spec

\* No command is the origin that stands for a trajectory yet to begin, and the
\* server stays at the end of the planner's last trajectory.
\* (cmdCallback, updateTrajInfo)
THEOREM ServerCorrect == Spec => []ServerInv
<1>1. IInv => ServerInv
  <2> SUFFICES ASSUME IInv PROVE ServerInv
    OBVIOUS
  <2>1. LinkInv /\ CallInv /\ CmdInv /\ YawInv /\ now \in Nat
    BY BoundsAssumption DEF IInv
  <2>2. TypeOK /\ CommandsAreValid
    BY <2>1 DEF IInv, TypeOK, CommandsAreValid, LinkInv, CallInv, Calls, CmdInv, YawInv
  <2>3. ASSUME cmd.id = local.id, cmd.id # 0, cmd.at >= local.start + local.duration
        PROVE  cmd.pos = local.to
    <3>1. /\ local.id = traj.id + Len(link) /\ Len(link) \in Nat
          /\ link = << >> => local = traj
      BY <2>1, LocalIsLast
    <3>2. cmd.id \in 0 .. traj.id /\ traj.id \in Nat /\ link \in Seq(Messages)
          /\ cmd.at \in 0 .. now
      BY <2>1 DEF CmdInv, LinkInv
    <3>3. Len(link) = 0 /\ cmd.id = traj.id
      BY <2>3, <3>1, <3>2
    <3>4. local = traj /\ traj.id # 0
      BY <2>3, <3>1, <3>2, <3>3
    <3>5. cmd.pos = PositionAt(local, cmd.at - local.start)
      BY <2>1, <3>3, <3>4 DEF CmdInv
    <3>6. Flyable(local) /\ local.start \in Nat /\ local.duration \in Nat
      BY <3>4, TrajectoryKnown DEF Flyable
    <3> DEFINE t == cmd.at - local.start
    <3>7. t \in Int /\ local.duration <= t
      BY <2>3, <3>2, <3>6
    <3>8. PositionAt(local, t) = local.to
      BY <3>6, <3>7, AlongTrajectory
    <3> QED
      BY <3>5, <3>8
  <2> QED
    BY <2>2, <2>3 DEF ServerInv, RestsAtTheEnd
<1> QED
  BY <1>1, ServerInvariance, PTL

\* Between two commands the vehicle is sent no farther than the delays of the
\* trajectory that takes over explain, for every delay within the bound and
\* every order of planning, publishing, receiving and commanding.
\* (reboundReplan, planFromCurrentTraj, bsplineCallback, cmdCallback)
THEOREM JumpsBounded == Spec => JumpsAreDelays
<1> DEFINE Jump == LET jump == Distance(cmd'.pos, cmd.pos)
                   IN IF cmd.id = traj.id THEN jump <= now - cmd.at
                      ELSE cmd.id + 1 = traj.id /\ cmd.start + MaxDelay < traj.taken =>
                             jump <= (now - Lesser(traj.taken, cmd.at)) + (now - traj.start)
<1>1. IInv /\ [Next]_vars => [Jump]_cmd
  <2> SUFFICES ASSUME IInv, Next, cmd' # cmd PROVE Jump
    BY DEF vars, serverVars
  <2>1. CmdCallback
    BY DEF Next, PlannerStep, Deliver, TimePasses, serverVars
  <2>2. traj.id # 0
    BY <2>1 DEF CmdCallback
  <2>3. PICK c \in Commands : cmd'.pos = c.pos
    BY <2>1 DEF CmdCallback
  <2>4. CmdInv /\ Flyable(traj) /\ traj.start \in 0 .. now /\ now \in Nat /\ traj.taken \in 0 .. now
    BY <2>2, TrajectoryKnown DEF IInv
  <2>5. cmd.at \in 0 .. now /\ cmd.pos \in Int
    BY <2>4, PlacesAreNumbers DEF CmdInv
  <2> DEFINE t == now - traj.start
             s == cmd.at - traj.start
  <2>6. cmd'.pos = PositionAt(traj, t) /\ cmd'.pos \in Int
    BY <2>2, <2>3, CommandIsOnTrajectory, PlacesAreNumbers
  <2>7. t \in Nat /\ t \in Int /\ s \in Int /\ s <= t /\ t - s = now - cmd.at
    BY <2>4, <2>5
  <2>8. CASE cmd.id = traj.id
    <3>1. cmd.pos = PositionAt(traj, s)
      BY <2>2, <2>4, <2>8 DEF CmdInv
    <3> HIDE DEF s, t
    <3>2. Distance(PositionAt(traj, t), PositionAt(traj, s)) <= t - s
      BY <2>4, <2>7, AlongTrajectory
    <3> QED
      BY <2>6, <2>7, <2>8, <3>1, <3>2
  <2>9. CASE cmd.id # traj.id
    <3> SUFFICES ASSUME cmd.id + 1 = traj.id, cmd.start + MaxDelay < traj.taken
                 PROVE  Distance(cmd'.pos, cmd.pos)
                          <= (now - Lesser(traj.taken, cmd.at)) + (now - traj.start)
      BY <2>9
    <3>1. Distance(traj.from, cmd.pos) <= Distance(traj.taken, cmd.at)
      BY <2>4 DEF CmdInv
    <3>2. Distance(PositionAt(traj, t), PositionAt(traj, 0)) <= t - 0
          /\ PositionAt(traj, 0) = traj.from /\ traj.from \in Int
      BY <2>4, <2>7, AlongTrajectory, PlacesAreNumbers DEF Flyable
    <3>3. Distance(cmd'.pos, traj.from) <= now - traj.start
      BY <2>6, <2>7, <3>2
    <3>4. Distance(cmd'.pos, cmd.pos) <= Distance(cmd'.pos, traj.from) + Distance(traj.from, cmd.pos)
      BY <2>5, <2>6, <3>2 DEF Distance
    <3>5. Distance(traj.taken, cmd.at) <= now - Lesser(traj.taken, cmd.at)
      BY <2>4, <2>5 DEF Distance, Lesser
    <3>6. /\ Distance(cmd'.pos, traj.from) \in Int /\ Distance(traj.from, cmd.pos) \in Int
          /\ Distance(cmd'.pos, cmd.pos) \in Int /\ Distance(traj.taken, cmd.at) \in Int
          /\ Lesser(traj.taken, cmd.at) \in Int
      BY <2>4, <2>5, <2>6, <3>2 DEF Distance, Lesser
    <3> QED
      BY <2>4, <3>1, <3>3, <3>4, <3>5, <3>6
  <2> QED
    BY <2>8, <2>9
<1> QED
  BY <1>1, ServerInvariance, PTL DEF Spec, JumpsAreDelays

\* The yaw keeps its rate, across the turn too, for every rate and heading.
\* (calculate_yaw)
THEOREM YawCorrect == Spec => YawKeepsItsRate
<1> DEFINE Turns == LET d == Distance(yaw', yaw)
                    IN /\ yaw' \in -HalfTurn .. HalfTurn
                       /\ d <= Rate * (now - TimeLast) \/ 2 * HalfTurn - d <= Rate * (now - TimeLast)
<1>1. IInv /\ [Next]_vars => [Turns]_yaw
  <2> SUFFICES ASSUME IInv, Next, yaw' # yaw PROVE Turns
    BY DEF vars, serverVars
  <2>1. CmdCallback
    BY DEF Next, PlannerStep, Deliver, TimePasses, serverVars
  <2>2. PICK c \in Commands : yaw' = c.yaw
    BY <2>1 DEF CmdCallback
  <2>3. traj.id # 0
    BY <2>1 DEF CmdCallback
  <2>4. Turned(yaw', Most)
    BY <2>2, <2>3, CommandIsOnTrajectory
  <2> QED
    BY <2>4 DEF Turned, Most
<1> QED
  BY <1>1, ServerInvariance, PTL DEF Spec, YawKeepsItsRate
=============================================================================
