------------------------ MODULE AvailabilityHoldsProofs ------------------------
(***************************************************************************)
(* Theorems about holds, the HALT switch and replays (AvailabilityHolds),  *)
(* for any lanes, scopes, pools and actors.  What makes the property       *)
(* inductive is how the two timers relate to what they stand for: the      *)
(* timer of the holds is armed for the expiry of a row that is still       *)
(* there, no later than any expiry to come, and the other for the end of   *)
(* the HALT file.                                                          *)
(***************************************************************************)
EXTENDS AvailabilityHolds, WellFoundedInduction, TLAPS

(* A timer for the expiries of the rows rs, at the instant t. *)
Fits(timer, rs, t) ==
  /\ timer # Off => \E r \in rs : r.expiry = timer
  /\ \A r \in rs : r.expiry > t /\ r.expiry # Never => timer # Off /\ timer <= r.expiry

HoldTimerFits == Fits(holdTimer, rows, now)

HaltTimerFits == haltTimer # Off => haltTimer = brake

(* No start keeps a lane that a hold or the HALT file has closed. *)
ClaimedLaneIsOpen ==
  \A a \in Actor : start[a] = "claimed" => lane[a] \in Pool[a] \ Halted(rows, brake, now)

IndInv ==
  /\ TypeOK /\ WithheldForReason /\ ClaimedLaneIsOpen
  /\ HoldTimerFits /\ HaltTimerFits

-----------------------------------------------------------------------------
LEMMA NumberTypes ==
  /\ MaxTime \in Nat /\ MaxChanges \in Nat /\ Never \in Nat /\ Off \in Int
  /\ Time \subseteq Nat /\ \A t \in Time : t < Never
  /\ \A r \in Row : r.scope \in Scope /\ r.origin \in Origin /\ r.expiry \in 0 .. Never
BY HoldsAssumption DEF Never, Off, Time, Row

LEMMA PoolTypes == NoLane \notin Lane /\ \A a \in Actor : Pool[a] \subseteq Lane
<1>1. Pool \in [Actor -> SUBSET Lane]
  BY HoldsAssumption
<1> QED BY <1>1, HoldsAssumption

(* A set of instants that is not empty has an earliest one. *)
LEMMA Earliest ==
  ASSUME NEW T \in SUBSET Nat, T # {}
  PROVE  \E e \in T : \A f \in T : e <= f
<1>1. PICK e \in T : \A f \in T : ~ (<<f, e>> \in OpToRel(<, Nat))
  BY NatLessThanWellFounded, WFMin, Zenon
<1>2. \A f \in T : ~ (f < e)
  BY <1>1 DEF OpToRel
<1> QED BY <1>2

(* schedule() arms the timer for an expiry to come, or leaves it off. *)
LEMMA ScheduledFits ==
  ASSUME NEW rs \in SUBSET Row, NEW t \in Time
  PROVE  Scheduled(rs, t) \in Off .. MaxTime /\ Fits(Scheduled(rs, t), rs, t)
<1> DEFINE U == Upcoming(rs, t)
<1>1. U \subseteq 0 .. MaxTime /\ U \subseteq Nat
  BY NumberTypes, HoldsAssumption DEF Upcoming, Never
<1>2. \A r \in rs : r.expiry > t /\ r.expiry # Never => r.expiry \in U
  BY DEF Upcoming
<1>3. \A e \in U : \E r \in rs : r.expiry = e
  BY DEF Upcoming
<1>4. CASE U = {}
  BY <1>2, <1>4, HoldsAssumption DEF Scheduled, Fits, Off
<1>5. CASE U # {}
  <2> DEFINE s == CHOOSE e \in U : \A f \in U : e <= f
  <2>1. s \in U /\ \A f \in U : s <= f
    BY <1>1, <1>5, Earliest
  <2>2. Scheduled(rs, t) = s
    BY <1>5 DEF Scheduled
  <2> HIDE DEF s, U
  <2>3. s \in Off .. MaxTime /\ s # Off
    BY <1>1, <2>1, HoldsAssumption DEF Off
  <2>4. Fits(s, rs, t)
    BY <1>2, <1>3, <2>1, <2>3 DEF Fits
  <2> QED BY <2>2, <2>3, <2>4
<1> QED BY <1>4, <1>5

(* Rows that keep what the others had in force halt at least the same lanes.  *)
LEMMA HaltedGrows ==
  ASSUME NEW rs, NEW ss, NEW b, NEW t,
         \A r \in rs : r.expiry > t =>
           \E s \in ss : Covers[r.scope] \subseteq Covers[s.scope] /\ s.expiry > t
  PROVE  Halted(rs, b, t) \subseteq Halted(ss, b, t)
BY DEF Halted

(* Who is still withheld after a replay has no open lane. *)
LEMMA ReplayKeeps ==
  ASSUME TypeOK, NEW halts, Replay(halts)
  PROVE  /\ start' \in [Actor -> {"idle", "withheld", "waiting", "claimed"}]
         /\ lane' = lane /\ forgotten' \subseteq Actor
         /\ \A a \in Actor : start'[a] = "withheld" => Blocked(a, halts)
         /\ \A a \in Actor : start'[a] = "claimed" <=> start[a] = "claimed"
BY DEF TypeOK, Replay, Replayed, Withheld

(* Parking withholds starts, and takes the lanes of those that had one. *)
LEMMA ParkKeeps ==
  ASSUME TypeOK, NEW halts, Park(halts)
  PROVE  /\ start' \in [Actor -> {"idle", "withheld", "waiting", "claimed"}]
         /\ lane' \in [Actor -> Lane \cup {NoLane}]
         /\ \A a \in Actor : lane'[a] # NoLane <=> start'[a] = "claimed"
         /\ \A a \in Actor : start'[a] = "withheld" =>
              start[a] = "withheld" \/ a \in Parked(halts)
         /\ \A a \in Actor : start'[a] = "claimed" =>
              start[a] = "claimed" /\ lane'[a] = lane[a] /\ lane[a] \notin halts
<1> USE DEF TypeOK
<1>1. Parked(halts) \subseteq Actor
  BY DEF Parked
<1>2. \A a \in Parked(halts) : start'[a] = "withheld" /\ lane'[a] = NoLane
  BY <1>1 DEF Park
<1>3. \A a \in Actor \ Parked(halts) : start'[a] = start[a] /\ lane'[a] = lane[a]
  BY DEF Park
<1>4. /\ start' \in [Actor -> {"idle", "withheld", "waiting", "claimed"}]
      /\ lane' \in [Actor -> Lane \cup {NoLane}]
  BY DEF Park
<1>5. \A a \in Actor : start[a] = "claimed" /\ lane[a] \in halts => a \in Parked(halts)
  BY DEF Parked
<1> QED BY <1>1, <1>2, <1>3, <1>4, <1>5

-----------------------------------------------------------------------------
LEMMA InitInvariant == Init => IndInv
BY HoldsAssumption
   DEF Init, IndInv, TypeOK, WithheldForReason, Withheld, ClaimedLaneIsOpen, HoldTimerFits,
       HaltTimerFits, Fits, Off, Never, Time

(* A row that replaces the one of its scope and origin. *)
LEMMA SetHoldKeeps ==
  ASSUME IndInv, NEW s \in Scope, NEW o \in Origin, NEW e \in 0 .. Never, SetHold(s, o, e)
  PROVE  IndInv'
<1> USE DEF IndInv, TypeOK
<1> DEFINE kept  == {r \in rows : r.scope # s \/ r.origin # o}
           new   == [scope |-> s, origin |-> o, expiry |-> e]
           after == kept \cup {new}
           halts == Halted(after, brake, now)
<1>1. /\ Change /\ e > now /\ rows' = after /\ holdTimer' = Scheduled(after, now)
      /\ Park(halts)
      /\ forgotten' = forgotten \cup Overtaken(after)
                        \cup {a \in Parked(halts) : ~Blocked(a, halts)}
      /\ UNCHANGED <<brake, haltTimer, now>>
  BY DEF SetHold
<1>2. new \in Row /\ after \subseteq Row /\ new.scope = s /\ new.origin = o /\ new.expiry = e
  BY DEF Row
<1>3. \A r, q \in after : r.scope = q.scope /\ r.origin = q.origin => r = q
  BY <1>2
<1>4. Halted(rows, brake, now) \subseteq halts
  <2>1. \A r \in rows : r.expiry > now =>
          \E q \in after : Covers[r.scope] \subseteq Covers[q.scope] /\ q.expiry > now
    BY <1>1, <1>2
  <2> QED BY <2>1, HaltedGrows
<1> HIDE DEF after, halts, kept, new
<1>5. TypeOK'
  <2>1. forgotten' \subseteq Actor
    BY <1>1 DEF Overtaken, Replayed, Withheld, Parked
  <2>2. holdTimer' \in Off .. MaxTime
    BY <1>1, <1>2, ScheduledFits
  <2>3. changes' \in 0 .. MaxChanges
    BY <1>1, NumberTypes DEF Change
  <2> QED BY <1>1, <1>2, <1>3, <2>1, <2>2, <2>3, ParkKeeps
<1>6. HoldTimerFits' /\ HaltTimerFits'
  BY <1>1, <1>2, ScheduledFits DEF HoldTimerFits, HaltTimerFits
<1>7. Halted(rows, brake, now)' = halts
  BY <1>1 DEF Halted, halts
<1>8. WithheldForReason'
  <2> SUFFICES ASSUME NEW a \in Actor, start'[a] = "withheld", a \notin forgotten',
                      ~Blocked(a, halts)
               PROVE  Due(haltTimer)'
    BY <1>7 DEF WithheldForReason, Withheld, blocked, Blocked
  <2>1. start[a] = "withheld" /\ a \notin forgotten
    BY <1>1, ParkKeeps
  <2>2. ~Due(holdTimer)
    BY <1>1, <2>1, <1>7 DEF Overtaken, Replayed, Withheld, halts
  <2>3. ~blocked(a)
    BY <1>4 DEF blocked, Blocked
  <2> QED BY <1>1, <2>1, <2>2, <2>3 DEF WithheldForReason, Withheld, Due
<1>9. ClaimedLaneIsOpen'
  <2>1. \A a \in Actor : start'[a] = "claimed" => lane'[a] \in Pool[a] \ halts
    BY <1>1, ParkKeeps DEF ClaimedLaneIsOpen
  <2> QED BY <1>7, <2>1 DEF ClaimedLaneIsOpen
<1> QED BY <1>5, <1>6, <1>8, <1>9

(* Rows that go, and a replay if one of them was in force. *)
LEMMA ClearHoldsKeeps ==
  ASSUME IndInv, NEW s \in Scope, NEW os, ClearHolds(s, os)
  PROVE  IndInv'
<1> USE DEF IndInv, TypeOK
<1> DEFINE gone  == Cleared(s, os)
           after == rows \ gone
           halts == Halted(after, brake, now)
           released == \E r \in gone : r.expiry > now
<1>1. /\ Change /\ rows' = after /\ holdTimer' = Scheduled(after, now)
      /\ released => Replay(halts)
      /\ ~released => forgotten' = forgotten \cup Overtaken(after) /\ UNCHANGED <<start, lane>>
      /\ UNCHANGED <<brake, haltTimer, now>>
  BY DEF ClearHolds
<1>2. after \subseteq Row
  OBVIOUS
<1>3. halts \subseteq Halted(rows, brake, now)
  BY HaltedGrows
<1>4. ~released => Halted(rows, brake, now) \subseteq halts
  BY HaltedGrows
<1>a. after \subseteq rows
  OBVIOUS
<1> HIDE DEF after, halts, released, gone
<1>5. TypeOK'
  <2>1. forgotten' \subseteq Actor
    BY <1>1, ReplayKeeps DEF Overtaken, Replayed, Withheld
  <2>2. holdTimer' \in Off .. MaxTime
    BY <1>1, <1>2, ScheduledFits
  <2>3. changes' \in 0 .. MaxChanges
    BY <1>1, NumberTypes DEF Change
  <2>4. /\ start' \in [Actor -> {"idle", "withheld", "waiting", "claimed"}] /\ lane' = lane
        /\ \A a \in Actor : start'[a] = "claimed" <=> start[a] = "claimed"
    BY <1>1, ReplayKeeps
  <2> QED BY <1>1, <1>2, <1>a, <2>1, <2>2, <2>3, <2>4
<1>6. HoldTimerFits' /\ HaltTimerFits'
  BY <1>1, <1>2, ScheduledFits DEF HoldTimerFits, HaltTimerFits
<1>7. Halted(rows, brake, now)' = halts
  BY <1>1 DEF Halted, halts
<1>8. WithheldForReason'
  <2> SUFFICES ASSUME NEW a \in Actor, start'[a] = "withheld", a \notin forgotten',
                      ~Blocked(a, halts)
               PROVE  Due(haltTimer)'
    BY <1>7 DEF WithheldForReason, Withheld, blocked, Blocked
  <2>1. ~released /\ start[a] = "withheld" /\ a \notin forgotten
    BY <1>1, ReplayKeeps
  <2>2. ~Due(holdTimer)
    BY <1>1, <2>1, <1>7 DEF Overtaken, Replayed, Withheld, halts
  <2>3. ~blocked(a)
    BY <1>4, <2>1 DEF blocked, Blocked
  <2> QED BY <1>1, <2>1, <2>2, <2>3 DEF WithheldForReason, Withheld, Due
<1>9. ClaimedLaneIsOpen'
  <2>1. \A a \in Actor : start'[a] = "claimed" => start[a] = "claimed" /\ lane'[a] = lane[a]
    BY <1>1, ReplayKeeps
  <2> QED BY <1>3, <1>7, <2>1 DEF ClaimedLaneIsOpen
<1> QED BY <1>5, <1>6, <1>8, <1>9

(* The global brake: every start is parked, or none was kept from starting.   *)
LEMMA HaltKeeps ==
  ASSUME IndInv, NEW u \in 0 .. Never, Halt(u)
  PROVE  IndInv'
<1> USE DEF IndInv, TypeOK
<1>1. /\ Change /\ brake <= now /\ brake' = u
      /\ u > now => /\ Park(Lane) /\ UNCHANGED forgotten
                    /\ haltTimer' = IF u = Never THEN Off ELSE u
      /\ ~(u > now) => Replay(Halted(rows, u, now)) /\ haltTimer' = Off
      /\ UNCHANGED <<rows, holdTimer, now>>
  BY DEF Halt
<1>2. TypeOK'
  <2>1. haltTimer' \in Off .. MaxTime /\ brake' \in Off .. Never
    BY <1>1, HoldsAssumption DEF Off, Never, Time
  <2>2. changes' \in 0 .. MaxChanges
    BY <1>1, NumberTypes DEF Change
  <2>3. CASE u > now
    BY <1>1, <2>1, <2>2, <2>3, ParkKeeps
  <2>4. CASE ~(u > now)
    <3>1. /\ start' \in [Actor -> {"idle", "withheld", "waiting", "claimed"}] /\ lane' = lane
          /\ forgotten' \subseteq Actor
          /\ \A a \in Actor : start'[a] = "claimed" <=> start[a] = "claimed"
      BY <1>1, <2>4, ReplayKeeps
    <3> QED BY <1>1, <2>1, <2>2, <3>1
  <2> QED BY <2>3, <2>4
<1>3. HoldTimerFits' /\ HaltTimerFits'
  BY <1>1 DEF HoldTimerFits, HaltTimerFits
<1>4. Halted(rows, brake, now)' = Halted(rows, u, now)
  BY <1>1 DEF Halted
<1>5. CASE u > now
  <2>1. Halted(rows, u, now) = Lane
    BY <1>5 DEF Halted
  <2>2. \A a \in Actor : Blocked(a, Lane)
    BY PoolTypes DEF Blocked
  <2>3. \A a \in Actor : start'[a] = "claimed" => lane[a] \notin Lane /\ start[a] = "claimed"
    BY <1>1, <1>5, ParkKeeps
  <2>4. \A a \in Actor : start'[a] # "claimed"
    BY <2>3, HoldsAssumption DEF ClaimedLaneIsOpen
  <2>5. WithheldForReason' /\ ClaimedLaneIsOpen'
    BY <1>4, <2>1, <2>2, <2>4 DEF WithheldForReason, Withheld, blocked, Blocked, ClaimedLaneIsOpen
  <2> QED BY <1>2, <1>3, <2>5
<1>6. CASE ~(u > now)
  <2>1. WithheldForReason'
    BY <1>1, <1>4, <1>6, ReplayKeeps DEF WithheldForReason, Withheld, blocked, Blocked
  <2>2. Halted(rows, u, now) \subseteq Halted(rows, brake, now)
    BY <1>6 DEF Halted
  <2>3. \A a \in Actor : start'[a] = "claimed" => start[a] = "claimed" /\ lane'[a] = lane[a]
    BY <1>1, <1>6, ReplayKeeps
  <2>4. ClaimedLaneIsOpen'
    BY <1>4, <2>2, <2>3 DEF ClaimedLaneIsOpen
  <2> QED BY <1>2, <1>3, <2>1, <2>4
<1> QED BY <1>5, <1>6

(* A replay over what the rows and the brake are after the step suits every   *)
(* step that opens lanes and closes none.                                     *)
LEMMA ReplaySuffices ==
  ASSUME IndInv, Replay(Halted(rows', brake', now)), now' = now,
         Halted(rows', brake', now) \subseteq Halted(rows, brake, now)
  PROVE  WithheldForReason' /\ ClaimedLaneIsOpen'
<1> USE DEF IndInv
<1> DEFINE halts == Halted(rows', brake', now)
<1>1. Halted(rows, brake, now)' = halts
  BY DEF Halted
<1>2. WithheldForReason'
  BY <1>1, ReplayKeeps DEF WithheldForReason, Withheld, blocked, Blocked
<1>3. \A a \in Actor : start'[a] = "claimed" => start[a] = "claimed" /\ lane'[a] = lane[a]
  BY ReplayKeeps
<1>4. ClaimedLaneIsOpen'
  BY <1>1, <1>3 DEF ClaimedLaneIsOpen
<1> QED BY <1>2, <1>4

LEMMA ReleaseHaltsKeeps ==
  ASSUME IndInv, NEW os, ReleaseHalts(os)
  PROVE  IndInv'
<1> USE DEF IndInv, TypeOK
<1> DEFINE after == {r \in rows : r.origin \notin os}
<1>1. /\ Change /\ rows' = after /\ brake' = Off
      /\ holdTimer' = Scheduled(after, now) /\ haltTimer' = Off
      /\ Replay(Halted(after, Off, now)) /\ UNCHANGED now
  BY DEF ReleaseHalts
<1>2. after \subseteq Row /\ after \subseteq rows
  OBVIOUS
<1>3. Halted(after, Off, now) \subseteq Halted(rows, brake, now)
  BY NumberTypes DEF Halted, Off
<1> HIDE DEF after
<1>4. WithheldForReason' /\ ClaimedLaneIsOpen'
  BY <1>1, <1>3, ReplaySuffices
<1>5. TypeOK'
  <2>1. holdTimer' \in Off .. MaxTime /\ haltTimer' \in Off .. MaxTime /\ brake' \in Off .. Never
    BY <1>1, <1>2, ScheduledFits, HoldsAssumption DEF Off, Never
  <2>2. changes' \in 0 .. MaxChanges
    BY <1>1, NumberTypes DEF Change
  <2>3. /\ start' \in [Actor -> {"idle", "withheld", "waiting", "claimed"}] /\ lane' = lane
        /\ forgotten' \subseteq Actor
        /\ \A a \in Actor : start'[a] = "claimed" <=> start[a] = "claimed"
    BY <1>1, ReplayKeeps
  <2> QED BY <1>1, <1>2, <2>1, <2>2, <2>3
<1>6. HoldTimerFits' /\ HaltTimerFits'
  BY <1>1, <1>2, ScheduledFits DEF HoldTimerFits, HaltTimerFits
<1> QED BY <1>4, <1>5, <1>6

(* A due timer always finds the row it was armed for, so it always replays.   *)
LEMMA HoldTimerFiresKeeps ==
  ASSUME IndInv, HoldTimerFires
  PROVE  IndInv'
<1> USE DEF IndInv, TypeOK
<1>1. /\ holdTimer' = Scheduled(rows, now)
      /\ UNCHANGED <<rows, brake, haltTimer, now, changes>>
  BY DEF HoldTimerFires
<1>2. Replay(Halted(rows, brake, now))
  <2>1. PICK r \in rows : r.expiry = holdTimer
    BY DEF HoldTimerFires, Due, HoldTimerFits, Fits
  <2>2. r.expiry >= holdTimer /\ r.expiry <= now
    BY <2>1 DEF HoldTimerFires, Due, Row
  <2> QED BY <2>2 DEF HoldTimerFires
<1>3. WithheldForReason' /\ ClaimedLaneIsOpen'
  BY <1>1, <1>2, ReplaySuffices
<1>4. TypeOK'
  <2>1. holdTimer' \in Off .. MaxTime
    BY <1>1, ScheduledFits
  <2>2. /\ start' \in [Actor -> {"idle", "withheld", "waiting", "claimed"}] /\ lane' = lane
        /\ forgotten' \subseteq Actor
        /\ \A a \in Actor : start'[a] = "claimed" <=> start[a] = "claimed"
    BY <1>2, ReplayKeeps
  <2> QED BY <1>1, <2>1, <2>2
<1>5. HoldTimerFits' /\ HaltTimerFits'
  BY <1>1, ScheduledFits DEF HoldTimerFits, HaltTimerFits
<1> QED BY <1>3, <1>4, <1>5

LEMMA HaltTimerFiresKeeps ==
  ASSUME IndInv, HaltTimerFires
  PROVE  IndInv'
<1> USE DEF IndInv, TypeOK
<1>1. /\ haltTimer' = Off /\ Replay(Halted(rows, brake, now))
      /\ UNCHANGED <<rows, brake, holdTimer, now, changes>>
  BY DEF HaltTimerFires
<1>2. WithheldForReason' /\ ClaimedLaneIsOpen'
  BY <1>1, ReplaySuffices
<1>3. TypeOK'
  <2>1. haltTimer' \in Off .. MaxTime
    BY <1>1, HoldsAssumption DEF Off
  <2>2. /\ start' \in [Actor -> {"idle", "withheld", "waiting", "claimed"}] /\ lane' = lane
        /\ forgotten' \subseteq Actor
        /\ \A a \in Actor : start'[a] = "claimed" <=> start[a] = "claimed"
    BY <1>1, ReplayKeeps
  <2> QED BY <1>1, <2>1, <2>2
<1>4. HoldTimerFits' /\ HaltTimerFits'
  BY <1>1 DEF HoldTimerFits, HaltTimerFits
<1> QED BY <1>2, <1>3, <1>4

(* An instant that opens a lane makes a timer due, or forgets who waited.     *)
LEMMA TickKeeps ==
  ASSUME IndInv, Tick
  PROVE  IndInv'
<1> USE DEF IndInv, TypeOK
<1>1. /\ now < MaxTime /\ now' = now + 1
      /\ forgotten' = IF brake = now + 1 /\ haltTimer = Off /\ holdTimer \notin 0 .. now + 1
                      THEN forgotten \cup Replayed(Halted(rows, brake, now + 1)) ELSE forgotten
      /\ UNCHANGED <<rows, brake, holdTimer, haltTimer, start, lane, changes>>
  BY DEF Tick
<1>2. TypeOK'
  BY <1>1, NumberTypes DEF Time, Replayed, Withheld
<1>3. HoldTimerFits' /\ HaltTimerFits'
  <2>1. \A r \in rows : r.expiry > now + 1 => r.expiry > now
    BY NumberTypes DEF Time
  <2> QED BY <1>1, <2>1 DEF HoldTimerFits, HaltTimerFits, Fits
<1>4. Halted(rows, brake, now)' = Halted(rows, brake, now + 1)
  BY <1>1 DEF Halted
<1>5. Halted(rows, brake, now + 1) \subseteq Halted(rows, brake, now)
  BY NumberTypes DEF Halted, Time, Off
<1>6. ASSUME NEW a \in Actor, start[a] = "withheld", a \notin forgotten',
             ~Blocked(a, Halted(rows, brake, now + 1))
      PROVE  Due(holdTimer)' \/ Due(haltTimer)'
  <2>1. a \notin forgotten
    BY <1>1, <1>6
  <2>2. CASE ~blocked(a)
    <3>1. Due(holdTimer) \/ Due(haltTimer)
      BY <1>6, <2>1, <2>2 DEF WithheldForReason, Withheld
    <3> QED BY <1>1, <3>1, NumberTypes DEF Due, Time
  <2>3. CASE blocked(a)
    <3>1. PICK l \in Lane : l \in Halted(rows, brake, now) /\ l \notin Halted(rows, brake, now + 1)
      BY <1>6, <2>3 DEF blocked, Blocked, Halted
    <3>2. CASE brake > now
      <4>1. brake = now + 1
        BY <3>1, <3>2, NumberTypes DEF Halted, Time, Off
      <4>2. CASE haltTimer # Off
        BY <1>1, <4>1, <4>2, NumberTypes DEF HaltTimerFits, Due, Time
      <4>3. CASE haltTimer = Off
        <5>1. a \in Replayed(Halted(rows, brake, now + 1))
          BY <1>6 DEF Replayed, Withheld
        <5>2. holdTimer \in 0 .. now + 1
          BY <1>1, <1>6, <4>1, <4>3, <5>1
        <5> QED BY <1>1, <5>2, NumberTypes DEF Due, Time, Off
      <4> QED BY <4>2, <4>3
    <3>3. CASE ~(brake > now)
      <4>1. PICK r \in rows : l \in Covers[r.scope] /\ r.expiry > now
        BY <3>1, <3>3 DEF Halted
      <4>2. r.expiry = now + 1
        BY <3>1, <4>1, NumberTypes DEF Halted, Time
      <4>3. r.expiry # Never
        BY <1>1, <4>2, NumberTypes DEF Never, Time
      <4>4. holdTimer # Off /\ holdTimer <= now + 1
        BY <4>1, <4>2, <4>3 DEF HoldTimerFits, Fits
      <4> QED BY <1>1, <4>4 DEF Due
    <3> QED BY <3>2, <3>3
  <2> QED BY <2>2, <2>3
<1>7. WithheldForReason'
  BY <1>1, <1>4, <1>6 DEF WithheldForReason, Withheld, blocked, Blocked
<1>8. ClaimedLaneIsOpen'
  BY <1>1, <1>4, <1>5 DEF ClaimedLaneIsOpen
<1> QED BY <1>2, <1>3, <1>7, <1>8

(* A start that is decided on the lanes open now. *)
LEMMA ActorKeeps ==
  ASSUME IndInv, NEW a \in Actor, Arrive(a) \/ Claim(a) \/ Start(a)
  PROVE  IndInv'
<1> USE DEF IndInv, TypeOK
<1>1. UNCHANGED <<rows, brake, holdTimer, haltTimer, now, changes>>
  BY DEF Arrive, Claim, Start
<1>2. HoldTimerFits' /\ HaltTimerFits'
  BY <1>1 DEF HoldTimerFits, HaltTimerFits
<1>3. Halted(rows, brake, now)' = Halted(rows, brake, now)
  BY <1>1 DEF Halted
<1>4. UNCHANGED <<Due(holdTimer), Due(haltTimer)>> /\ \A c \in Actor : blocked(c)' = blocked(c)
  BY <1>1, <1>3 DEF Due, blocked, Blocked
<1>5. CASE Arrive(a)
  <2>1. /\ start[a] \in {"idle", "withheld"} /\ lane' = lane
        /\ start' = [start EXCEPT ![a] = IF blocked(a) THEN "withheld" ELSE "waiting"]
        /\ forgotten' = IF blocked(a) THEN forgotten ELSE forgotten \ {a}
    BY <1>5 DEF Arrive
  <2>2. TypeOK'
    BY <1>1, <2>1
  <2>3. WithheldForReason'
    <3>1. start'[a] = "withheld" => blocked(a)
      <4>1. CASE blocked(a)
        BY <4>1
      <4>2. CASE ~blocked(a)
        BY <2>1, <4>2
      <4> QED BY <4>1, <4>2
    <3>2. \A c \in Actor \ {a} : c \notin forgotten' => c \notin forgotten
      BY <2>1
    <3>3. \A c \in Actor \ {a} : start'[c] = start[c]
      BY <2>1
    <3>4. SUFFICES ASSUME NEW c \in Actor, start'[c] = "withheld", c \notin forgotten'
                   PROVE  blocked(c) \/ Due(holdTimer) \/ Due(haltTimer)
      BY <1>4 DEF WithheldForReason, Withheld
    <3>5. CASE c = a
      BY <3>1, <3>4, <3>5
    <3>6. CASE c # a
      BY <3>2, <3>3, <3>4, <3>6 DEF WithheldForReason, Withheld
    <3> QED BY <3>5, <3>6
  <2>4. ClaimedLaneIsOpen'
    <3>1. \A c \in Actor : start'[c] = "claimed" => start[c] = "claimed"
      BY <2>1
    <3> QED BY <1>3, <2>1, <3>1 DEF ClaimedLaneIsOpen
  <2> QED BY <1>2, <2>2, <2>3, <2>4
<1>6. CASE Claim(a)
  <2>1. PICK l \in Pool[a] \ Halted(rows, brake, now) :
          start' = [start EXCEPT ![a] = "claimed"] /\ lane' = [lane EXCEPT ![a] = l]
    BY <1>6 DEF Claim
  <2>2. l \in Lane /\ l # NoLane
    BY <2>1, PoolTypes
  <2>a. start[a] = "waiting" /\ forgotten' = forgotten
    BY <1>6 DEF Claim
  <2>3. TypeOK'
    BY <1>1, <2>1, <2>2, <2>a
  <2>4. WithheldForReason'
    BY <1>4, <2>1, <2>a DEF WithheldForReason, Withheld
  <2>5. ClaimedLaneIsOpen'
    BY <1>3, <2>1 DEF ClaimedLaneIsOpen
  <2> QED BY <1>2, <2>3, <2>4, <2>5
<1>7. CASE Start(a)
  <2>1. /\ start[a] = "claimed" /\ forgotten' = forgotten
        /\ start' = [start EXCEPT ![a] = "idle"] /\ lane' = [lane EXCEPT ![a] = NoLane]
    BY <1>7 DEF Start
  <2>2. TypeOK'
    BY <1>1, <2>1
  <2>3. WithheldForReason'
    BY <1>4, <2>1 DEF WithheldForReason, Withheld
  <2>4. ClaimedLaneIsOpen'
    BY <1>3, <2>1 DEF ClaimedLaneIsOpen
  <2> QED BY <1>2, <2>2, <2>3, <2>4
<1> QED BY <1>5, <1>6, <1>7

LEMMA RestartKeeps ==
  ASSUME IndInv, Restart
  PROVE  IndInv'
<1> USE DEF IndInv, TypeOK
<1>1. /\ Change /\ holdTimer' = Scheduled(rows, now) /\ haltTimer' = Off
      /\ start' = [a \in Actor |-> IF start[a] = "idle" THEN "idle"
                                   ELSE IF blocked(a) THEN "withheld" ELSE "waiting"]
      /\ lane' = [a \in Actor |-> NoLane] /\ forgotten' = {}
      /\ UNCHANGED <<rows, brake, now>>
  BY DEF Restart, Armed
<1>2. TypeOK'
  <2>1. holdTimer' \in Off .. MaxTime /\ haltTimer' \in Off .. MaxTime
    BY <1>1, ScheduledFits, HoldsAssumption DEF Off
  <2>2. changes' \in 0 .. MaxChanges
    BY <1>1, NumberTypes DEF Change
  <2> QED BY <1>1, <2>1, <2>2
<1>3. HoldTimerFits' /\ HaltTimerFits'
  BY <1>1, ScheduledFits DEF HoldTimerFits, HaltTimerFits
<1>4. \A a \in Actor : blocked(a)' = blocked(a)
  BY <1>1 DEF blocked, Blocked, Halted
<1>5. WithheldForReason'
  BY <1>1, <1>4 DEF WithheldForReason, Withheld
<1>6. ClaimedLaneIsOpen'
  BY <1>1 DEF ClaimedLaneIsOpen
<1> QED BY <1>2, <1>3, <1>5, <1>6

-----------------------------------------------------------------------------
LEMMA NextInvariant == IndInv /\ [Next]_vars => IndInv'
<1> SUFFICES ASSUME IndInv, [Next]_vars PROVE IndInv'
  OBVIOUS
<1>1. CASE Operators
  BY <1>1, SetHoldKeeps, ClearHoldsKeeps, HaltKeeps, ReleaseHaltsKeeps DEF Operators
<1>2. CASE HoldTimerFires \/ HaltTimerFires \/ Tick \/ Restart
  BY <1>2, HoldTimerFiresKeeps, HaltTimerFiresKeeps, TickKeeps, RestartKeeps
<1>3. CASE \E a \in Actor : Arrive(a) \/ Claim(a) \/ Start(a)
  BY <1>3, ActorKeeps
<1>4. CASE UNCHANGED vars
  BY <1>4 DEF vars, IndInv, TypeOK, WithheldForReason, Withheld, blocked, Blocked, Halted, Due,
              ClaimedLaneIsOpen, HoldTimerFits, HaltTimerFits
<1> QED BY <1>1, <1>2, <1>3, <1>4 DEF Next

(* The inductive invariant holds in every reachable state. *)
THEOREM Invariant == Spec => []IndInv
BY InitInvariant, NextInvariant, PTL DEF Spec

(* The rows keep one entry for a scope and an origin, the timers stay within  *)
(* the expiries, and an actor has a lane exactly while its start is claimed.  *)
THEOREM TypeCorrect == Spec => []TypeOK
<1>1. IndInv => TypeOK
  BY DEF IndInv
<1> QED BY <1>1, Invariant, PTL

(* No start stays withheld behind an open lane without a due timer to replay  *)
(* it, for any interleaving of holds, replacements, clears by origin, HALTs,  *)
(* late timers and restarts, except for the three lapses kept in `forgotten'. *)
THEOREM NoStartIsStranded == Spec => []WithheldForReason
<1>1. IndInv => WithheldForReason
  BY DEF IndInv
<1> QED BY <1>1, Invariant, PTL

(* A start that was claimed before a hold or a HALT closed its lane does not  *)
(* keep it: no start goes to a lane that is closed at that instant.           *)
THEOREM NoStartOnClosedLane == Spec => []ClaimedLaneIsOpen
<1>1. IndInv => ClaimedLaneIsOpen
  BY DEF IndInv
<1> QED BY <1>1, Invariant, PTL
=============================================================================
