---------------------------- MODULE LandingProofs ----------------------------
(***************************************************************************)
(* Proofs about Landing, for every number of candidates and every length   *)
(* of the target branch: a candidate lands on its base, a push that left   *)
(* is recorded, and landing implements ExactLanding.  Of a landing through *)
(* a provider (ProviderLanding): an item is integrated only by the commit  *)
(* that merged its own request with what was validated.                    *)
(***************************************************************************)
EXTENDS MCBothLandings, TLAPS

-----------------------------------------------------------------------------
(* The inductive invariant *)

\* A candidate named anywhere has been built, so that Compose gives its number
\* to no other commit.
CandBuilt ==
  /\ eff.cand <= built
  /\ \A m \in flight : m.cand <= built
  /\ \A i \in 1..Tip : line[i] <= built

\* The candidate on its way to the branch is based on the target of the attempt.
EffBased == eff.phase \in {"gates", "landing", "uncertain"} => base[eff.cand] = target

\* What a run has read: a target the branch once had, from the first decision to
\* the release that of the attempt, and the candidate the effort still names.
RunCurrent ==
  /\ proc.seen <= Tip
  /\ proc.pc \notin {"idle", "fetch"} => proc.seen # 0
  /\ proc.pc = "refused_move" => proc.moved \in 1..Tip
  /\ proc.pc \in {"signoff", "begin", "release"} => proc.seen = target
  /\ proc.pc # "idle" => eff.phase # "composing"
  /\ proc.pc # "idle" /\ eff.cand # 0 => proc.cand = eff.cand

\* A push names the base of its candidate and is sent once: its candidate is not
\* on the branch while it is under way.
FlightBased ==
  \A m \in flight : /\ m.expected <= Tip
                    /\ base[m.cand] = m.expected
                    /\ \A i \in 1..Tip : line[i] # m.cand

\* After the push the effort stays uncertain, and a run told that its push was
\* refused is right: that push is over and its candidate is not on the branch.
RefusalDefinite ==
  /\ proc.pc \in {"push", "refused", "refused_move"} => eff.phase = "uncertain"
  /\ proc.pc \in {"refused", "refused_move"} =>
       /\ \A m \in flight : m.cand # proc.cand
       /\ \A i \in 1..Tip : line[i] # proc.cand

\* LandingInv: the strengthening that makes LandedOnBase and ReleaseRecorded
\* inductive.
LandingInv ==
  /\ TypeOK
  /\ line[1] = 0
  /\ CandBuilt
  /\ EffBased
  /\ RunCurrent
  /\ FlightBased
  /\ RefusalDefinite
  /\ LandedOnBase
  /\ ReleaseRecorded

-----------------------------------------------------------------------------
LEMMA LandingInit == Init => LandingInv
  BY MaxCandAssumption, MaxLenAssumption
  DEF Init, LandingInv, TypeOK, CandBuilt, EffBased, RunCurrent, FlightBased,
      RefusalDefinite, LandedOnBase, ReleaseRecorded, Composing, EffRow, ProcRow, Pc,
      Cand, Pos, Tip, Push, External

\* One more commit on the branch.
LEMMA Grown ==
  ASSUME TypeOK, NEW k \in Cand \cup {0}, Tip < MaxLen, line' = Append(line, k)
  PROVE  /\ line' \in Seq(Cand \cup {0})
         /\ Tip' = Tip + 1 /\ Tip' \in Pos
         /\ \A i \in 1..Tip : line'[i] = line[i]
         /\ line'[Tip + 1] = k
  BY MaxLenAssumption DEF TypeOK, Tip, Pos

LEMMA InvOthersPush ==
  ASSUME LandingInv, OthersPush
  PROVE  LandingInv'
  <1> USE DEF LandingInv
  <1>1. /\ line' \in Seq(Cand \cup {0}) /\ Tip' = Tip + 1 /\ Tip' \in Pos
        /\ \A i \in 1..Tip : line'[i] = line[i]
        /\ line'[Tip + 1] = 0
    <2>1. Tip < MaxLen /\ line' = Append(line, 0)
      BY MaxLenAssumption DEF OthersPush, TypeOK, Pos
    <2> QED
      BY <2>1, Grown
  <1>2. Tip \in Nat \ {0} /\ built \in Nat /\ \A m \in flight : m.expected \in Nat /\ m.cand \in Nat \ {0}
    BY DEF TypeOK, Pos, Push, Cand
  <1>3. UNCHANGED <<base, built, eff, target, proc, flight>>
    BY DEF OthersPush
  <1>4. TypeOK'
    BY <1>1, <1>3 DEF TypeOK
  <1>5. line'[1] = 0
    BY <1>1, <1>2
  <1>6. CandBuilt'
    BY <1>1, <1>2, <1>3 DEF CandBuilt
  <1>7. EffBased'
    BY <1>3 DEF EffBased
  <1>8. RunCurrent'
    BY <1>1, <1>2, <1>3 DEF RunCurrent, TypeOK, ProcRow, Pos
  <1>9. FlightBased'
    BY <1>1, <1>2, <1>3 DEF FlightBased
  <1>10. RefusalDefinite'
    <2>1. proc.pc \in {"refused", "refused_move"} => proc.cand # 0
      BY DEF RefusalDefinite, RunCurrent, TypeOK
    <2> QED
      BY <2>1, <1>1, <1>2, <1>3 DEF RefusalDefinite
  <1>11. LandedOnBase'
    BY <1>1, <1>2, <1>3 DEF LandedOnBase
  <1>12. ReleaseRecorded'
    BY <1>1, <1>2, <1>3 DEF ReleaseRecorded, FlightBased, External
  <1> QED
    BY <1>4, <1>5, <1>6, <1>7, <1>8, <1>9, <1>10, <1>11, <1>12

-----------------------------------------------------------------------------
(* Steps that leave the branch and the pushes alone *)

\* A cancelled, rejected or moved effort had no push that could still land.
LEMMA KeepsRecord ==
  ASSUME LandingInv, UNCHANGED <<line, flight>>,
         \/ ~External
         \/ eff'.phase = eff.phase /\ eff'.cand = eff.cand
  PROVE  ReleaseRecorded'
  BY DEF LandingInv, ReleaseRecorded, External, Tip

LEMMA Quiet ==
  ASSUME LandingInv, UNCHANGED <<line, base, built, flight>>,
         eff' \in EffRow, eff'.cand \in {0, eff.cand}, TypeOK',
         EffBased', RunCurrent', RefusalDefinite', ReleaseRecorded'
  PROVE  LandingInv'
  <1>1. CandBuilt'
    BY DEF LandingInv, CandBuilt, Tip, TypeOK
  <1>2. FlightBased' /\ LandedOnBase' /\ line'[1] = 0
    BY DEF LandingInv, FlightBased, LandedOnBase, Tip
  <1> QED
    BY <1>1, <1>2 DEF LandingInv

\* The run goes on; the effort stays as it is.
LEMMA RunStep ==
  ASSUME LandingInv, UNCHANGED <<line, base, built, eff, target, flight>>,
         proc' \in ProcRow, RunCurrent', RefusalDefinite'
  PROVE  LandingInv'
  <1>1. TypeOK' /\ EffBased' /\ ReleaseRecorded' /\ eff' \in EffRow
    BY DEF LandingInv, TypeOK, EffBased, ReleaseRecorded, Tip, External
  <1> QED
    BY <1>1, Quiet

\* The run ends; the effort keeps its candidate, or had no push under way.
LEMMA EndRun ==
  ASSUME LandingInv, UNCHANGED <<line, base, built, target, flight>>,
         Goto("idle"), TypeOK', EffBased', eff'.cand \in {0, eff.cand}, ReleaseRecorded'
  PROVE  LandingInv'
  <1>1. proc'.pc = "idle" /\ proc'.seen = proc.seen
    BY DEF LandingInv, TypeOK, ProcRow, Goto
  <1>2. RunCurrent' /\ RefusalDefinite'
    BY <1>1 DEF LandingInv, RunCurrent, RefusalDefinite, Tip
  <1> QED
    BY <1>2, Quiet DEF TypeOK

LEMMA InvReads ==
  ASSUME LandingInv,
         Start \/ Fetch \/ Decide \/ Refetch \/ ReleaseRefused \/ Timeout \/ Confirm
           \/ RefusedFetch
  PROVE  LandingInv'
  <1> USE DEF LandingInv, TypeOK, ProcRow, Pc, RunCurrent, RefusalDefinite, At, Goto, Tip
  <1>1. UNCHANGED <<line, base, built, eff, target, flight>>
    BY DEF Start, Fetch, Decide, Refetch, ReleaseRefused, Timeout, Confirm, RefusedFetch
  <1>2. Tip \in Pos /\ Tip \in Nat \ {0}
    BY DEF Pos
  <1>3. CASE Start
    <2>1. eff.cand \in Cand \cup {0} /\ eff.phase # "composing"
      BY <1>3 DEF Start, Integrating, EffRow
    <2> QED
      BY <1>1, <1>2, <1>3, <2>1, RunStep DEF Start
  <1>4. CASE Fetch
    <2>1. proc' \in ProcRow /\ proc'.seen = Tip /\ proc'.cand = proc.cand
          /\ proc'.pc = IF proc.fenced THEN "judge" ELSE "decide"
      BY <1>2, <1>4 DEF Fetch
    <2>2. RunCurrent' /\ RefusalDefinite'
      BY <1>1, <1>2, <1>4, <2>1 DEF Fetch
    <2> QED
      BY <1>1, <2>1, <2>2, RunStep
  <1>5. CASE Decide
    BY <1>1, <1>2, <1>5, RunStep DEF Decide
  <1>6. CASE Refetch
    <2>1. proc' \in ProcRow /\ proc'.seen = Tip /\ proc'.cand = proc.cand
          /\ proc'.pc = IF Tip = proc.seen THEN "begin" ELSE "move"
      BY <1>2, <1>6 DEF Refetch
    <2>2. RunCurrent' /\ RefusalDefinite'
      BY <1>1, <1>2, <1>6, <2>1 DEF Refetch
    <2> QED
      BY <1>1, <2>1, <2>2, RunStep
  <1>7. CASE ReleaseRefused \/ Timeout
    BY <1>1, <1>2, <1>7, RunStep DEF ReleaseRefused, Timeout
  <1>8. CASE Confirm
    <2>1. proc' \in ProcRow /\ proc'.seen = Tip /\ proc'.cand = proc.cand
          /\ proc'.pc = "judge"
      BY <1>2, <1>8 DEF Confirm
    <2>2. RunCurrent' /\ RefusalDefinite'
      BY <1>1, <1>2, <1>8, <2>1 DEF Confirm
    <2> QED
      BY <1>1, <2>1, <2>2, RunStep
  <1>9. CASE RefusedFetch
    <2>1. /\ proc' \in ProcRow /\ proc'.seen = proc.seen /\ proc'.cand = proc.cand
          /\ proc'.moved = Tip /\ proc'.pc = "refused_move"
      BY <1>2, <1>9 DEF RefusedFetch
    <2>2. RunCurrent' /\ RefusalDefinite'
      BY <1>1, <1>2, <1>9, <2>1 DEF RefusedFetch
    <2> QED
      BY <1>1, <2>1, <2>2, RunStep
  <1> QED
    BY <1>3, <1>4, <1>5, <1>6, <1>7, <1>8, <1>9

LEMMA InvEnds ==
  ASSUME LandingInv,
         FetchFails \/ Reject \/ Unreleased \/ MarkIntegrated \/ Unresolved
           \/ RecomposeFails \/ Crash
  PROVE  LandingInv'
  <1> USE DEF At
  <1>1. UNCHANGED <<line, base, built, target, flight>>
    BY DEF FetchFails, Reject, Unreleased, MarkIntegrated, Unresolved, RecomposeFails, Crash
  <1>2. Goto("idle") => proc' \in ProcRow
    BY DEF LandingInv, TypeOK, ProcRow, Pc, Goto
  <1>3. ASSUME Goto("idle"), eff' = Blocked \/ eff' = eff
        PROVE  LandingInv'
    <2>1. /\ eff' \in EffRow /\ eff'.phase = eff.phase /\ eff'.cand = eff.cand
          /\ eff'.move = eff.move
          /\ eff'.blocked => eff.blocked \/ eff.phase \in {"gates", "landing", "uncertain"}
      BY <1>3 DEF LandingInv, TypeOK, EffRow, Blocked
    <2>2. TypeOK'
      BY <1>1, <1>2, <1>3, <2>1 DEF LandingInv, TypeOK, Tip
    <2>3. EffBased'
      BY <1>1, <2>1 DEF LandingInv, EffBased
    <2> QED
      BY <1>1, <1>3, <2>1, <2>2, <2>3, KeepsRecord, EndRun
  <1>4. ASSUME Goto("idle"), ~External, eff' = Composing
        PROVE  LandingInv'
    <2>1. TypeOK'
      BY <1>1, <1>2, <1>4 DEF LandingInv, TypeOK, Tip, Composing, EffRow
    <2>2. EffBased' /\ eff'.cand = 0
      BY <1>4 DEF EffBased, Composing
    <2> QED
      BY <1>1, <1>4, <2>1, <2>2, KeepsRecord, EndRun
  <1>5. CASE FetchFails
    BY <1>3, <1>5 DEF FetchFails
  <1>6. CASE Reject
    BY <1>3, <1>4, <1>6 DEF Reject, Is, External
  <1>7. CASE Unreleased
    <2>1. CASE Is("landing") /\ eff' = Blocked /\ Goto("idle")
      BY <1>3, <2>1
    <2>2. CASE ~Is("landing") /\ Goto("confirm") /\ UNCHANGED eff
      <3>1. proc' \in ProcRow /\ proc'.pc = "confirm" /\ proc'.seen = proc.seen
            /\ proc'.cand = proc.cand
        BY <2>2 DEF LandingInv, TypeOK, ProcRow, Pc, Goto
      <3>2. RunCurrent' /\ RefusalDefinite'
        BY <1>1, <1>7, <2>2, <3>1 DEF Unreleased, LandingInv, RunCurrent, RefusalDefinite, Tip
      <3> QED
        BY <1>1, <2>2, <3>1, <3>2, RunStep
    <2> QED
      BY <1>7, <2>1, <2>2 DEF Unreleased
  <1>8. CASE MarkIntegrated
    <2>1. eff.phase \in {"landing", "uncertain"} /\ ~eff.blocked
      BY <1>8 DEF MarkIntegrated, Is
    <2>2. eff' \in EffRow /\ eff'.phase = "integrated" /\ eff'.cand = eff.cand
          /\ eff'.move = eff.move /\ eff'.blocked = eff.blocked
      BY <1>8 DEF MarkIntegrated, LandingInv, TypeOK, EffRow
    <2>3. TypeOK'
      BY <1>1, <1>2, <1>8, <2>1, <2>2 DEF MarkIntegrated, LandingInv, TypeOK, Tip
    <2>4. EffBased'
      BY <2>2 DEF EffBased
    <2>5. \E i \in 1..Tip : line[i] = eff.cand
      <3>1. eff.cand # 0 /\ proc.cand = eff.cand
        BY <1>8, <2>1 DEF MarkIntegrated, LandingInv, TypeOK, RunCurrent
      <3> QED
        BY <1>8, <3>1
        DEF MarkIntegrated, Contained, InLine, LandingInv, TypeOK, RunCurrent, Pos, ProcRow
    <2>6. \A m \in flight : m.expected # Tip
      BY <2>5 DEF LandingInv, ReleaseRecorded, FlightBased
    <2>7. ReleaseRecorded'
      BY <1>1, <2>2, <2>6 DEF LandingInv, ReleaseRecorded, External, Tip
    <2> QED
      BY <1>1, <1>8, <2>2, <2>3, <2>4, <2>7, EndRun DEF MarkIntegrated
  <1>9. CASE Unresolved
    BY <1>3, <1>9 DEF Unresolved
  <1>10. CASE RecomposeFails \/ Crash
    BY <1>3, <1>10 DEF RecomposeFails, Crash
  <1> QED
    BY <1>5, <1>6, <1>7, <1>8, <1>9, <1>10

\* The operator's retry and cancellation, while a run may be anywhere.
LEMMA InvOperator ==
  ASSUME LandingInv, Retry \/ Cancel
  PROVE  LandingInv'
  <1>1. UNCHANGED <<line, base, built, target, proc, flight>>
    BY DEF Retry, Cancel
  <1>2. CASE Retry
    <2>1. /\ eff' \in EffRow /\ eff'.phase = eff.phase /\ eff'.cand = eff.cand
          /\ eff'.move = eff.move /\ ~eff'.blocked
      BY <1>2 DEF Retry, LandingInv, TypeOK, EffRow
    <2>2. TypeOK' /\ EffBased'
      BY <1>1, <2>1 DEF LandingInv, TypeOK, EffBased, Tip
    <2>3. RunCurrent' /\ RefusalDefinite'
      BY <1>1, <2>1 DEF LandingInv, RunCurrent, RefusalDefinite, Tip
    <2> QED
      BY <1>1, <2>1, <2>2, <2>3, KeepsRecord, Quiet
  <1>3. CASE Cancel
    <2>1. eff' \in EffRow /\ eff'.phase = "cancelled" /\ eff'.cand = 0 /\ eff'.move = 0
          /\ ~eff'.blocked
      BY <1>3 DEF Cancel, Composing, EffRow
    <2>2. TypeOK' /\ EffBased'
      BY <1>1, <2>1 DEF LandingInv, TypeOK, EffBased, Tip
    <2>3. RunCurrent' /\ RefusalDefinite'
      BY <1>1, <1>3, <2>1 DEF Cancel, External, LandingInv, RunCurrent, RefusalDefinite, Tip
    <2> QED
      BY <1>1, <1>3, <2>1, <2>2, <2>3, KeepsRecord, Quiet DEF Cancel
  <1> QED
    BY <1>2, <1>3

\* Landing authority and target movement.
LEMMA InvAuthority ==
  ASSUME LandingInv, BeginLanding \/ BeginMove \/ BeginRefusedMove \/ Recompose
  PROVE  LandingInv'
  <1> USE DEF At
  <1>1. UNCHANGED <<line, base, built, flight>>
    BY DEF BeginLanding, BeginMove, BeginRefusedMove, Recompose
  <1>2. /\ proc \in ProcRow /\ eff \in EffRow /\ target \in Pos /\ 0 \notin Pos
        /\ eff.blocked => eff.phase \in {"gates", "landing", "uncertain"}
    BY DEF LandingInv, TypeOK, Pos
  <1>3. ASSUME Goto("idle"), UNCHANGED <<eff, target>>
        PROVE  LandingInv'
    <2>1. TypeOK' /\ EffBased' /\ eff'.cand = eff.cand /\ eff'.phase = eff.phase
      BY <1>1, <1>3, <1>2 DEF LandingInv, TypeOK, EffBased, Tip, ProcRow, Pc, Goto
    <2> QED
      BY <1>1, <1>3, <2>1, KeepsRecord, EndRun
  <1>4. ASSUME proc.pc # "idle", proc.seen # 0, Goto("recompose") \/ Goto("release"),
               Goto("release") => proc.seen = target, UNCHANGED <<eff, target>>
        PROVE  LandingInv'
    <2>1. proc' \in ProcRow /\ proc'.pc \in {"recompose", "release"}
          /\ proc'.seen = proc.seen /\ proc'.cand = proc.cand
      BY <1>2, <1>4 DEF ProcRow, Pc, Goto
    <2>2. proc'.pc = "release" => proc.seen = target
      BY <1>2, <1>4 DEF ProcRow, Goto
    <2>3. RunCurrent' /\ RefusalDefinite'
      BY <1>1, <1>4, <2>1, <2>2 DEF LandingInv, RunCurrent, RefusalDefinite, Tip
    <2> QED
      BY <1>1, <1>4, <2>1, <2>3, RunStep
  <1>5. ASSUME UNCHANGED target, proc.pc # "idle", NEW ph \in {"landing", "moving"},
               eff.phase \in {"gates", "landing", "uncertain"}, ~eff.blocked,
               eff' \in EffRow, eff'.phase = ph, eff'.cand = eff.cand,
               eff'.move # 0 <=> ph = "moving", ~eff'.blocked,
               proc' \in ProcRow, proc'.pc \in {"release", "recompose"},
               proc'.pc = "release" => proc'.seen = target,
               proc'.seen \in 1..Tip, proc'.cand = proc.cand,
               eff.phase = "uncertain" =>
                 /\ \A m \in flight : m.cand # eff.cand
                 /\ \A i \in 1..Tip : line[i] # eff.cand
        PROVE  LandingInv'
    <2>1. TypeOK' /\ EffBased'
      BY <1>1, <1>5 DEF LandingInv, TypeOK, EffBased, Tip
    <2>2. RunCurrent' /\ RefusalDefinite'
      BY <1>1, <1>5 DEF LandingInv, TypeOK, Pos, RunCurrent, RefusalDefinite, Tip
    <2>3. ReleaseRecorded'
      BY <1>1, <1>5 DEF LandingInv, TypeOK, Pos, ReleaseRecorded, External, Tip
    <2> QED
      BY <1>1, <1>5, <2>1, <2>2, <2>3, Quiet
  <1>6. proc.pc # "idle" /\ proc.pc # "fetch" =>
          proc.seen \in 1..Tip /\ proc.seen \in Pos /\ proc.seen # 0
    BY DEF LandingInv, TypeOK, RunCurrent, ProcRow, Pos
  <1>7. CASE BeginLanding
    <2>1. proc.pc = "begin" /\ proc.seen = target /\ UNCHANGED target
      BY <1>7 DEF BeginLanding, LandingInv, RunCurrent
    <2>2. CASE /\ Is("gates")
               /\ eff' = [eff EXCEPT !.phase = "landing", !.expected = proc.seen]
               /\ Goto("release")
      <3>1. /\ eff.phase = "gates" /\ ~eff.blocked
            /\ eff' \in EffRow /\ eff'.phase = "landing" /\ eff'.cand = eff.cand
            /\ eff'.move = eff.move /\ eff'.blocked = eff.blocked
        BY <1>2, <1>6, <2>1, <2>2 DEF Is, EffRow
      <3>2. eff.move = 0
        BY <3>1 DEF LandingInv, TypeOK
      <3>3. proc' \in ProcRow /\ proc'.pc = "release" /\ proc'.seen = proc.seen
            /\ proc'.cand = proc.cand
        BY <1>2, <2>2 DEF ProcRow, Pc, Goto
      <3> QED
        BY <1>5, <1>6, <2>1, <3>1, <3>2, <3>3
    <2>3. CASE Is("landing") /\ Goto("release") /\ UNCHANGED eff
      BY <1>4, <1>6, <2>1, <2>3
    <2>4. CASE Goto("idle") /\ UNCHANGED eff
      BY <1>3, <2>1, <2>4
    <2> QED
      BY <1>7, <2>2, <2>3, <2>4 DEF BeginLanding
  <1>8. CASE BeginMove
    <2>1. proc.pc = "move" /\ UNCHANGED target
      BY <1>8 DEF BeginMove
    <2>2. CASE /\ Is("gates") \/ Is("landing")
               /\ eff' = [eff EXCEPT !.phase = "moving", !.move = proc.seen]
               /\ Goto("recompose")
      <3>1. /\ eff.phase \in {"gates", "landing"} /\ ~eff.blocked
            /\ eff' \in EffRow /\ eff'.phase = "moving" /\ eff'.cand = eff.cand
            /\ eff'.move = proc.seen /\ eff'.blocked = eff.blocked
        BY <1>2, <1>6, <2>1, <2>2 DEF Is, EffRow
      <3>2. proc' \in ProcRow /\ proc'.pc = "recompose" /\ proc'.seen = proc.seen
            /\ proc'.cand = proc.cand
        BY <1>2, <2>2 DEF ProcRow, Pc, Goto
      <3> QED
        BY <1>5, <1>6, <2>1, <3>1, <3>2
    <2>3. CASE Goto("recompose") /\ UNCHANGED eff
      <3>1. ~Goto("release")
        BY <1>2, <2>3 DEF Goto, ProcRow
      <3> QED
        BY <1>4, <1>6, <2>1, <2>3, <3>1
    <2>4. CASE Goto("idle") /\ UNCHANGED eff
      BY <1>3, <2>1, <2>4
    <2> QED
      BY <1>8, <2>2, <2>3, <2>4 DEF BeginMove
  <1>9. CASE BeginRefusedMove
    <2>1. /\ proc.pc = "refused_move" /\ UNCHANGED target /\ proc.moved \in Pos
          /\ eff.phase = "uncertain" /\ ~eff.blocked
      BY <1>2, <1>9 DEF BeginRefusedMove, Is, LandingInv, RunCurrent, ProcRow
    <2>2. proc.cand = eff.cand
      BY <2>1 DEF LandingInv, TypeOK, RunCurrent
    <2>3. /\ eff' \in EffRow /\ eff'.phase = "moving" /\ eff'.cand = eff.cand
          /\ eff'.move = proc.moved /\ eff'.blocked = eff.blocked
      BY <1>2, <1>9, <2>1 DEF BeginRefusedMove, EffRow
    <2>4. /\ proc' \in ProcRow /\ proc'.pc = "recompose" /\ proc'.seen = proc.moved
          /\ proc'.cand = proc.cand
      BY <1>2, <1>9, <2>1 DEF BeginRefusedMove, ProcRow, Pc
    <2>5. proc.moved \in 1..Tip
      BY <2>1 DEF LandingInv, RunCurrent, Pos
    <2>6. /\ \A m \in flight : m.cand # eff.cand
          /\ \A i \in 1..Tip : line[i] # eff.cand
      BY <2>1, <2>2 DEF LandingInv, RefusalDefinite
    <2> QED
      BY <1>2, <1>5, <2>1, <2>3, <2>4, <2>5, <2>6
  <1>10. CASE Recompose
    <2>1. eff.phase = "moving" /\ eff' = Composing /\ target' = eff.move /\ Goto("idle")
      BY <1>10 DEF Recompose, Is
    <2>2. eff.move \in Pos
      BY <1>2, <2>1 DEF LandingInv, TypeOK, EffRow
    <2>3. proc' \in ProcRow /\ proc'.pc = "idle" /\ proc'.seen = proc.seen
      BY <1>2, <2>1 DEF Goto, ProcRow, Pc
    <2>4. TypeOK' /\ EffBased' /\ eff'.cand = 0 /\ eff' \in EffRow
      BY <1>1, <2>1, <2>2, <2>3 DEF LandingInv, TypeOK, EffBased, Composing, EffRow, Tip
    <2>5. RunCurrent' /\ RefusalDefinite'
      BY <1>1, <2>3 DEF LandingInv, RunCurrent, RefusalDefinite, Tip
    <2> QED
      BY <1>1, <2>1, <2>4, <2>5, KeepsRecord, Quiet DEF External
  <1> QED
    BY <1>7, <1>8, <1>9, <1>10

-----------------------------------------------------------------------------
(* Candidates and pushes *)

LEMMA InvCompose ==
  ASSUME LandingInv, Compose
  PROVE  LandingInv'
  <1>1. /\ built + 1 \in Cand /\ built \in Nat /\ built' = built + 1
        /\ target \in Pos /\ eff.phase = "composing" /\ proc.pc = "idle"
        /\ UNCHANGED <<line, target, proc, flight>>
    BY MaxCandAssumption DEF Compose, At, LandingInv, TypeOK, Cand
  <1>2. /\ eff' \in EffRow /\ eff'.phase = "gates" /\ eff'.cand = built + 1
        /\ eff'.move = eff.move /\ eff'.blocked = eff.blocked
    BY <1>1 DEF Compose, LandingInv, TypeOK, EffRow
  <1>3. /\ base' \in [Cand -> Pos \cup {0}] /\ base'[built + 1] = target
        /\ \A k \in Cand : k <= built => base'[k] = base[k]
    BY <1>1 DEF Compose, LandingInv, TypeOK, Cand
  <1>4. TypeOK'
    BY <1>1, <1>2, <1>3 DEF LandingInv, TypeOK, Tip, Cand
  <1>5. CandBuilt'
    BY <1>1, <1>2 DEF LandingInv, TypeOK, CandBuilt, Tip, Push, Cand
  <1>6. EffBased'
    BY <1>1, <1>2, <1>3 DEF EffBased
  <1>7. RunCurrent' /\ RefusalDefinite' /\ line'[1] = 0
    BY <1>1 DEF LandingInv, RunCurrent, RefusalDefinite, Tip
  <1>8. FlightBased'
    BY <1>1, <1>3 DEF LandingInv, TypeOK, FlightBased, CandBuilt, Tip, Push
  <1>9. LandedOnBase'
    <2>1. \A i \in 2..Tip : line[i] # 0 => line[i] \in Cand /\ line[i] <= built
      BY DEF LandingInv, TypeOK, CandBuilt, Tip, Pos
    <2> QED
      BY <1>1, <1>3, <2>1 DEF LandingInv, LandedOnBase, Tip
  <1>10. ReleaseRecorded'
    BY <1>1, KeepsRecord DEF External
  <1> QED
    BY <1>4, <1>5, <1>6, <1>7, <1>8, <1>9, <1>10 DEF LandingInv

LEMMA InvRelease ==
  ASSUME LandingInv, Release
  PROVE  LandingInv'
  <1> DEFINE m0 == [cand |-> proc.cand, expected |-> proc.seen]
  <1>1. /\ UNCHANGED <<line, base, built, target>>
        /\ proc.pc = "release" /\ eff.phase = "landing" /\ ~eff.blocked
        /\ flight' = flight \/ flight' = flight \cup {m0}
    BY DEF Release, At, Is
  <1>2. /\ eff' \in EffRow /\ eff'.phase = "uncertain" /\ eff'.cand = eff.cand
        /\ eff'.move = eff.move /\ eff'.blocked = eff.blocked
    BY DEF Release, LandingInv, TypeOK, EffRow
  <1>3. /\ proc' \in ProcRow /\ proc'.pc \in {"push", "confirm"}
        /\ proc'.seen = proc.seen /\ proc'.cand = proc.cand
    BY DEF Release, Goto, LandingInv, TypeOK, ProcRow, Pc
  <1>4. /\ proc.cand = eff.cand /\ eff.cand # 0 /\ proc.seen = target
        /\ base[eff.cand] = target /\ proc.seen \in Pos /\ proc.seen <= Tip
        /\ eff.cand \in Cand
    BY <1>1 DEF LandingInv, TypeOK, RunCurrent, EffBased, EffRow
  <1>5. m0 \in Push /\ m0.cand = eff.cand /\ m0.expected = target
    BY <1>4 DEF Push
  <1>6. \A i \in 1..Tip : line[i] # eff.cand
    <2>1. \A i \in 2..Tip : line[i] = 0
      BY <1>1 DEF LandingInv, ReleaseRecorded, External
    <2> QED
      BY <1>4, <2>1 DEF LandingInv, TypeOK, Pos
  <1>7. TypeOK'
    BY <1>1, <1>2, <1>3, <1>5 DEF LandingInv, TypeOK, Tip
  <1>8. CandBuilt' /\ EffBased' /\ line'[1] = 0
    BY <1>1, <1>2, <1>4, <1>5 DEF LandingInv, CandBuilt, EffBased, Tip
  <1>9. RunCurrent' /\ RefusalDefinite'
    BY <1>1, <1>2, <1>3, <1>4 DEF LandingInv, RunCurrent, RefusalDefinite, Tip
  <1>10. FlightBased'
    BY <1>1, <1>4, <1>5, <1>6 DEF LandingInv, FlightBased, Tip
  <1>11. LandedOnBase'
    BY <1>1 DEF LandingInv, LandedOnBase, Tip
  <1>12. ReleaseRecorded'
    BY <1>1, <1>2, <1>4, <1>5 DEF LandingInv, ReleaseRecorded, External, Tip
  <1> QED
    BY <1>7, <1>8, <1>9, <1>10, <1>11, <1>12 DEF LandingInv

\* The answer moves a run only from its push to what follows it.
LEMMA AnswerRun ==
  ASSUME LandingInv, NEW m \in flight, NEW pcs, pcs \subseteq {"refused", "confirm"},
         Answer(m, pcs)
  PROVE  /\ proc' \in ProcRow
         /\ proc'.seen = proc.seen /\ proc'.cand = proc.cand /\ proc'.moved = proc.moved
         /\ \/ proc'.pc = proc.pc
            \/ proc.pc = "push" /\ proc.cand = m.cand /\ proc'.pc \in pcs
  BY DEF Answer, At, Goto, LandingInv, TypeOK, ProcRow, Pc

\* One push per candidate.
LEMMA PushUnique ==
  ASSUME LandingInv, NEW m \in flight, NEW n \in flight, m.cand = n.cand
  PROVE  m = n
  BY DEF LandingInv, TypeOK, FlightBased, Push

LEMMA InvPushEnds ==
  ASSUME LandingInv, NEW m \in flight, PushRefused(m) \/ PushLost(m)
  PROVE  LandingInv'
  <1>1. UNCHANGED <<line, base, built, eff, target>> /\ flight' = flight \ {m}
    BY DEF PushRefused, PushLost
  <1>2. Answer(m, {"refused", "confirm"})
    BY DEF PushRefused, PushLost, Answer
  <1>3. /\ proc' \in ProcRow
        /\ proc'.seen = proc.seen /\ proc'.cand = proc.cand /\ proc'.moved = proc.moved
        /\ \/ proc'.pc = proc.pc
           \/ proc.pc = "push" /\ proc.cand = m.cand /\ proc'.pc \in {"refused", "confirm"}
    BY <1>2, AnswerRun
  <1>4. TypeOK' /\ CandBuilt' /\ EffBased' /\ line'[1] = 0
    BY <1>1, <1>3 DEF LandingInv, TypeOK, CandBuilt, EffBased, Tip
  <1>5. RunCurrent'
    BY <1>1, <1>3 DEF LandingInv, RunCurrent, Tip
  <1>6. FlightBased' /\ LandedOnBase' /\ ReleaseRecorded'
    BY <1>1 DEF LandingInv, FlightBased, LandedOnBase, ReleaseRecorded, External, Tip
  <1>7. RefusalDefinite'
    <2>1. \A n \in flight' : n.cand # m.cand
      BY <1>1, PushUnique
    <2>2. \A i \in 1..Tip : line[i] # m.cand
      BY DEF LandingInv, FlightBased
    <2> QED
      BY <1>1, <1>3, <2>1, <2>2 DEF LandingInv, RefusalDefinite, Tip
  <1> QED
    BY <1>4, <1>5, <1>6, <1>7 DEF LandingInv

LEMMA InvPushLands ==
  ASSUME LandingInv, NEW m \in flight, PushLands(m)
  PROVE  LandingInv'
  <1>1. UNCHANGED <<base, built, eff, target>> /\ flight' = flight \ {m}
    BY DEF PushLands
  <1>2. /\ m.cand \in Cand /\ m.expected = Tip /\ Tip \in Nat \ {0}
        /\ base[m.cand] = Tip /\ m.cand <= built /\ m.cand # 0
        /\ eff.phase = "uncertain" /\ eff.cand = m.cand
    BY DEF PushLands, LandingInv, TypeOK, Push, Pos, Cand, FlightBased, CandBuilt,
           ReleaseRecorded
  <1>3. /\ line' \in Seq(Cand \cup {0}) /\ Tip' = Tip + 1 /\ Tip' \in Pos
        /\ \A i \in 1..Tip : line'[i] = line[i]
        /\ line'[Tip + 1] = m.cand
    BY <1>2, Grown DEF PushLands, LandingInv
  <1>4. /\ proc' \in ProcRow
        /\ proc'.seen = proc.seen /\ proc'.cand = proc.cand /\ proc'.moved = proc.moved
        /\ proc'.pc = proc.pc \/ (proc.pc = "push" /\ proc'.pc = "confirm")
    <2>1. {"confirm"} \subseteq {"refused", "confirm"} /\ Answer(m, {"confirm"})
      BY DEF PushLands
    <2>2. proc'.pc = proc.pc \/ (proc.pc = "push" /\ proc'.pc \in {"confirm"})
      BY <2>1, AnswerRun
    <2>3. /\ proc' \in ProcRow
          /\ proc'.seen = proc.seen /\ proc'.cand = proc.cand /\ proc'.moved = proc.moved
      BY <2>1, AnswerRun
    <2> QED
      BY <2>2, <2>3
  <1>5. TypeOK' /\ EffBased'
    BY <1>1, <1>3, <1>4 DEF LandingInv, TypeOK, EffBased
  <1>6. CandBuilt' /\ line'[1] = 0
    BY <1>1, <1>2, <1>3 DEF LandingInv, CandBuilt
  <1>7. RunCurrent'
    <2>1. /\ proc'.seen <= Tip'
          /\ proc'.pc = "refused_move" => proc'.moved \in 1..Tip'
      BY <1>2, <1>3, <1>4 DEF LandingInv, TypeOK, RunCurrent, ProcRow, Pos
    <2> QED
      BY <1>1, <1>4, <2>1 DEF LandingInv, RunCurrent
  <1>8. FlightBased'
    <2>1. \A n \in flight' : n.cand # m.cand /\ n.expected \in Nat
      BY <1>1, PushUnique DEF LandingInv, TypeOK, Push, Pos
    <2> QED
      BY <1>1, <1>2, <1>3, <2>1 DEF LandingInv, FlightBased
  <1>9. RefusalDefinite'
    <2>1. proc.pc \notin {"refused", "refused_move"}
      BY <1>2 DEF LandingInv, RefusalDefinite, RunCurrent
    <2> QED
      BY <1>1, <1>2, <1>4, <2>1 DEF RefusalDefinite
  <1>10. LandedOnBase'
    BY <1>1, <1>2, <1>3 DEF LandingInv, LandedOnBase
  <1>11. ReleaseRecorded'
    <2>1. \A n \in flight' : n.expected # Tip'
      BY <1>1, <1>2, <1>3 DEF LandingInv, TypeOK, FlightBased, Push, Pos
    <2> QED
      BY <1>1, <1>2, <1>3, <2>1 DEF LandingInv, ReleaseRecorded, External
  <1> QED
    BY <1>5, <1>6, <1>7, <1>8, <1>9, <1>10, <1>11 DEF LandingInv

-----------------------------------------------------------------------------
LEMMA LandingNext ==
  ASSUME LandingInv, [Next]_vars
  PROVE  LandingInv'
  <1>1. CASE UNCHANGED vars
    BY <1>1 DEF vars, LandingInv, TypeOK, CandBuilt, EffBased, RunCurrent, FlightBased,
                RefusalDefinite, LandedOnBase, ReleaseRecorded, External, Tip
  <1>2. CASE Compose \/ Retry \/ Cancel \/ Start \/ Crash
    BY <1>2, InvCompose, InvOperator, InvReads, InvEnds
  <1>3. CASE Step
    BY <1>3, InvReads, InvEnds, InvAuthority, InvRelease DEF Step
  <1>4. CASE Repository
    BY <1>4, InvOthersPush, InvPushLands, InvPushEnds DEF Repository
  <1> QED
    BY <1>1, <1>2, <1>3, <1>4 DEF Next

LEMMA LandingInvariant == Spec => []LandingInv
  <1>1. Init => LandingInv
    BY LandingInit
  <1>2. LandingInv /\ [Next]_vars => LandingInv'
    BY LandingNext
  <1> QED
    BY <1>1, <1>2, PTL DEF Spec

\* ExactBase: every candidate that ever enters the branch directly follows the
\* target it was composed and validated on, for any number of candidates and any
\* schedule of moves, crashes and late pushes (land_exact_candidate).
THEOREM ExactBase == Spec => []LandedOnBase
  <1>1. LandingInv => LandedOnBase
    BY DEF LandingInv
  <1> QED
    BY <1>1, LandingInvariant, PTL

\* PushRecorded: a push that can still land, or has landed, always finds the
\* effort uncertain about that candidate or integrated with it (release_landing).
THEOREM PushRecorded == Spec => []ReleaseRecorded
  <1>1. LandingInv => ReleaseRecorded
    BY DEF LandingInv
  <1> QED
    BY <1>1, LandingInvariant, PTL

-----------------------------------------------------------------------------
(* Refinement *)

\* On the branch or not, as ExactLanding sees it.
LEMMA LandedIff ==
  ASSUME LandingInv
  PROVE  Abstract!Landed <=> \E i \in 2..Tip : line[i] # 0
  BY DEF LandingInv, TypeOK, Tip, Pos, Cand, Abstract!Landed

\* Every step of landing is a step of ExactLanding, or none.
LEMMA LandsStep ==
  ASSUME LandingInv, [Next]_vars
  PROVE  [Abstract!Next]_(Abstract!vars)
  <1>1. ASSUME UNCHANGED line, Outcome' = Outcome
        PROVE  UNCHANGED Abstract!vars
    BY <1>1 DEF Abstract!vars
  <1>2. CASE UNCHANGED vars
    BY <1>1, <1>2 DEF vars, Outcome
  <1>3. CASE Start \/ Fetch \/ Decide \/ Refetch \/ ReleaseRefused \/ Timeout \/ Confirm
               \/ RefusedFetch \/ RecomposeFails \/ Crash
               \/ \E m \in flight : PushRefused(m) \/ PushLost(m)
    <2>1. UNCHANGED <<line, eff>>
      BY <1>3 DEF Start, Fetch, Decide, Refetch, ReleaseRefused, Timeout, Confirm,
                  RefusedFetch, RecomposeFails, Crash, PushRefused, PushLost
    <2> QED
      BY <1>1, <2>1 DEF Outcome
  <1>4. CASE Compose \/ Retry \/ FetchFails \/ Reject \/ BeginLanding \/ Release
               \/ Unreleased \/ Unresolved \/ BeginMove \/ BeginRefusedMove \/ Recompose
    <2>1. UNCHANGED line /\ eff \in EffRow
      BY <1>4 DEF Compose, Retry, FetchFails, Reject, BeginLanding, Release, Unreleased,
                  Unresolved, BeginMove, BeginRefusedMove, Recompose, LandingInv, TypeOK
    <2>2. CASE Retry \/ FetchFails \/ Unreleased \/ Unresolved
      <3>1. eff'.phase = eff.phase
        BY <2>1, <2>2 DEF Retry, FetchFails, Unreleased, Unresolved, Blocked, EffRow
      <3> QED
        BY <1>1, <2>1, <3>1 DEF Outcome
    <2>3. CASE Compose \/ Reject \/ BeginLanding \/ Release \/ BeginMove
                 \/ BeginRefusedMove \/ Recompose
      <3> DEFINE Open(e) == e.phase \notin {"integrated", "cancelled"}
      <3>1. ASSUME Compose PROVE eff' = eff \/ (Open(eff) /\ Open(eff'))
        BY <2>1, <3>1 DEF Compose, EffRow
      <3>2. ASSUME Reject \/ Recompose PROVE eff' = eff \/ (Open(eff) /\ Open(eff'))
        BY <2>1, <3>2 DEF Reject, Recompose, Is, Composing
      <3>3. ASSUME BeginLanding \/ Release PROVE eff' = eff \/ (Open(eff) /\ Open(eff'))
        BY <2>1, <3>3 DEF BeginLanding, Release, Is, EffRow
      <3>4. ASSUME BeginMove \/ BeginRefusedMove PROVE eff' = eff \/ (Open(eff) /\ Open(eff'))
        BY <2>1, <3>4 DEF BeginMove, BeginRefusedMove, Is, EffRow
      <3>5. eff' = eff \/ (Open(eff) /\ Open(eff'))
        BY <2>3, <3>1, <3>2, <3>3, <3>4
      <3> QED
        BY <1>1, <2>1, <3>5 DEF Outcome
    <2> QED
      BY <1>4, <2>2, <2>3
  <1>5. CASE MarkIntegrated
    <2>1. /\ UNCHANGED line /\ eff'.phase = "integrated"
          /\ eff.phase \in {"landing", "uncertain"}
      BY <1>5 DEF MarkIntegrated, Is, LandingInv, TypeOK, EffRow
    <2>2. proc.cand # 0 /\ \E i \in 1..Tip : line[i] = proc.cand
      BY <1>5, <2>1
      DEF MarkIntegrated, At, Contained, InLine, LandingInv, TypeOK, RunCurrent, Pos, ProcRow
    <2>3. Abstract!Landed
      BY <2>2 DEF Abstract!Landed, LandingInv, TypeOK, Tip
    <2> QED
      BY <2>1, <2>3 DEF Outcome, Abstract!Next, Abstract!Report
  <1>6. CASE Cancel
    <2>1. /\ UNCHANGED line /\ eff'.phase = "cancelled" /\ ~External
          /\ eff.phase \notin {"integrated", "cancelled"}
      BY <1>6 DEF Cancel, Composing, External
    <2>2. ~Abstract!Landed
      BY <2>1, LandedIff DEF LandingInv, ReleaseRecorded
    <2> QED
      BY <2>1, <2>2 DEF Outcome, Abstract!Next, Abstract!Cancel
  <1>7. CASE OthersPush
    BY <1>7 DEF OthersPush, Outcome, Abstract!Next, Abstract!Others
  <1>8. ASSUME NEW m \in flight, PushLands(m)
        PROVE  Abstract!Next
    <2>1. /\ m.cand \in Cand /\ line' = Append(line, m.cand) /\ UNCHANGED eff
          /\ eff.phase = "uncertain" /\ eff.cand = m.cand
      BY <1>8 DEF PushLands, LandingInv, TypeOK, Push, ReleaseRecorded
    <2>2. ~Abstract!Landed
      <3>1. \A i \in 1..Tip : line[i] # m.cand
        BY DEF LandingInv, FlightBased
      <3>2. \A i \in 2..Tip : line[i] # 0 => line[i] = m.cand
        BY <2>1 DEF LandingInv, ReleaseRecorded
      <3> QED
        BY <3>1, <3>2, LandedIff DEF LandingInv, TypeOK, Pos
    <2> QED
      BY <2>1, <2>2 DEF Outcome, Abstract!Next, Abstract!Land
  <1> QED
    BY <1>2, <1>3, <1>4, <1>5, <1>6, <1>7, <1>8 DEF Next, Step, Repository

\* Implements: landing implements ExactLanding: of all the candidates of an item at
\* most one enters the branch, only while the item is open, and the item shows
\* integrated or cancelled exactly as the branch justifies it (integrate_item).
THEOREM Implements == Spec => LandsOnce
  <1>1. Init => Abstract!Init
    BY DEF Init, Abstract!Init, Outcome, Composing
  <1>2. LandingInv /\ [Next]_vars => [Abstract!Next]_(Abstract!vars)
    BY LandsStep
  <1> QED
    BY <1>1, <1>2, LandingInvariant, PTL DEF Spec, LandsOnce, Abstract!Spec

-----------------------------------------------------------------------------
(* Landing through a provider *)

\* A commit of the canonical repository.
CommitRow ==
  [tree : (0..2) \X (0..MaxCommits) \X BOOLEAN, parent : 0..MaxCommits, has : 0..2, on : {"main", "other"}]

\* The merge request, as the provider has it.
Request ==
  [kind : Kinds, head : {1, 2}, target : {"main", "other"}, same : BOOLEAN, merged : 0..MaxCommits,
   method : {"none", "merge", "squash", "both", "rebase", "ff"}]

\* The steps of the gates and of a reconciliation.
GateSteps == {"fetch", "verify", "snapshot", "graph", "sign", "status", "resnapshot", "refetch", "ready", "move"}
LandingKnown == {"r_fetch", "r_reverify", "r_snapshot", "r_judge", "r_mark"}
ReconcileSteps == {"fenced", "r_verify", "r_landing"} \cup LandingKnown

Integrator ==
  [pc : {"idle", "recompose"} \cup GateSteps \cup ReconcileSteps, fetched : 0..MaxCommits, base : 0..MaxCommits,
   landing : 0..MaxCommits, history : {"none", "merge", "squash"}]

ProviderTypes ==
  /\ commits \in Seq(CommitRow) /\ Len(commits) \in 1..MaxCommits
  /\ mr \in Request /\ mr.merged <= Len(commits)
  /\ providerEff \in Provider!EffRow
  /\ guar \in Provider!Commit \cup {0} /\ faults \in 0..MaxFaults
  /\ providerProc \in Integrator

\* The target branch has a last commit.
TipThere == \E c \in Provider!Main : \A x \in Provider!Main : x <= c

\* The row of the effort, and what its fields say of each other: no cycle begins past the limit.
EffExact ==
  /\ providerEff.phase \in {"gates", "moving", "uncertain", "integrated"} => providerEff.cand # 0
  /\ providerEff.phase = "moving" <=> providerEff.move # 0
  /\ providerEff.signed <= providerEff.built /\ providerEff.cand <= providerEff.built
  /\ providerEff.block # "limit" /\ providerEff.phase # "cancelled" => providerEff.fails < CycleLimit

\* What a run knows is still so: an effort it works on is not suspended and in a phase of its own, the base it
\* compared is that of the candidate until the movement begins, and a landing it read is the one the request has.
RunExact ==
  LET pc == providerProc.pc
      phase == providerEff.phase
  IN  /\ pc # "idle" => providerEff.block = "no"
      /\ pc \in GateSteps => phase \in {"gates", "moving", "cancelled"}
      /\ pc = "recompose" => phase \in {"moving", "cancelled"}
      /\ pc \in ReconcileSteps => phase = "uncertain"
      /\ pc \in {"graph", "sign", "status", "resnapshot", "ready"} => providerProc.base = providerEff.target
      /\ pc \in {"refetch", "move", "recompose"} => providerProc.base \in Provider!Commit
      /\ pc \in {"resnapshot", "ready"} /\ phase # "cancelled" => providerEff.signed = providerEff.cand
      /\ pc \in LandingKnown =>
           providerProc.landing = mr.merged /\ mr.merged # 0 /\ mr.head = 1

\* What is judged as landed: the commit, its tree, its base and its history are those of the item.
LandsItem(c) ==
  /\ c = mr.merged /\ c # 0 /\ guar = c /\ mr.head = 1
  /\ commits[c].on = "main"
  /\ commits[c].tree = Provider!CandTree
  /\ commits[c].parent = providerEff.target
  /\ providerEff.declared = "merge" => commits[c].has = 1

LandedExact ==
  /\ providerProc.pc = "r_mark" => LandsItem(providerProc.landing)
  /\ providerEff.phase = "integrated" => LandsItem(providerEff.landed)

ProviderInv == ProviderTypes /\ TipThere /\ EffExact /\ RunExact /\ LandedExact

LEMMA ProviderConstants ==
  /\ Kinds \subseteq {"github", "gitlab"} /\ Starts \subseteq {"gates", "uncertain"}
  /\ CycleLimit \in Nat \ {0} /\ MaxCommits \in Nat \ {0} /\ MaxProviderCand \in Nat \ {0} /\ MaxFaults \in Nat
  /\ Provider!Commit = 1..MaxCommits
  BY ProviderAssumption DEF Provider!ConstantsOK, Provider!Commit

\* The tip is a commit there is, and the last one of the branch.
LEMMA TipIsLast ==
  ASSUME ProviderTypes, TipThere
  PROVE  /\ Provider!Tip \in Provider!Main /\ \A x \in Provider!Main : x <= Provider!Tip
         /\ Provider!Tip \in 1..Len(commits) /\ Provider!Tip \in Provider!Commit
         /\ 1 \in Provider!Commit
  <1>1. Provider!Tip \in Provider!Main /\ \A x \in Provider!Main : x <= Provider!Tip
    BY DEF TipThere, Provider!Tip
  <1>2. Len(commits) \in 1..MaxCommits /\ Provider!Main \subseteq 1..Len(commits)
    BY DEF ProviderTypes, Provider!Main
  <1> QED BY <1>1, <1>2, ProviderConstants

LEMMA ProviderInit == Provider!Init => ProviderInv
  <1> SUFFICES ASSUME Provider!Init PROVE ProviderInv
    OBVIOUS
  <1> USE ProviderConstants
  <1>1. PICK kind \in Kinds :
          mr = [kind |-> kind, head |-> 1, target |-> "main", same |-> TRUE, merged |-> 0, method |-> "none"]
    BY DEF Provider!Init
  <1>2. PICK phase \in Starts, edited \in BOOLEAN, proof \in BOOLEAN, declared \in {"none", "merge", "squash"} :
          providerEff = [phase |-> phase, block |-> "no", target |-> 1, cand |-> 1, edited |-> edited, built |-> 1,
                         signed |-> IF proof THEN 1 ELSE 0, move |-> 0, fails |-> 0, landed |-> 0,
                         declared |-> declared, proof |-> proof]
    BY DEF Provider!Init
  <1>3. commits = <<[tree |-> <<0, 0, FALSE>>, parent |-> 0, has |-> 0, on |-> "main"]>>
    BY DEF Provider!Init
  <1>4. /\ guar = 0 /\ faults = 0
        /\ providerProc = [pc |-> "idle", fetched |-> 0, base |-> 0, landing |-> 0, history |-> "none"]
    BY DEF Provider!Init, Provider!Idle
  <1>5. commits \in Seq(CommitRow) /\ Len(commits) = 1 /\ commits[1].on = "main"
    <2>1. <<0, 0, FALSE>> \in (0..2) \X (0..MaxCommits) \X BOOLEAN
      <3>1. 0 \in 0..2 /\ 0 \in 0..MaxCommits
        OBVIOUS
      <3> QED BY ONLY <3>1, Zenon
    <2>2. [tree |-> <<0, 0, FALSE>>, parent |-> 0, has |-> 0, on |-> "main"] \in CommitRow
      BY <2>1 DEF CommitRow
    <2> QED BY <1>3, <2>2
  <1>6. mr \in Request /\ mr.merged = 0
    BY <1>1 DEF Request
  <1>7. providerEff \in Provider!EffRow
    <2>1. 1 \in Provider!Commit /\ 0 \in 0..MaxProviderCand /\ 1 \in 0..MaxProviderCand /\ 0 \in 0..CycleLimit
      OBVIOUS
    <2>2. phase \in {"gates", "uncertain"} /\ (IF proof THEN 1 ELSE 0) \in 0..MaxProviderCand
      BY <1>2, <2>1
    <2> QED BY <1>2, <2>1, <2>2 DEF Provider!EffRow
  <1>8. providerProc \in Integrator
    BY <1>4 DEF Integrator
  <1>9. ProviderTypes
    BY <1>4, <1>5, <1>6, <1>7, <1>8 DEF ProviderTypes
  <1>10. TipThere
    <2>1. Provider!Main = {1}
      BY <1>5 DEF Provider!Main
    <2> QED BY <2>1 DEF TipThere
  <1>11. EffExact
    BY <1>2 DEF EffExact
  <1>12. RunExact /\ LandedExact
    BY <1>2, <1>4 DEF RunExact, LandedExact, GateSteps, ReconcileSteps, LandingKnown
  <1> QED BY <1>9, <1>10, <1>11, <1>12 DEF ProviderInv

-----------------------------------------------------------------------------
(* The steps of a landing through a provider *)

\* The integrator goes on and nothing else changes.
LEMMA GoesOn ==
  ASSUME ProviderInv, providerProc' \in Integrator, RunExact', providerProc'.pc # "r_mark",
         faults' \in 0..MaxFaults, UNCHANGED <<commits, mr, providerEff, guar>>
  PROVE  ProviderInv'
  <1>1. ProviderTypes'
    BY DEF ProviderInv, ProviderTypes
  <1>2. TipThere'
    BY DEF ProviderInv, TipThere, Provider!Main
  <1>3. EffExact'
    BY DEF ProviderInv, EffExact
  <1>4. LandedExact'
    BY DEF ProviderInv, LandedExact, LandsItem, Provider!CandTree
  <1> QED BY <1>1, <1>2, <1>3, <1>4 DEF ProviderInv

LEMMA IdleIs ==
  /\ Provider!Idle \in Integrator /\ Provider!Idle.pc = "idle"
  BY ProviderConstants DEF Provider!Idle, Integrator

\* The run ends and nothing else changes.
LEMMA StopsStep ==
  ASSUME ProviderInv, Provider!Stop, faults' \in 0..MaxFaults, UNCHANGED <<commits, mr, providerEff, guar>>
  PROVE  ProviderInv'
  <1>1. providerProc' \in Integrator /\ providerProc'.pc = "idle"
    BY IdleIs DEF Provider!Stop
  <1>2. RunExact'
    BY <1>1 DEF RunExact, GateSteps, ReconcileSteps, LandingKnown
  <1> QED BY <1>1, <1>2, GoesOn

\* The effort changes and the run ends, in a phase in which nothing is landed.
LEMMA EndsWith ==
  ASSUME ProviderInv, Provider!Stop, faults' \in 0..MaxFaults, UNCHANGED <<commits, mr, guar>>,
         providerEff' \in Provider!EffRow, EffExact', providerEff'.phase # "integrated"
  PROVE  ProviderInv'
  <1>1. providerProc' \in Integrator /\ providerProc'.pc = "idle"
    BY IdleIs DEF Provider!Stop
  <1>2. RunExact' /\ LandedExact'
    BY <1>1 DEF RunExact, LandedExact, GateSteps, ReconcileSteps, LandingKnown
  <1>3. ProviderTypes'
    BY <1>1 DEF ProviderInv, ProviderTypes
  <1>4. TipThere'
    BY DEF ProviderInv, TipThere, Provider!Main
  <1> QED BY <1>2, <1>3, <1>4 DEF ProviderInv

\* A run that blocks, or whose command fails, suspends an effort that can be resumed.
LEMMA SuspendsStep ==
  ASSUME ProviderInv, NEW kind \in {"infra", "provider"}, Provider!Integrating, Provider!Stop,
         providerEff' = Provider!Suspended(kind), faults' \in 0..MaxFaults, UNCHANGED <<commits, mr, guar>>
  PROVE  ProviderInv'
  <1>1. providerEff \in Provider!EffRow /\ EffExact
    BY DEF ProviderInv, ProviderTypes
  <1>2. providerEff' = providerEff \/ providerEff' = [providerEff EXCEPT !.block = kind]
    BY DEF Provider!Suspended
  <1>3. providerEff' \in Provider!EffRow
    BY <1>1, <1>2 DEF Provider!EffRow
  <1>4. EffExact' /\ providerEff'.phase = providerEff.phase
    BY <1>1, <1>2 DEF EffExact, Provider!EffRow, Provider!Integrating
  <1>5. providerEff.phase # "integrated"
    BY DEF Provider!Integrating
  <1> QED BY <1>3, <1>4, <1>5, EndsWith

LEMMA BlockStep ==
  ASSUME ProviderInv, NEW kind \in {"infra", "provider"}, Provider!Integrating, Provider!Block(kind)
  PROVE  ProviderInv'
  <1>1. /\ providerEff' = Provider!Suspended(kind) /\ Provider!Stop
        /\ UNCHANGED <<commits, mr, guar, faults>>
    BY DEF Provider!Block
  <1>2. faults' \in 0..MaxFaults
    BY <1>1 DEF ProviderInv, ProviderTypes
  <1> QED BY <1>1, <1>2, SuspendsStep

LEMMA RejectStep ==
  ASSUME ProviderInv, Provider!Integrating, Provider!Reject
  PROVE  ProviderInv'
  <1>1. /\ providerEff' = Provider!Rejected /\ Provider!Stop
        /\ UNCHANGED <<commits, mr, guar, faults>>
    BY DEF Provider!Reject
  <1>2. faults' \in 0..MaxFaults /\ providerEff \in Provider!EffRow /\ EffExact
    BY <1>1 DEF ProviderInv, ProviderTypes
  <1>3. CASE providerEff.phase # "gates"
    BY <1>1, <1>2, <1>3, StopsStep DEF Provider!Rejected
  <1>4. CASE providerEff.phase = "gates"
    <2>1. providerEff.fails \in 0..CycleLimit /\ providerEff.fails < CycleLimit /\ providerEff.built \in 0..MaxProviderCand
      BY <1>2, <1>4 DEF EffExact, Provider!Integrating, Provider!EffRow
    <2>2. providerEff.fails + 1 \in 0..CycleLimit /\ 0 \in 0..MaxProviderCand
      BY <2>1, ProviderConstants
    <2>3. providerEff' = [providerEff EXCEPT !.phase = "composing", !.cand = 0, !.signed = 0, !.fails = providerEff.fails + 1,
                            !.block = IF providerEff.fails + 1 = CycleLimit THEN "limit" ELSE "no"]
      BY <1>1, <1>2, <1>4 DEF Provider!Rejected, Provider!EffRow
    <2>4. providerEff' \in Provider!EffRow
      BY <1>2, <2>2, <2>3 DEF Provider!EffRow
    <2>5. EffExact' /\ providerEff'.phase = "composing"
      <3>1. /\ providerEff'.phase = "composing" /\ providerEff'.cand = 0 /\ providerEff'.signed = 0
            /\ providerEff'.fails = providerEff.fails + 1 /\ providerEff'.move = providerEff.move
            /\ providerEff'.built = providerEff.built
            /\ providerEff'.block = (IF providerEff.fails + 1 = CycleLimit THEN "limit" ELSE "no")
        BY <1>2, <2>3 DEF Provider!EffRow
      <3> QED BY <1>2, <1>4, <2>1, <3>1, ProviderConstants DEF EffExact
    <2> QED BY <1>1, <1>2, <2>4, <2>5, EndsWith
  <1> QED BY <1>3, <1>4

\* What a run reads while it goes on.
LEMMA GotoIs ==
  ASSUME providerProc \in Integrator,
         NEW step \in {"idle", "recompose"} \cup GateSteps \cup ReconcileSteps, Provider!Goto(step)
  PROVE  /\ providerProc' \in Integrator /\ providerProc'.pc = step
         /\ providerProc'.base = providerProc.base /\ providerProc'.landing = providerProc.landing
  BY DEF Provider!Goto, Integrator

\* A snapshot is the request as it is; the base it names is a commit.
LEMMA SnapshotIs ==
  ASSUME ProviderInv, NEW s \in Provider!Snapshots
  PROVE  s.same = mr.same /\ s.target = mr.target /\ s.head = mr.head /\ s.base \in Provider!Commit
  <1>1. PICK b \in {1, Provider!Tip}, gate \in Provider!Gates :
          s = [same |-> mr.same, target |-> mr.target, head |-> mr.head, base |-> b, gate |-> gate]
    BY DEF Provider!Snapshots
  <1>2. b \in Provider!Commit
    BY <1>1, TipIsLast DEF ProviderInv
  <1> QED BY <1>1, <1>2

LEMMA Facts ==
  ASSUME ProviderInv
  PROVE  /\ providerProc \in Integrator /\ providerEff \in Provider!EffRow /\ mr \in Request
         /\ faults \in 0..MaxFaults /\ guar \in Provider!Commit \cup {0}
         /\ EffExact /\ RunExact /\ LandedExact
  BY DEF ProviderInv, ProviderTypes

LEMMA ComposeStep == ProviderInv /\ Provider!Compose => ProviderInv'
  <1> SUFFICES ASSUME ProviderInv, Provider!Compose PROVE ProviderInv'
    OBVIOUS
  <1>1. PICK edited \in BOOLEAN :
          providerEff' = [providerEff EXCEPT !.phase = "gates", !.built = providerEff.built + 1, !.cand = providerEff.built + 1, !.edited = edited]
    BY Facts DEF Provider!Compose, Provider!EffRow
  <1>2. /\ providerProc.pc = "idle" /\ providerEff.phase = "composing" /\ providerEff.block = "no"
        /\ providerEff.built < MaxProviderCand /\ UNCHANGED <<commits, mr, guar, providerProc, faults>>
    BY DEF Provider!Compose, Provider!At, Provider!Is
  <1>3. providerEff.built \in 0..MaxProviderCand /\ providerEff.signed \in 0..MaxProviderCand
    BY Facts DEF Provider!EffRow
  <1>4. providerEff.built + 1 \in 0..MaxProviderCand /\ providerEff.built + 1 # 0
    BY <1>2, <1>3, ProviderConstants
  <1>5. providerEff' \in Provider!EffRow
    BY Facts, <1>1, <1>4 DEF Provider!EffRow
  <1>6. /\ providerEff'.phase = "gates" /\ providerEff'.built = providerEff.built + 1 /\ providerEff'.cand = providerEff.built + 1
        /\ providerEff'.move = providerEff.move /\ providerEff'.signed = providerEff.signed
        /\ providerEff'.fails = providerEff.fails /\ providerEff'.block = providerEff.block
    BY Facts, <1>1 DEF Provider!EffRow
  <1>7. EffExact'
    BY Facts, <1>2, <1>3, <1>4, <1>6 DEF EffExact
  <1>8. RunExact' /\ LandedExact'
    BY <1>2, <1>6 DEF RunExact, LandedExact, GateSteps, ReconcileSteps, LandingKnown
  <1>9. ProviderTypes' /\ TipThere'
    BY <1>2, <1>5 DEF ProviderInv, ProviderTypes, TipThere, Provider!Main
  <1> QED BY <1>7, <1>8, <1>9 DEF ProviderInv

LEMMA RetryStep == ProviderInv /\ Provider!Retry => ProviderInv'
  <1> SUFFICES ASSUME ProviderInv, Provider!Retry PROVE ProviderInv'
    OBVIOUS
  <1>1. /\ providerEff.block = "infra" /\ providerEff' = [providerEff EXCEPT !.block = "no"]
        /\ UNCHANGED <<commits, mr, guar, providerProc, faults>>
    BY DEF Provider!Retry
  <1>2. providerEff' \in Provider!EffRow
    BY Facts, <1>1 DEF Provider!EffRow
  <1>3. /\ providerEff'.block = "no" /\ providerEff'.phase = providerEff.phase /\ providerEff'.cand = providerEff.cand
        /\ providerEff'.built = providerEff.built /\ providerEff'.signed = providerEff.signed /\ providerEff'.move = providerEff.move
        /\ providerEff'.fails = providerEff.fails /\ providerEff'.target = providerEff.target /\ providerEff'.landed = providerEff.landed
        /\ providerEff'.edited = providerEff.edited /\ providerEff'.declared = providerEff.declared
    BY Facts, <1>1 DEF Provider!EffRow
  <1>4. EffExact'
    BY Facts, <1>1, <1>3 DEF EffExact
  <1>5. RunExact'
    BY Facts, <1>1, <1>3 DEF RunExact
  <1>6. LandedExact'
    BY Facts, <1>1, <1>3 DEF LandedExact, LandsItem, Provider!CandTree
  <1>7. ProviderTypes' /\ TipThere'
    BY <1>1, <1>2 DEF ProviderInv, ProviderTypes, TipThere, Provider!Main
  <1> QED BY <1>4, <1>5, <1>6, <1>7 DEF ProviderInv

\* No landing is judged of an item that can be cancelled.
LEMMA CancelStep == ProviderInv /\ Provider!Cancel => ProviderInv'
  <1> SUFFICES ASSUME ProviderInv, Provider!Cancel PROVE ProviderInv'
    OBVIOUS
  <1>1. /\ providerEff.phase \notin {"uncertain", "integrated", "cancelled"}
        /\ providerEff' = [providerEff EXCEPT !.phase = "cancelled", !.block = "no", !.cand = 0, !.move = 0]
        /\ UNCHANGED <<commits, mr, guar, providerProc, faults>>
    BY DEF Provider!Cancel, Provider!External
  <1>2. providerEff' \in Provider!EffRow
    <2>1. 0 \in 0..MaxProviderCand
      BY ProviderConstants
    <2> QED BY Facts, <1>1, <2>1 DEF Provider!EffRow
  <1>3. /\ providerEff'.phase = "cancelled" /\ providerEff'.block = "no" /\ providerEff'.cand = 0 /\ providerEff'.move = 0
        /\ providerEff'.built = providerEff.built /\ providerEff'.signed = providerEff.signed /\ providerEff'.target = providerEff.target
        /\ providerEff.built \in 0..MaxProviderCand
    BY Facts, <1>1 DEF Provider!EffRow
  <1>4. EffExact'
    BY Facts, <1>3, ProviderConstants DEF EffExact
  <1>5. RunExact' /\ providerProc.pc \notin ReconcileSteps
    BY Facts, <1>1, <1>3 DEF RunExact, GateSteps, ReconcileSteps, LandingKnown
  <1>6. LandedExact'
    BY <1>1, <1>3, <1>5 DEF LandedExact, ReconcileSteps, LandingKnown
  <1>7. ProviderTypes' /\ TipThere'
    BY <1>1, <1>2 DEF ProviderInv, ProviderTypes, TipThere, Provider!Main
  <1> QED BY <1>4, <1>5, <1>6, <1>7 DEF ProviderInv

LEMMA StartStep == ProviderInv /\ Provider!Start => ProviderInv'
  <1> SUFFICES ASSUME ProviderInv, Provider!Start PROVE ProviderInv'
    OBVIOUS
  <1> DEFINE to == IF providerEff.phase # "uncertain" THEN "fetch" ELSE IF providerEff.proof THEN "r_verify" ELSE "fenced"
  <1>1. /\ providerEff.phase \in {"gates", "moving", "uncertain"} /\ providerEff.block \in {"no", "provider"}
        /\ providerEff' = [providerEff EXCEPT !.block = "no"] /\ Provider!Goto(to)
        /\ UNCHANGED <<commits, mr, guar, faults>>
    BY DEF Provider!Start, Provider!Resumed
  <1>2. providerEff' \in Provider!EffRow
    BY Facts, <1>1 DEF Provider!EffRow
  <1>3. /\ providerEff'.block = "no" /\ providerEff'.phase = providerEff.phase /\ providerEff'.cand = providerEff.cand
        /\ providerEff'.built = providerEff.built /\ providerEff'.signed = providerEff.signed /\ providerEff'.move = providerEff.move
        /\ providerEff'.fails = providerEff.fails
    BY Facts, <1>1 DEF Provider!EffRow
  <1>4. /\ to \in {"fetch", "r_verify", "fenced"} /\ (to = "fetch" <=> providerEff.phase # "uncertain")
        /\ to \in {"idle", "recompose"} \cup GateSteps \cup ReconcileSteps
    BY DEF GateSteps, ReconcileSteps
  <1>5. providerProc' \in Integrator /\ providerProc'.pc = to
    <2> HIDE DEF to
    <2> QED BY Facts, <1>1, <1>4, GotoIs
  <1> HIDE DEF to
  <1>6. EffExact'
    BY Facts, <1>1, <1>3 DEF EffExact
  <1>7. RunExact' /\ LandedExact'
    BY <1>1, <1>3, <1>4, <1>5 DEF RunExact, LandedExact, GateSteps, ReconcileSteps, LandingKnown
  <1>8. ProviderTypes' /\ TipThere'
    BY <1>1, <1>2, <1>5 DEF ProviderInv, ProviderTypes, TipThere, Provider!Main
  <1> QED BY <1>6, <1>7, <1>8 DEF ProviderInv

\* What a step of a run may rely on: the item is being integrated.
LEMMA Running ==
  ASSUME ProviderInv, Provider!Integrating, providerProc.pc # "idle"
  PROVE  /\ providerEff.phase \in {"gates", "moving", "uncertain"} /\ providerEff.block = "no"
         /\ providerProc.pc \in GateSteps \cup {"recompose"} => providerEff.phase \in {"gates", "moving"}
  BY Facts DEF Provider!Integrating, RunExact, ReconcileSteps, GateSteps

\* The run goes on at the gates, or with a landing it already knows, as it is.
LEMMA RunGoesOn ==
  ASSUME ProviderInv, NEW step \in GateSteps \cup ReconcileSteps, Provider!Goto(step), step # "r_mark",
         providerEff.block = "no",
         step \in GateSteps => providerEff.phase \in {"gates", "moving", "cancelled"},
         step \in ReconcileSteps => providerEff.phase = "uncertain",
         step \in {"graph", "sign", "status", "resnapshot", "ready"} => providerProc.base = providerEff.target,
         step \notin {"refetch", "move"},
         step \in {"resnapshot", "ready"} => providerEff.signed = providerEff.cand,
         step \in LandingKnown => providerProc.pc \in LandingKnown,
         UNCHANGED <<commits, mr, providerEff, guar, faults>>
  PROVE  ProviderInv'
  <1>1. /\ providerProc' \in Integrator /\ providerProc'.pc = step
        /\ providerProc'.base = providerProc.base /\ providerProc'.landing = providerProc.landing
    BY Facts, GotoIs
  <1>2. step # "idle" /\ step # "recompose"
    BY DEF GateSteps, ReconcileSteps, LandingKnown
  <1>3. RunExact'
    BY Facts, <1>1, <1>2 DEF RunExact
  <1> QED BY Facts, <1>1, <1>3, GoesOn

LEMMA FetchStep == ProviderInv /\ Provider!Fetch => ProviderInv'
  <1> SUFFICES ASSUME ProviderInv, Provider!Fetch PROVE ProviderInv'
    OBVIOUS
  <1>1. /\ providerProc.pc = "fetch" /\ Provider!Integrating
        /\ providerProc' = [providerProc EXCEPT !.pc = "verify", !.fetched = Provider!Tip]
        /\ UNCHANGED <<commits, mr, providerEff, guar, faults>>
    BY DEF Provider!Fetch, Provider!At
  <1>2. Provider!Tip \in 0..MaxCommits
    BY TipIsLast, ProviderConstants DEF ProviderInv
  <1>3. providerProc' \in Integrator /\ providerProc'.pc = "verify"
    BY Facts, <1>1, <1>2 DEF Integrator, GateSteps
  <1>4. providerEff.phase \in {"gates", "moving"} /\ providerEff.block = "no"
    BY <1>1, Running DEF GateSteps
  <1>5. RunExact'
    BY <1>1, <1>3, <1>4 DEF RunExact, GateSteps, ReconcileSteps, LandingKnown
  <1> QED BY Facts, <1>1, <1>3, <1>5, GoesOn

LEMMA VerifyStep == ProviderInv /\ Provider!Verify => ProviderInv'
  <1> SUFFICES ASSUME ProviderInv, Provider!Verify PROVE ProviderInv'
    OBVIOUS
  <1>1. /\ providerProc.pc = "verify" /\ Provider!Integrating
        /\ \/ Provider!Goto("snapshot") /\ UNCHANGED <<commits, mr, providerEff, guar, faults>>
           \/ Provider!Block("provider")
    BY DEF Provider!Verify, Provider!At
  <1>2. providerEff.phase \in {"gates", "moving"} /\ providerEff.block = "no"
    BY <1>1, Running DEF GateSteps
  <1>3. CASE Provider!Goto("snapshot") /\ UNCHANGED <<commits, mr, providerEff, guar, faults>>
    BY <1>2, <1>3, RunGoesOn DEF GateSteps, ReconcileSteps, LandingKnown
  <1> QED BY <1>1, <1>3, BlockStep

\* The base of the snapshot is that of the attempt, or the movement to it begins.
LEMMA SnapshotStep == ProviderInv /\ Provider!Snapshot => ProviderInv'
  <1> SUFFICES ASSUME ProviderInv, Provider!Snapshot PROVE ProviderInv'
    OBVIOUS
  <1>1. providerProc.pc = "snapshot" /\ Provider!Integrating
    BY DEF Provider!Snapshot, Provider!At
  <1>2. PICK s \in Provider!Snapshots :
          \/ Provider!Block("provider") \/ Provider!Reject
          \/ /\ providerProc' = [providerProc EXCEPT !.base = s.base, !.pc = IF providerEff.target = s.base THEN "graph" ELSE "move"]
             /\ UNCHANGED <<commits, mr, providerEff, guar, faults>>
    BY DEF Provider!Snapshot
  <1>3. providerEff.phase \in {"gates", "moving"} /\ providerEff.block = "no"
    BY <1>1, Running DEF GateSteps
  <1>4. CASE /\ providerProc' = [providerProc EXCEPT !.base = s.base, !.pc = IF providerEff.target = s.base THEN "graph" ELSE "move"]
             /\ UNCHANGED <<commits, mr, providerEff, guar, faults>>
    <2>1. s.base \in Provider!Commit /\ s.base \in 0..MaxCommits
      BY SnapshotIs, ProviderConstants
    <2>2. /\ providerProc' \in Integrator /\ providerProc'.base = s.base
          /\ providerProc'.pc = IF providerEff.target = s.base THEN "graph" ELSE "move"
      BY Facts, <1>4, <2>1 DEF Integrator, GateSteps
    <2>3. RunExact' /\ providerProc'.pc # "r_mark"
      BY <1>3, <1>4, <2>1, <2>2 DEF RunExact, GateSteps, ReconcileSteps, LandingKnown, Provider!Commit
    <2> QED BY Facts, <1>4, <2>2, <2>3, GoesOn
  <1> QED BY <1>1, <1>2, <1>4, BlockStep, RejectStep

LEMMA VerifyGraphStep == ProviderInv /\ Provider!VerifyGraph => ProviderInv'
  <1> SUFFICES ASSUME ProviderInv, Provider!VerifyGraph PROVE ProviderInv'
    OBVIOUS
  <1>1. /\ providerProc.pc = "graph" /\ Provider!Integrating
        /\ \/ Provider!Goto("sign") /\ UNCHANGED <<commits, mr, providerEff, guar, faults>>
           \/ providerEff.signed = providerEff.cand /\ Provider!Goto("resnapshot") /\ UNCHANGED <<commits, mr, providerEff, guar, faults>>
           \/ Provider!Reject
    BY DEF Provider!VerifyGraph, Provider!At
  <1>2. providerEff.phase \in {"gates", "moving"} /\ providerEff.block = "no" /\ providerProc.base = providerEff.target
    BY Facts, <1>1, Running DEF GateSteps, RunExact
  <1>3. CASE Provider!Goto("sign") /\ UNCHANGED <<commits, mr, providerEff, guar, faults>>
    BY <1>2, <1>3, RunGoesOn DEF GateSteps, ReconcileSteps, LandingKnown
  <1>4. CASE providerEff.signed = providerEff.cand /\ Provider!Goto("resnapshot") /\ UNCHANGED <<commits, mr, providerEff, guar, faults>>
    BY <1>2, <1>4, RunGoesOn DEF GateSteps, ReconcileSteps, LandingKnown
  <1> QED BY <1>1, <1>3, <1>4, RejectStep

LEMMA SignCandidateStep == ProviderInv /\ Provider!SignCandidate => ProviderInv'
  <1> SUFFICES ASSUME ProviderInv, Provider!SignCandidate PROVE ProviderInv'
    OBVIOUS
  <1>1. /\ providerProc.pc = "sign" /\ Provider!Integrating
        /\ (Provider!Goto("status") /\ UNCHANGED <<commits, mr, providerEff, guar, faults>>) \/ Provider!Reject
    BY DEF Provider!SignCandidate, Provider!At
  <1>2. providerEff.phase \in {"gates", "moving"} /\ providerEff.block = "no" /\ providerProc.base = providerEff.target
    BY Facts, <1>1, Running DEF GateSteps, RunExact
  <1>3. CASE Provider!Goto("status") /\ UNCHANGED <<commits, mr, providerEff, guar, faults>>
    BY <1>2, <1>3, RunGoesOn DEF GateSteps, ReconcileSteps, LandingKnown
  <1> QED BY <1>1, <1>3, RejectStep

\* The effort changes while the run goes on at the gates.
LEMMA GatesWith ==
  ASSUME ProviderInv, providerEff' \in Provider!EffRow, EffExact', providerEff'.phase # "integrated",
         providerProc' \in Integrator, providerProc'.pc # "r_mark", RunExact', UNCHANGED <<commits, mr, guar, faults>>
  PROVE  ProviderInv'
  <1>1. ProviderTypes' /\ TipThere'
    BY DEF ProviderInv, ProviderTypes, TipThere, Provider!Main
  <1>2. LandedExact'
    BY DEF LandedExact
  <1> QED BY <1>1, <1>2 DEF ProviderInv

LEMMA SignStatusStep == ProviderInv /\ Provider!SignStatus => ProviderInv'
  <1> SUFFICES ASSUME ProviderInv, Provider!SignStatus PROVE ProviderInv'
    OBVIOUS
  <1>1. /\ providerProc.pc = "status" /\ Provider!Integrating
        /\ \/ Provider!Block("infra") \/ Provider!Reject
           \/ /\ providerEff' = [providerEff EXCEPT !.signed = providerEff.cand] /\ Provider!Goto("resnapshot")
              /\ UNCHANGED <<commits, mr, guar, faults>>
    BY DEF Provider!SignStatus, Provider!At
  <1>2. providerEff.phase \in {"gates", "moving"} /\ providerEff.block = "no" /\ providerProc.base = providerEff.target
    BY Facts, <1>1, Running DEF GateSteps, RunExact
  <1>3. CASE /\ providerEff' = [providerEff EXCEPT !.signed = providerEff.cand] /\ Provider!Goto("resnapshot")
             /\ UNCHANGED <<commits, mr, guar, faults>>
    <2>1. /\ providerEff' \in Provider!EffRow /\ providerEff'.signed = providerEff.cand /\ providerEff'.cand = providerEff.cand
          /\ providerEff'.phase = providerEff.phase /\ providerEff'.block = providerEff.block /\ providerEff'.target = providerEff.target
          /\ providerEff'.built = providerEff.built /\ providerEff'.move = providerEff.move /\ providerEff'.fails = providerEff.fails
      BY Facts, <1>3 DEF Provider!EffRow
    <2>2. EffExact'
      BY Facts, <2>1 DEF EffExact
    <2>3. providerProc' \in Integrator /\ providerProc'.pc = "resnapshot" /\ providerProc'.base = providerProc.base
      BY Facts, <1>3, GotoIs DEF GateSteps
    <2>4. RunExact'
      BY <1>2, <2>1, <2>3 DEF RunExact, GateSteps, ReconcileSteps, LandingKnown
    <2> QED BY <1>2, <1>3, <2>1, <2>2, <2>3, <2>4, GatesWith
  <1> QED BY <1>1, <1>3, BlockStep, RejectStep

\* The base is still the one that was compared, or what was signed off is stale.
LEMMA ResnapshotStep == ProviderInv /\ Provider!Resnapshot => ProviderInv'
  <1> SUFFICES ASSUME ProviderInv, Provider!Resnapshot PROVE ProviderInv'
    OBVIOUS
  <1>1. providerProc.pc = "resnapshot" /\ Provider!Integrating
    BY DEF Provider!Resnapshot, Provider!At
  <1>2. PICK s \in Provider!Snapshots :
          \/ Provider!Block("provider") \/ Provider!Reject
          \/ /\ providerProc' = [providerProc EXCEPT !.pc = IF s.base = providerProc.base THEN "ready" ELSE "refetch", !.base = s.base]
             /\ UNCHANGED <<commits, mr, providerEff, guar, faults>>
    BY DEF Provider!Resnapshot
  <1>3. /\ providerEff.phase \in {"gates", "moving"} /\ providerEff.block = "no"
        /\ providerProc.base = providerEff.target /\ providerEff.signed = providerEff.cand
    BY Facts, <1>1, Running DEF GateSteps, RunExact
  <1>4. CASE /\ providerProc' = [providerProc EXCEPT !.pc = IF s.base = providerProc.base THEN "ready" ELSE "refetch", !.base = s.base]
             /\ UNCHANGED <<commits, mr, providerEff, guar, faults>>
    <2>1. s.base \in Provider!Commit /\ s.base \in 0..MaxCommits
      BY SnapshotIs, ProviderConstants
    <2>2. /\ providerProc' \in Integrator /\ providerProc'.base = s.base
          /\ providerProc'.pc = IF s.base = providerProc.base THEN "ready" ELSE "refetch"
      BY Facts, <1>4, <2>1 DEF Integrator, GateSteps
    <2>3. RunExact' /\ providerProc'.pc # "r_mark"
      BY <1>3, <1>4, <2>1, <2>2 DEF RunExact, GateSteps, ReconcileSteps, LandingKnown, Provider!Commit
    <2> QED BY Facts, <1>4, <2>2, <2>3, GoesOn
  <1> QED BY <1>1, <1>2, <1>4, BlockStep, RejectStep

LEMMA RefetchStep == ProviderInv /\ Provider!Refetch => ProviderInv'
  <1> SUFFICES ASSUME ProviderInv, Provider!Refetch PROVE ProviderInv'
    OBVIOUS
  <1>1. /\ providerProc.pc = "refetch" /\ Provider!Integrating
        /\ \/ Provider!Block("provider")
           \/ /\ providerProc' = [providerProc EXCEPT !.pc = "move", !.fetched = Provider!Tip]
              /\ UNCHANGED <<commits, mr, providerEff, guar, faults>>
    BY DEF Provider!Refetch, Provider!At
  <1>2. providerEff.phase \in {"gates", "moving"} /\ providerEff.block = "no" /\ providerProc.base \in Provider!Commit
    BY Facts, <1>1, Running DEF GateSteps, RunExact
  <1>3. CASE /\ providerProc' = [providerProc EXCEPT !.pc = "move", !.fetched = Provider!Tip]
             /\ UNCHANGED <<commits, mr, providerEff, guar, faults>>
    <2>1. Provider!Tip \in 0..MaxCommits
      BY TipIsLast, ProviderConstants DEF ProviderInv
    <2>2. providerProc' \in Integrator /\ providerProc'.pc = "move" /\ providerProc'.base = providerProc.base
      BY Facts, <1>3, <2>1 DEF Integrator, GateSteps
    <2>3. RunExact'
      BY <1>2, <1>3, <2>2 DEF RunExact, GateSteps, ReconcileSteps, LandingKnown, Provider!Commit
    <2> QED BY Facts, <1>3, <2>2, <2>3, GoesOn
  <1> QED BY <1>1, <1>3, BlockStep

LEMMA UnsupportedStep == ProviderInv /\ Provider!Unsupported => ProviderInv'
  BY BlockStep DEF Provider!Unsupported

LEMMA BeginMoveStep == ProviderInv /\ Provider!BeginMove => ProviderInv'
  <1> SUFFICES ASSUME ProviderInv, Provider!BeginMove PROVE ProviderInv'
    OBVIOUS
  <1>1. /\ providerProc.pc = "move" /\ Provider!Integrating /\ UNCHANGED <<commits, mr, guar, faults>>
        /\ \/ providerEff' = [providerEff EXCEPT !.phase = "moving", !.move = providerProc.base] /\ Provider!Goto("recompose")
           \/ Provider!Stop /\ UNCHANGED providerEff
    BY DEF Provider!BeginMove, Provider!At
  <1>2. providerEff.phase \in {"gates", "moving"} /\ providerEff.block = "no" /\ providerProc.base \in Provider!Commit
    BY Facts, <1>1, Running DEF GateSteps, RunExact
  <1>3. CASE providerEff' = [providerEff EXCEPT !.phase = "moving", !.move = providerProc.base] /\ Provider!Goto("recompose")
    <2>1. /\ providerEff' \in Provider!EffRow /\ providerEff'.signed = providerEff.signed /\ providerEff'.cand = providerEff.cand
          /\ providerEff'.phase = "moving" /\ providerEff'.block = providerEff.block /\ providerEff'.target = providerEff.target
          /\ providerEff'.built = providerEff.built /\ providerEff'.move = providerProc.base /\ providerEff'.fails = providerEff.fails
      BY Facts, <1>2, <1>3 DEF Provider!EffRow
    <2>2. EffExact'
      BY Facts, <1>2, <2>1 DEF EffExact, Provider!Commit
    <2>3. providerProc' \in Integrator /\ providerProc'.pc = "recompose" /\ providerProc'.base = providerProc.base
      BY Facts, <1>3, GotoIs
    <2>4. RunExact'
      BY <1>2, <2>1, <2>3 DEF RunExact, GateSteps, ReconcileSteps, LandingKnown, Provider!Commit
    <2> QED BY <1>1, <2>1, <2>2, <2>3, <2>4, GatesWith
  <1>4. CASE Provider!Stop /\ UNCHANGED providerEff
    BY Facts, <1>1, <1>4, StopsStep
  <1> QED BY <1>1, <1>3, <1>4

LEMMA RecomposeStep == ProviderInv /\ Provider!Recompose => ProviderInv'
  <1> SUFFICES ASSUME ProviderInv, Provider!Recompose PROVE ProviderInv'
    OBVIOUS
  <1>1. /\ providerProc.pc = "recompose" /\ Provider!Integrating /\ Provider!Stop /\ UNCHANGED <<commits, mr, guar, faults>>
        /\ providerEff' = [providerEff EXCEPT !.phase = "composing", !.target = providerProc.base, !.cand = 0, !.signed = 0, !.move = 0]
    BY DEF Provider!Recompose, Provider!At
  <1>2. providerProc.base \in Provider!Commit /\ providerEff.block = "no" /\ providerEff.phase = "moving"
    BY Facts, <1>1, Running DEF RunExact, Provider!Integrating
  <1>3. /\ providerEff' \in Provider!EffRow /\ providerEff'.signed = 0 /\ providerEff'.cand = 0
        /\ providerEff'.phase = "composing" /\ providerEff'.block = providerEff.block
        /\ providerEff'.built = providerEff.built /\ providerEff'.move = 0 /\ providerEff'.fails = providerEff.fails
        /\ providerEff.built \in 0..MaxProviderCand
    <2>1. 0 \in 0..MaxProviderCand
      BY ProviderConstants
    <2> QED BY Facts, <1>1, <1>2, <2>1 DEF Provider!EffRow
  <1>4. EffExact'
    BY Facts, <1>2, <1>3, ProviderConstants DEF EffExact
  <1> QED BY Facts, <1>1, <1>3, <1>4, EndsWith

-----------------------------------------------------------------------------
(* The steps of a reconciliation *)

LEMMA FencedInvalidStep == ProviderInv /\ Provider!FencedInvalid => ProviderInv'
  <1> SUFFICES ASSUME ProviderInv, Provider!FencedInvalid PROVE ProviderInv'
    OBVIOUS
  <1>1. providerProc.pc = "fenced" /\ Provider!Reject
    BY DEF Provider!FencedInvalid, Provider!At
  <1>2. providerEff.phase = "uncertain" /\ providerEff.block = "no"
    BY Facts, <1>1 DEF RunExact, ReconcileSteps
  <1> QED BY <1>1, <1>2, RejectStep DEF Provider!Integrating

LEMMA FindCancelledStep == ProviderInv /\ Provider!FindCancelled => ProviderInv'
  BY Facts, StopsStep DEF Provider!FindCancelled

\* A step of a reconciliation has the outcome of the item open.
LEMMA Reconciling ==
  ASSUME ProviderInv, providerProc.pc \in ReconcileSteps
  PROVE  /\ providerEff.phase = "uncertain" /\ providerEff.block = "no"
         /\ providerProc.pc \in LandingKnown => providerProc.landing = mr.merged /\ mr.merged # 0 /\ mr.head = 1
  BY Facts DEF RunExact, ReconcileSteps, LandingKnown

LEMMA RVerifyStep == ProviderInv /\ Provider!RVerify => ProviderInv'
  <1> SUFFICES ASSUME ProviderInv, Provider!RVerify PROVE ProviderInv'
    OBVIOUS
  <1>1. /\ providerProc.pc \in {"r_verify", "r_reverify"} /\ Provider!Integrating
        /\ \/ Provider!Goto(IF providerProc.pc = "r_verify" THEN "r_landing" ELSE "r_snapshot") /\ UNCHANGED <<commits, mr, providerEff, guar, faults>>
           \/ Provider!Block("provider")
    BY DEF Provider!RVerify, Provider!At
  <1>2. providerEff.phase = "uncertain" /\ providerEff.block = "no"
    BY <1>1, Reconciling DEF ReconcileSteps, LandingKnown
  <1>3. CASE providerProc.pc = "r_verify" /\ Provider!Goto("r_landing") /\ UNCHANGED <<commits, mr, providerEff, guar, faults>>
    BY <1>2, <1>3, RunGoesOn DEF GateSteps, ReconcileSteps, LandingKnown
  <1>4. CASE providerProc.pc = "r_reverify" /\ Provider!Goto("r_snapshot") /\ UNCHANGED <<commits, mr, providerEff, guar, faults>>
    BY <1>2, <1>4, RunGoesOn DEF GateSteps, ReconcileSteps, LandingKnown
  <1> QED BY <1>1, <1>3, <1>4, BlockStep

\* The landing the provider names is the one that merged the admitted head.
LEMMA RLandingStep == ProviderInv /\ Provider!RLanding => ProviderInv'
  <1> SUFFICES ASSUME ProviderInv, Provider!RLanding PROVE ProviderInv'
    OBVIOUS
  <1>1. providerProc.pc = "r_landing" /\ Provider!Integrating
    BY DEF Provider!RLanding, Provider!At
  <1>2. CASE Provider!Landing.commit = 0 \/ Provider!Landing.head # 1
    BY <1>1, <1>2, BlockStep DEF Provider!RLanding
  <1>3. CASE ~(Provider!Landing.commit = 0 \/ Provider!Landing.head # 1)
    <2>1. /\ providerProc' = [providerProc EXCEPT !.pc = "r_fetch", !.landing = Provider!Landing.commit, !.history = Provider!Landing.history]
          /\ UNCHANGED <<commits, mr, providerEff, guar, faults>>
      BY <1>3 DEF Provider!RLanding
    <2>2. /\ Provider!Landing.head = mr.head /\ Provider!Landing.commit \in {0, mr.merged}
          /\ Provider!Landing.history \in {"none", "merge", "squash"}
      BY DEF Provider!Landing, Provider!GithubLanding, Provider!GitlabLanding
    <2>3. Provider!Landing.commit = mr.merged /\ mr.merged # 0 /\ mr.head = 1 /\ mr.merged \in 0..MaxCommits
      BY Facts, <1>3, <2>2 DEF Request
    <2>4. providerProc' \in Integrator /\ providerProc'.pc = "r_fetch" /\ providerProc'.landing = mr.merged
      BY Facts, <2>1, <2>2, <2>3 DEF Integrator, ReconcileSteps, LandingKnown
    <2>5. providerEff.phase = "uncertain" /\ providerEff.block = "no"
      BY <1>1, Reconciling DEF ReconcileSteps
    <2>6. RunExact'
      BY <2>1, <2>3, <2>4, <2>5 DEF RunExact, GateSteps, ReconcileSteps, LandingKnown
    <2> QED BY Facts, <2>1, <2>4, <2>6, GoesOn
  <1> QED BY <1>2, <1>3

LEMMA RFetchStep == ProviderInv /\ Provider!RFetch => ProviderInv'
  <1> SUFFICES ASSUME ProviderInv, Provider!RFetch PROVE ProviderInv'
    OBVIOUS
  <1>1. /\ providerProc.pc = "r_fetch" /\ Provider!Integrating
        /\ providerProc' = [providerProc EXCEPT !.pc = "r_reverify", !.fetched = Provider!Tip]
        /\ UNCHANGED <<commits, mr, providerEff, guar, faults>>
    BY DEF Provider!RFetch, Provider!At
  <1>2. Provider!Tip \in 0..MaxCommits
    BY TipIsLast, ProviderConstants DEF ProviderInv
  <1>3. providerProc' \in Integrator /\ providerProc'.pc = "r_reverify" /\ providerProc'.landing = providerProc.landing
    BY Facts, <1>1, <1>2 DEF Integrator, ReconcileSteps, LandingKnown
  <1>4. /\ providerEff.phase = "uncertain" /\ providerEff.block = "no"
        /\ providerProc.landing = mr.merged /\ mr.merged # 0 /\ mr.head = 1
    BY <1>1, Reconciling DEF ReconcileSteps, LandingKnown
  <1>5. RunExact'
    BY <1>1, <1>3, <1>4 DEF RunExact, GateSteps, ReconcileSteps, LandingKnown
  <1> QED BY Facts, <1>1, <1>3, <1>5, GoesOn

LEMMA RSnapshotStep == ProviderInv /\ Provider!RSnapshot => ProviderInv'
  <1> SUFFICES ASSUME ProviderInv, Provider!RSnapshot PROVE ProviderInv'
    OBVIOUS
  <1>1. /\ providerProc.pc = "r_snapshot" /\ Provider!Integrating
        /\ \/ Provider!Goto("r_judge") /\ UNCHANGED <<commits, mr, providerEff, guar, faults>>
           \/ Provider!Block("provider")
    BY DEF Provider!RSnapshot, Provider!At
  <1>2. providerEff.phase = "uncertain" /\ providerEff.block = "no"
    BY <1>1, Reconciling DEF ReconcileSteps, LandingKnown
  <1>3. CASE Provider!Goto("r_judge") /\ UNCHANGED <<commits, mr, providerEff, guar, faults>>
    BY <1>1, <1>2, <1>3, RunGoesOn DEF GateSteps, ReconcileSteps, LandingKnown
  <1> QED BY <1>1, <1>3, BlockStep

\* What is judged as landed is the item: the guarantee is stored before the item is marked.
LEMMA RJudgeStep == ProviderInv /\ Provider!RJudge => ProviderInv'
  <1> SUFFICES ASSUME ProviderInv, Provider!RJudge PROVE ProviderInv'
    OBVIOUS
  <1>1. providerProc.pc = "r_judge" /\ Provider!Integrating
    BY DEF Provider!RJudge, Provider!At
  <1>2. CASE ~Provider!Verified \/ ~Provider!Recorded
    BY <1>1, <1>2, BlockStep DEF Provider!RJudge
  <1>3. CASE Provider!Verified /\ Provider!Recorded
    <2>1. guar' = providerProc.landing /\ Provider!Goto("r_mark") /\ UNCHANGED <<commits, mr, providerEff, faults>>
      BY <1>3 DEF Provider!RJudge
    <2>2. /\ providerEff.phase = "uncertain" /\ providerEff.block = "no"
          /\ providerProc.landing = mr.merged /\ mr.merged # 0 /\ mr.head = 1
      BY <1>1, Reconciling DEF ReconcileSteps, LandingKnown
    <2>3. /\ providerProc' \in Integrator /\ providerProc'.pc = "r_mark" /\ providerProc'.landing = providerProc.landing
      BY Facts, <2>1, GotoIs DEF ReconcileSteps, LandingKnown
    <2>4. LandsItem(providerProc.landing)'
      BY <1>3, <2>1, <2>2, <2>3 DEF LandsItem, Provider!Verified, Provider!CandTree, Provider!History
    <2>5. LandedExact'
      BY <2>1, <2>2, <2>3, <2>4 DEF LandedExact
    <2>6. RunExact'
      BY <2>1, <2>2, <2>3 DEF RunExact, GateSteps, ReconcileSteps, LandingKnown
    <2>7. EffExact' /\ TipThere'
      BY <2>1 DEF ProviderInv, EffExact, TipThere, Provider!Main
    <2>8. guar' \in Provider!Commit \cup {0}
      BY Facts, <2>1, <2>2, ProviderConstants DEF Request
    <2>9. ProviderTypes'
      BY <2>1, <2>3, <2>8 DEF ProviderInv, ProviderTypes
    <2> QED BY <2>5, <2>6, <2>7, <2>9 DEF ProviderInv
  <1> QED BY <1>2, <1>3

LEMMA RMarkStep == ProviderInv /\ Provider!RMark => ProviderInv'
  <1> SUFFICES ASSUME ProviderInv, Provider!RMark PROVE ProviderInv'
    OBVIOUS
  <1>1. /\ providerProc.pc = "r_mark" /\ providerEff.phase = "uncertain" /\ providerEff.block = "no"
        /\ providerEff' = [providerEff EXCEPT !.phase = "integrated", !.landed = providerProc.landing]
        /\ Provider!Stop /\ UNCHANGED <<commits, mr, guar, faults>>
    BY DEF Provider!RMark, Provider!At, Provider!Is
  <1>2. LandsItem(providerProc.landing)
    BY Facts, <1>1 DEF LandedExact
  <1>3. providerProc.landing \in Provider!Commit \cup {0}
    BY Facts, <1>2 DEF LandsItem
  <1>4. /\ providerEff' \in Provider!EffRow /\ providerEff'.phase = "integrated" /\ providerEff'.landed = providerProc.landing
        /\ providerEff'.signed = providerEff.signed /\ providerEff'.cand = providerEff.cand /\ providerEff'.fails = providerEff.fails
        /\ providerEff'.built = providerEff.built /\ providerEff'.move = providerEff.move /\ providerEff'.block = providerEff.block
        /\ providerEff'.target = providerEff.target /\ providerEff'.edited = providerEff.edited /\ providerEff'.declared = providerEff.declared
    BY Facts, <1>1, <1>3 DEF Provider!EffRow
  <1>5. providerProc' \in Integrator /\ providerProc'.pc = "idle"
    BY <1>1, IdleIs DEF Provider!Stop
  <1>6. LandedExact'
    BY <1>1, <1>2, <1>4, <1>5 DEF LandedExact, LandsItem, Provider!CandTree
  <1>7. EffExact'
    BY Facts, <1>1, <1>4 DEF EffExact
  <1>8. RunExact'
    BY <1>5 DEF RunExact, GateSteps, ReconcileSteps, LandingKnown
  <1>9. ProviderTypes' /\ TipThere'
    BY <1>1, <1>4, <1>5 DEF ProviderInv, ProviderTypes, TipThere, Provider!Main
  <1> QED BY <1>6, <1>7, <1>8, <1>9 DEF ProviderInv

-----------------------------------------------------------------------------
(* Failures, and the people at the provider *)

LEMMA CommandFailsStep == ProviderInv /\ Provider!CommandFails => ProviderInv'
  <1> SUFFICES ASSUME ProviderInv, Provider!CommandFails PROVE ProviderInv'
    OBVIOUS
  <1>1. /\ Provider!Integrating /\ faults < MaxFaults /\ faults' = faults + 1 /\ Provider!Stop
        /\ UNCHANGED <<commits, mr, guar>>
    BY DEF Provider!CommandFails
  <1>2. faults' \in 0..MaxFaults
    BY Facts, <1>1, ProviderConstants
  <1>3. PICK kind \in {"infra", "provider"} : providerEff' = providerEff \/ providerEff' = Provider!Suspended(kind)
    BY DEF Provider!CommandFails
  <1>4. CASE providerEff' = providerEff
    BY <1>1, <1>2, <1>4, StopsStep
  <1>5. CASE providerEff' = Provider!Suspended(kind)
    BY <1>1, <1>2, <1>5, SuspendsStep
  <1> QED BY <1>3, <1>4, <1>5

LEMMA CrashStep == ProviderInv /\ Provider!Crash => ProviderInv'
  <1> SUFFICES ASSUME ProviderInv, Provider!Crash PROVE ProviderInv'
    OBVIOUS
  <1>1. faults < MaxFaults /\ faults' = faults + 1 /\ Provider!Stop /\ UNCHANGED <<commits, mr, providerEff, guar>>
    BY DEF Provider!Crash
  <1>2. faults' \in 0..MaxFaults
    BY Facts, <1>1, ProviderConstants
  <1> QED BY <1>1, <1>2, StopsStep

\* A commit is added: those there were stay, and the branch still has a last one.
LEMMA GrowStep ==
  ASSUME ProviderInv, NEW c \in CommitRow, Provider!Grow(c)
  PROVE  /\ commits' \in Seq(CommitRow) /\ Len(commits') = Len(commits) + 1 /\ Len(commits') \in 1..MaxCommits
         /\ \A i \in 1..Len(commits) : commits'[i] = commits[i]
         /\ TipThere'
  <1>1. commits' = Append(commits, c) /\ Len(commits) < MaxCommits /\ commits \in Seq(CommitRow) /\ Len(commits) \in 1..MaxCommits
    BY DEF Provider!Grow, ProviderInv, ProviderTypes
  <1>2. /\ commits' \in Seq(CommitRow) /\ Len(commits') = Len(commits) + 1 /\ commits'[Len(commits) + 1] = c
        /\ \A i \in 1..Len(commits) : commits'[i] = commits[i]
    BY <1>1
  <1>3. Len(commits') \in 1..MaxCommits
    BY <1>1, <1>2, ProviderConstants
  <1>4. PICK t \in Provider!Main : \A x \in Provider!Main : x <= t
    BY DEF ProviderInv, TipThere
  <1>5. /\ t \in 1..Len(commits) /\ commits[t].on = "main"
        /\ \A x \in 1..Len(commits) : commits[x].on = "main" => x <= t
    BY <1>4 DEF Provider!Main
  <1>6. TipThere'
    <2>1. CASE c.on = "main"
      <3>1. Len(commits) + 1 \in Provider!Main' /\ \A x \in Provider!Main' : x <= Len(commits) + 1
        BY <1>1, <1>2, <2>1 DEF Provider!Main
      <3> QED BY <3>1 DEF TipThere
    <2>2. CASE c.on # "main"
      <3>1. t \in Provider!Main'
        BY <1>1, <1>2, <1>5 DEF Provider!Main
      <3>2. \A x \in Provider!Main' : x <= t
        <4>1. TAKE x \in Provider!Main'
        <4>2. x \in 1..Len(commits) + 1 /\ commits'[x].on = "main"
          BY <1>2 DEF Provider!Main
        <4>3. x \in 1..Len(commits)
          BY <1>1, <1>2, <2>2, <4>2
        <4> QED BY <1>2, <1>5, <4>2, <4>3
      <3> QED BY <3>1, <3>2 DEF TipThere
    <2> QED BY <2>1, <2>2
  <1> QED BY <1>2, <1>3, <1>6

\* What landed stays what it is, whatever is pushed and whoever changes a request that is merged.
LEMMA PeopleKeep ==
  ASSUME ProviderInv, commits' \in Seq(CommitRow), Len(commits') \in 1..MaxCommits, Len(commits) <= Len(commits'),
         \A i \in 1..Len(commits) : commits'[i] = commits[i], TipThere',
         mr' \in Request, mr'.merged <= Len(commits'), mr.merged # 0 => mr'.merged = mr.merged /\ mr'.head = mr.head,
         UNCHANGED <<providerEff, guar, providerProc, faults>>
  PROVE  ProviderInv'
  <1>1. ProviderTypes' /\ EffExact'
    BY DEF ProviderInv, ProviderTypes, EffExact
  <1>2. RunExact'
    BY Facts DEF RunExact
  <1>3. ASSUME NEW c, LandsItem(c)
        PROVE  LandsItem(c)'
    <2>1. c = mr.merged /\ c # 0 /\ c \in 1..Len(commits)
      BY <1>3 DEF LandsItem, ProviderInv, ProviderTypes, Request
    <2> QED BY <1>3, <2>1 DEF LandsItem, Provider!CandTree
  <1>4. LandedExact'
    <2>1. providerProc'.pc = "r_mark" => LandsItem(providerProc.landing)'
      BY Facts, <1>3 DEF LandedExact
    <2>2. providerEff'.phase = "integrated" => LandsItem(providerEff.landed)'
      BY Facts, <1>3 DEF LandedExact
    <2> QED BY <2>1, <2>2 DEF LandedExact
  <1> QED BY <1>1, <1>2, <1>4 DEF ProviderInv

LEMMA OthersPushStep == ProviderInv /\ Provider!OthersPush => ProviderInv'
  <1> SUFFICES ASSUME ProviderInv, Provider!OthersPush PROVE ProviderInv'
    OBVIOUS
  <1> DEFINE c == [tree |-> <<0, Provider!Tip, FALSE>>, parent |-> Provider!Tip, has |-> 0, on |-> "main"]
  <1>1. Provider!Grow(c) /\ UNCHANGED <<mr, providerEff, guar, providerProc, faults>>
    BY DEF Provider!OthersPush
  <1>2. c \in CommitRow
    <2>1. 0 \in 0..2 /\ Provider!Tip \in 0..MaxCommits
      BY TipIsLast, ProviderConstants DEF ProviderInv
    <2>2. <<0, Provider!Tip, FALSE>> \in (0..2) \X (0..MaxCommits) \X BOOLEAN
      BY ONLY <2>1, Zenon
    <2> QED BY <2>1, <2>2 DEF CommitRow
  <1> HIDE DEF c
  <1>3. mr \in Request /\ mr.merged <= Len(commits) /\ Len(commits) \in Nat /\ mr.merged \in Nat
    BY ProviderConstants DEF ProviderInv, ProviderTypes, Request
  <1> QED BY <1>1, <1>2, <1>3, GrowStep, PeopleKeep

LEMMA MergeStep ==
  ASSUME ProviderInv, NEW method \in Provider!MethodsOf(mr.kind), Provider!Merge(method)
  PROVE  ProviderInv'
  <1> DEFINE under == IF mr.target = "main" THEN Provider!Tip ELSE 0
             parent == IF mr.target = "main" /\ method # "rebase" THEN Provider!Tip ELSE 0
             has == IF method \in {"merge", "ff"} THEN mr.head ELSE 0
             c == [tree |-> <<mr.head, under, FALSE>>, parent |-> parent, has |-> has, on |-> mr.target]
  <1>1. /\ Provider!Grow(c) /\ mr.merged = 0 /\ mr' = [mr EXCEPT !.merged = Len(commits) + 1, !.method = method]
        /\ UNCHANGED <<providerEff, guar, providerProc, faults>>
    BY DEF Provider!Merge
  <1>2. mr.head \in {1, 2} /\ mr.target \in {"main", "other"} /\ mr \in Request
    BY Facts DEF Request
  <1>3. c \in CommitRow
    <2>1. mr.head \in 0..2 /\ under \in 0..MaxCommits /\ parent \in 0..MaxCommits /\ has \in 0..2
      BY <1>2, TipIsLast, ProviderConstants DEF ProviderInv
    <2> HIDE DEF under, parent, has
    <2>2. <<mr.head, under, FALSE>> \in (0..2) \X (0..MaxCommits) \X BOOLEAN
      BY ONLY <2>1, Zenon
    <2> QED BY <1>2, <2>1, <2>2 DEF CommitRow
  <1> HIDE DEF c
  <1>4. /\ commits' \in Seq(CommitRow) /\ Len(commits') = Len(commits) + 1 /\ Len(commits') \in 1..MaxCommits
        /\ \A i \in 1..Len(commits) : commits'[i] = commits[i]
        /\ TipThere'
    BY <1>1, <1>3, GrowStep
  <1>5. method \in {"none", "merge", "squash", "both", "rebase", "ff"}
    BY DEF Provider!MethodsOf
  <1>6. mr' \in Request /\ mr'.merged = Len(commits')
    <2>1. Len(commits) + 1 \in 0..MaxCommits
      BY <1>4, ProviderConstants
    <2>2. mr' = [mr EXCEPT !.merged = Len(commits) + 1, !.method = method]
      BY <1>1
    <2> QED BY <1>2, <1>4, <1>5, <2>1, <2>2 DEF Request
  <1> QED BY <1>1, <1>4, <1>6, PeopleKeep

LEMMA ChangeStep == ProviderInv /\ (Provider!Change \/ Provider!Rename) => ProviderInv'
  <1> SUFFICES ASSUME ProviderInv, Provider!Change \/ Provider!Rename PROVE ProviderInv'
    OBVIOUS
  <1>1. /\ \/ mr.merged = 0 /\ mr' = [mr EXCEPT !.head = 2]
           \/ mr.merged = 0 /\ mr' = [mr EXCEPT !.target = "other"]
           \/ mr' = [mr EXCEPT !.same = ~mr.same]
        /\ UNCHANGED <<commits, providerEff, guar, providerProc, faults>>
    BY Facts DEF Provider!Change, Provider!Rename, Request
  <1>2. mr' \in Request /\ mr'.merged = mr.merged /\ (mr.merged # 0 => mr'.head = mr.head)
    BY Facts, <1>1 DEF Request
  <1>3. commits \in Seq(CommitRow) /\ Len(commits) \in 1..MaxCommits /\ mr.merged <= Len(commits) /\ TipThere
    BY DEF ProviderInv, ProviderTypes
  <1>4. TipThere'
    BY <1>1, <1>3 DEF TipThere, Provider!Main
  <1> QED BY <1>1, <1>2, <1>3, <1>4, PeopleKeep

LEMMA ProviderNext == ProviderInv /\ [Provider!Next]_(Provider!vars) => ProviderInv'
  <1>1. ProviderInv /\ UNCHANGED Provider!vars => ProviderInv'
    BY DEF ProviderInv, ProviderTypes, TipThere, EffExact, RunExact, LandedExact, LandsItem, Provider!Main, Provider!CandTree, Provider!vars
  <1>2. ProviderInv /\ Provider!Gating => ProviderInv'
    BY FetchStep, VerifyStep, SnapshotStep, VerifyGraphStep, SignCandidateStep, SignStatusStep, ResnapshotStep, RefetchStep,
       UnsupportedStep, BeginMoveStep, RecomposeStep DEF Provider!Gating
  <1>3. ProviderInv /\ Provider!Reconcile => ProviderInv'
    BY FencedInvalidStep, RVerifyStep, RLandingStep, RFetchStep, RSnapshotStep, RJudgeStep, RMarkStep DEF Provider!Reconcile
  <1>4. ProviderInv /\ Provider!People => ProviderInv'
    BY OthersPushStep, MergeStep, ChangeStep DEF Provider!People
  <1> QED BY <1>1, <1>2, <1>3, <1>4, ComposeStep, RetryStep, CancelStep, StartStep, FindCancelledStep, CommandFailsStep, CrashStep
          DEF Provider!Next, Provider!Step

\* The invariant says what is stated of a landing through a provider.
LEMMA ProviderInvSays == ProviderInv => Provider!TypeOK /\ Provider!ReadyExact /\ Provider!IntegratedExact
  <1> SUFFICES ASSUME ProviderInv PROVE Provider!TypeOK /\ Provider!ReadyExact /\ Provider!IntegratedExact
    OBVIOUS
  <1>1. Provider!TypeOK
    BY Facts DEF EffExact, Provider!TypeOK
  <1>2. Provider!ReadyExact
    BY Facts DEF RunExact, Provider!ReadyExact, Provider!At, Provider!Is
  <1>3. Provider!IntegratedExact
    BY Facts DEF LandedExact, LandsItem, Provider!IntegratedExact
  <1> QED BY <1>1, <1>2, <1>3

\* The two phases that hold the authority of an open or recorded landing are left by no step of the program.
LEMMA AuthorityStep == ProviderInv /\ [Provider!Next]_(Provider!vars) => (Provider!External => Provider!External')
  <1> SUFFICES ASSUME ProviderInv, [Provider!Next]_(Provider!vars), providerEff.phase \in {"uncertain", "integrated"}
               PROVE  providerEff'.phase \in {"uncertain", "integrated"}
    BY DEF Provider!External
  <1>1. providerEff \in Provider!EffRow /\ RunExact
    BY Facts
  <1>2. ASSUME NEW kind \in {"infra", "provider"}
        PROVE  Provider!Suspended(kind).phase = providerEff.phase
    BY <1>1 DEF Provider!Suspended, Provider!EffRow
  <1>3. Provider!Rejected = providerEff
    BY DEF Provider!Rejected
  <1>4. ASSUME UNCHANGED providerEff \/ Provider!Block("provider") \/ Provider!Block("infra") \/ Provider!Reject
        PROVE  providerEff'.phase = providerEff.phase
    BY <1>2, <1>3, <1>4 DEF Provider!Block, Provider!Reject
  <1>5. CASE Provider!Compose \/ Provider!Cancel
    BY <1>5 DEF Provider!Compose, Provider!Is, Provider!Cancel, Provider!External
  <1>6. CASE Provider!Retry \/ Provider!Start
    BY <1>1, <1>6 DEF Provider!Retry, Provider!Start, Provider!Resumed, Provider!EffRow
  <1>7. CASE Provider!Gating
    <2>1. providerProc.pc \in GateSteps \cup {"recompose"}
      BY <1>7 DEF Provider!Gating, Provider!Fetch, Provider!Verify, Provider!Snapshot, Provider!VerifyGraph, Provider!SignCandidate,
                  Provider!SignStatus, Provider!Resnapshot, Provider!Refetch, Provider!Unsupported, Provider!BeginMove,
                  Provider!Recompose, Provider!At, GateSteps
    <2> QED BY <1>1, <2>1 DEF RunExact
  <1>8. CASE Provider!Reconcile
    <2>1. CASE Provider!RMark
      BY <1>1, <2>1 DEF Provider!RMark, Provider!EffRow
    <2>2. CASE Provider!FencedInvalid \/ Provider!RVerify \/ Provider!RLanding \/ Provider!RFetch \/ Provider!RSnapshot \/ Provider!RJudge
      <3>1. UNCHANGED providerEff \/ Provider!Block("provider") \/ Provider!Block("infra") \/ Provider!Reject
        BY <2>2 DEF Provider!FencedInvalid, Provider!RVerify, Provider!RLanding, Provider!RFetch, Provider!RSnapshot, Provider!RJudge
      <3> QED BY <1>4, <3>1
    <2> QED BY <1>8, <2>1, <2>2 DEF Provider!Reconcile
  <1>9. CASE Provider!CommandFails
    <2>1. \E kind \in {"infra", "provider"} : providerEff' = providerEff \/ providerEff' = Provider!Suspended(kind)
      BY <1>9 DEF Provider!CommandFails
    <2> QED BY <1>2, <2>1
  <1>10. CASE Provider!FindCancelled \/ Provider!Crash \/ Provider!People \/ UNCHANGED Provider!vars
    BY <1>10 DEF Provider!FindCancelled, Provider!Crash, Provider!People, Provider!OthersPush, Provider!Change, Provider!Rename,
                 Provider!Merge, Provider!vars
  <1> QED BY <1>5, <1>6, <1>7, <1>8, <1>9, <1>10 DEF Provider!Next, Provider!Step

-----------------------------------------------------------------------------
(* Both ways to land *)

\* A behaviour of both parts is a behaviour of each: the other one stays as it is.
LEMMA BothInit == MCInit => Init /\ Provider!Init
  BY DEF MCInit

LEMMA BothNext ==
  [MCNext]_<<policy, vars, providerVars>> => [Next]_vars /\ [Provider!Next]_(Provider!vars)
  <1>1. ASSUME UNCHANGED providerVars
        PROVE  UNCHANGED Provider!vars
    BY <1>1 DEF providerVars, Provider!vars
  <1> QED BY <1>1 DEF MCNext

\* BothTyped: the rows of both parts are well formed in every state: a candidate from the gates on, a movement exactly
\* while one is pending, and no more cycles than the automatic limit (integrate_item, integrate_provider_item).
THEOREM BothTyped == MCSpec => []TypesOK
  <1>1. Init /\ Provider!Init => LandingInv /\ ProviderInv
    BY LandingInit, ProviderInit
  <1>2. LandingInv /\ ProviderInv /\ [Next]_vars /\ [Provider!Next]_(Provider!vars) => LandingInv' /\ ProviderInv'
    BY LandingNext, ProviderNext
  <1>3. LandingInv /\ ProviderInv => TypesOK
    BY ProviderInvSays DEF LandingInv, TypesOK
  <1> QED BY <1>1, <1>2, <1>3, BothInit, BothNext, PTL DEF MCSpec

\* ProviderLandsExact: a candidate found ready is the one that was signed off, on the base named after signoff; an item
\* is integrated only by the commit that merged its request with the validated tree, base and history, as the stored
\* guarantee says; and an open landing is never given up (integrate_provider_item, reconcile_provider_landing).
THEOREM ProviderLandsExact == MCSpec => ProviderExact
  <1>1. Provider!Init => ProviderInv
    BY ProviderInit
  <1>2. ProviderInv /\ [Provider!Next]_(Provider!vars) => ProviderInv'
    BY ProviderNext
  <1>3. ProviderInv => Provider!ReadyExact /\ Provider!IntegratedExact
    BY ProviderInvSays
  <1>4. ProviderInv /\ [Provider!Next]_(Provider!vars) => [Provider!External => Provider!External']_(Provider!vars)
    BY AuthorityStep
  <1> QED BY <1>1, <1>2, <1>3, <1>4, BothInit, BothNext, PTL
          DEF MCSpec, ProviderExact, Provider!Exact, Provider!AuthorityKept
=============================================================================
