----------------------------- MODULE JtagRawProofs -----------------------------
(***************************************************************************)
(* Proofs about JtagRaw for TMS words of any length: where a word, a       *)
(* script of commands or a whole call takes the target's TAP, and when the *)
(* DLL's tracker is right about it.  Words and scripts have no bound, so   *)
(* that the proofs need induction on their length.                         *)
(***************************************************************************)
EXTENDS JtagRaw, Induction

----------------------------------------------------------------------------
(* The table of the DLL and the diagram of the standard *)

\* The states, by name.
LEMMA States == TapState = {"RESET", "IDLE", "SELECT_DR", "CAPTURE_DR", "SHIFT_DR", "EXIT1_DR",
                            "PAUSE_DR", "EXIT2_DR", "UPDATE_DR", "SELECT_IR", "CAPTURE_IR",
                            "SHIFT_IR", "EXIT1_IR", "PAUSE_IR", "EXIT2_IR", "UPDATE_IR"}
  BY DEF TapState, next_state

\* A state stands once in the two columns.
LEMMA OncePerColumn ==
  ASSUME NEW c \in Column, NEW e \in Column, NEW i \in 1..7, NEW j \in 1..7, c[i] = e[j]
  PROVE  c = e /\ i = j
  BY DEF Column

\* What is in a column is a state, and the others are not.
LEMMA ColumnStates ==
  /\ \A c \in Column, i \in 1..7 : c[i] \in TapState
  /\ \A c \in Column, i \in 1..7 : c[i] \notin {"RESET", "IDLE"}
  /\ \A c \in Column : ToSet(c) = {c[i] : i \in 1..7}
  BY States DEF Column, ToSet

\* Within a column the diagram goes by rows.
LEMMA Within ==
  ASSUME NEW c \in Column, NEW r \in 1..6, NEW b \in {0, 1}, b = 0 \/ r > 1
  PROVE  Target(c[r], b) = c[IF b = 0 THEN Zero[r] ELSE One[r]]
<1> DEFINE s == c[r]
           d == CHOOSE col \in Column : s \in ToSet(col)
           q == CHOOSE row \in 1..6 : s = d[row]
<1>1. s \in TapState
  BY ColumnStates
<1>2. s \in ToSet(c)
  BY ColumnStates
<1>3. d \in Column /\ s \in ToSet(d)
  BY <1>2
<1>4. d = c
  <2>1. PICK j \in 1..7 : s = d[j]
    BY <1>3, ColumnStates
  <2> HIDE DEF d
  <2> QED
    BY <1>3, <2>1, OncePerColumn
<1>5. q \in 1..6 /\ s = d[q]
  BY <1>4
<1>6. q = r
  <2> HIDE DEF q, d
  <2> QED
    BY <1>4, <1>5, OncePerColumn
<1>7. Edge[s][b] = d[IF b = 0 THEN Zero[q] ELSE One[q]]
  <2> DEFINE Inside == \E e \in Column, i \in 1..6 : s = e[i] /\ (b = 0 \/ i > 1)
             other == IF b = 0 THEN "IDLE"
                      ELSE CASE s = "SELECT_DR" -> "SELECT_IR"
                             [] s \in {"SELECT_IR", "RESET"} -> "RESET"
                             [] OTHER -> "SELECT_DR"
  <2>1. Inside
    OBVIOUS
  <2>2. Diagram(s, b) = IF Inside THEN d[IF b = 0 THEN Zero[q] ELSE One[q]] ELSE other
    <3> HIDE DEF Column
    <3> QED
      BY Zenon DEF Diagram
  <2>3. Edge[s][b] = Diagram(s, b)
    <3> HIDE DEF d, q, s
    <3> QED
      BY <1>1 DEF Edge
  <2> HIDE DEF Inside, other, d, q
  <2> QED
    BY <2>1, <2>2, <2>3
<1> HIDE DEF d, q
<1> QED
  BY <1>4, <1>6, <1>7 DEF Target

\* And so do a zero and a one lead from the states outside, and from Select and Update.
LEMMA Outside ==
  ASSUME NEW s \in TapState, NEW b \in {0, 1},
         \A c \in Column, i \in 1..6 : s = c[i] => b = 1 /\ i = 1
  PROVE  Target(s, b) = IF b = 0 THEN "IDLE"
                        ELSE IF s = "SELECT_DR" THEN "SELECT_IR"
                        ELSE IF s \in {"SELECT_IR", "RESET"} THEN "RESET"
                        ELSE "SELECT_DR"
<1>1. Target(s, b) = Diagram(s, b)
  BY DEF Target, Edge
<1>2. ~(\E c \in Column, r \in 1..6 : s = c[r] /\ (b = 0 \/ r > 1))
  OBVIOUS
<1>3. Diagram(s, b) = IF b = 0 THEN "IDLE"
                      ELSE CASE s = "SELECT_DR" -> "SELECT_IR"
                             [] s \in {"SELECT_IR", "RESET"} -> "RESET"
                             [] OTHER -> "SELECT_DR"
  <2> HIDE DEF Column
  <2> QED
    BY <1>2, Zenon DEF Diagram
<1> QED
  BY <1>1, <1>3

\* The diagram in full: zeros,
LEMMA OnZero ==
  /\ Target("RESET", 0) = "IDLE" /\ Target("IDLE", 0) = "IDLE"
  /\ Target("SELECT_DR", 0) = "CAPTURE_DR" /\ Target("SELECT_IR", 0) = "CAPTURE_IR"
  /\ Target("CAPTURE_DR", 0) = "SHIFT_DR" /\ Target("CAPTURE_IR", 0) = "SHIFT_IR"
  /\ Target("SHIFT_DR", 0) = "SHIFT_DR" /\ Target("SHIFT_IR", 0) = "SHIFT_IR"
  /\ Target("EXIT1_DR", 0) = "PAUSE_DR" /\ Target("EXIT1_IR", 0) = "PAUSE_IR"
  /\ Target("PAUSE_DR", 0) = "PAUSE_DR" /\ Target("PAUSE_IR", 0) = "PAUSE_IR"
  /\ Target("EXIT2_DR", 0) = "SHIFT_DR" /\ Target("EXIT2_IR", 0) = "SHIFT_IR"
  /\ Target("UPDATE_DR", 0) = "IDLE" /\ Target("UPDATE_IR", 0) = "IDLE"
<1>1. ASSUME NEW c \in Column, NEW r \in 1..6
      PROVE  Target(c[r], 0) = c[Zero[r]]
  BY Within
<1>2. ASSUME NEW c \in Column
      PROVE  /\ Target(c[1], 0) = c[2] /\ Target(c[2], 0) = c[3] /\ Target(c[3], 0) = c[3]
             /\ Target(c[4], 0) = c[5] /\ Target(c[5], 0) = c[5] /\ Target(c[6], 0) = c[3]
  BY <1>1 DEF Zero
<1>3. ASSUME NEW s \in {"RESET", "IDLE", "UPDATE_DR", "UPDATE_IR"} PROVE Target(s, 0) = "IDLE"
  <2>1. s \in TapState
    BY States
  <2>2. \A c \in Column, i \in 1..6 : s # c[i]
    BY DEF Column
  <2> QED
    BY <2>1, <2>2, Outside
<1> HIDE DEF Target
<1> QED
  BY <1>2, <1>3 DEF Column

\* and ones.
LEMMA OnOne ==
  /\ Target("RESET", 1) = "RESET" /\ Target("IDLE", 1) = "SELECT_DR"
  /\ Target("SELECT_DR", 1) = "SELECT_IR" /\ Target("SELECT_IR", 1) = "RESET"
  /\ Target("CAPTURE_DR", 1) = "EXIT1_DR" /\ Target("CAPTURE_IR", 1) = "EXIT1_IR"
  /\ Target("SHIFT_DR", 1) = "EXIT1_DR" /\ Target("SHIFT_IR", 1) = "EXIT1_IR"
  /\ Target("EXIT1_DR", 1) = "UPDATE_DR" /\ Target("EXIT1_IR", 1) = "UPDATE_IR"
  /\ Target("PAUSE_DR", 1) = "EXIT2_DR" /\ Target("PAUSE_IR", 1) = "EXIT2_IR"
  /\ Target("EXIT2_DR", 1) = "UPDATE_DR" /\ Target("EXIT2_IR", 1) = "UPDATE_IR"
  /\ Target("UPDATE_DR", 1) = "SELECT_DR" /\ Target("UPDATE_IR", 1) = "SELECT_DR"
<1>1. ASSUME NEW c \in Column, NEW r \in 2..6
      PROVE  Target(c[r], 1) = c[One[r]]
  BY Within
<1>2. ASSUME NEW c \in Column
      PROVE  /\ Target(c[2], 1) = c[4] /\ Target(c[3], 1) = c[4] /\ Target(c[4], 1) = c[7]
             /\ Target(c[5], 1) = c[6] /\ Target(c[6], 1) = c[7]
  BY <1>1 DEF One
<1>3. ASSUME NEW s \in {"RESET", "IDLE", "SELECT_DR", "SELECT_IR", "UPDATE_DR", "UPDATE_IR"}
      PROVE  Target(s, 1) = IF s = "SELECT_DR" THEN "SELECT_IR"
                            ELSE IF s \in {"SELECT_IR", "RESET"} THEN "RESET"
                            ELSE "SELECT_DR"
  <2>1. s \in TapState
    BY States
  <2>2. \A c \in Column, i \in 1..6 : s = c[i] => i = 1
    BY DEF Column
  <2> QED
    BY <2>1, <2>2, Outside
<1> HIDE DEF Target
<1> QED
  BY <1>2, <1>3 DEF Column

\* The DLL's table is the standard's.
LEMMA SameTable == ASSUME NEW s \in TapState, NEW b \in {0, 1}
                   PROVE  Follow(s, b) = Target(s, b) /\ Target(s, b) \in TapState
<1>1. CASE b = 0
  BY <1>1, OnZero, States DEF Follow, next_state
<1>2. CASE b = 1
  BY <1>2, OnOne, States DEF Follow, next_state
<1> QED
  BY <1>1, <1>2

----------------------------------------------------------------------------
(* Words *)

\* A TMS word.
Word == Seq({0, 1})

\* The states the bits of a word lead through.
Path(f, s, w) == /\ f \in [0..Len(w) -> TapState] /\ f[0] = s
                 /\ \A k \in 1..Len(w) : f[k] = Target(f[k - 1], w[k])

\* The bits of a word as functions on the states.
TargetStep(w) == [k \in 1..Len(w) |-> [x \in TapState |-> Target(x, w[k])]]

\* Such a path, as a function by recursion.
LEMMA PathRecursive ==
  ASSUME NEW w \in Word, NEW s \in TapState, NEW f
  PROVE  Recursive(f, Len(w), TapState, s, TargetStep(w)) <=> Path(f, s, w)
<1>1. Len(w) \in Nat
  BY DEF Word
<1>2. ASSUME f \in [0..Len(w) -> TapState], NEW k \in 1..Len(w)
      PROVE  TargetStep(w)[k][f[k - 1]] = Target(f[k - 1], w[k])
  <2>1. k - 1 \in 0..Len(w)
    BY <1>1
  <2>2. f[k - 1] \in TapState
    BY <1>2, <2>1
  <2> QED
    BY <2>2 DEF TargetStep
<1> HIDE DEF TargetStep
<1> QED
  BY <1>2 DEF Recursive, Path

\* Every bit of a word is a function on the states.
LEMMA TargetStepType == ASSUME NEW w \in Word
                        PROVE  TargetStep(w) \in [1..Len(w) -> [TapState -> TapState]]
<1>1. \A k \in 1..Len(w) : w[k] \in {0, 1}
  BY DEF Word
<1> QED
  BY <1>1, SameTable DEF TargetStep

\* Every word has its path from every state, and only one.
LEMMA PathExists == ASSUME NEW w \in Word, NEW s \in TapState
                    PROVE  \E f : Path(f, s, w)
<1>1. Len(w) \in Nat
  BY DEF Word
<1>2. PICK f : Recursive(f, Len(w), TapState, s, TargetStep(w))
  BY <1>1, TargetStepType, Recursion
<1> QED
  BY <1>2, PathRecursive

\* There is only one such path.
LEMMA PathUnique == ASSUME NEW w \in Word, NEW s, NEW f, NEW g, Path(f, s, w), Path(g, s, w)
                    PROVE  f[Len(w)] = g[Len(w)]
<1>1. PICK m \in Nat : m = Len(w)
  BY DEF Word
<1>2. f[0] = g[0]
  BY DEF Path
<1>3. \A k \in 1..m : f[k - 1] = g[k - 1] => f[k] = g[k]
  BY <1>1 DEF Path
<1>4. \A k \in 0..m : f[k] = g[k]
  BY <1>2, <1>3, FromStart
<1> QED
  BY <1>1, <1>4

\* A walk by the diagram is to the end of the path,
LEMMA TargetWalk == ASSUME NEW w \in Word, NEW s \in TapState, NEW f, Path(f, s, w)
                    PROVE  Walk(Target, s, w) = f[Len(w)]
<1> DEFINE at[k \in 0..Len(w)] == IF k = 0 THEN s ELSE Target(at[k - 1], w[k])
<1>1. Len(w) \in Nat
  BY DEF Word
<1>2. f = [k \in 0..Len(w) |-> IF k = 0 THEN s ELSE Target(f[k - 1], w[k])]
  BY <1>1 DEF Path
<1>3. at = [k \in 0..Len(w) |-> IF k = 0 THEN s ELSE Target(at[k - 1], w[k])]
  BY <1>2, Zenon
<1>4. Walk(Target, s, w) = at[Len(w)]
  BY DEF Walk
<1> HIDE DEF at
<1>5. at = [k \in 0..Len(w) |-> at[k]] /\ at[0] = s
  BY <1>1, <1>3
<1>6. ASSUME NEW k \in 1..Len(w), NEW x \in TapState, at[k - 1] = x
      PROVE  at[k] = TargetStep(w)[k][x]
  <2>1. k \in 0..Len(w) /\ k # 0
    BY <1>1
  <2>2. at[k] = Target(x, w[k])
    BY <1>3, <1>6, <2>1
  <2> QED
    BY <2>2 DEF TargetStep
<1>7. Recursive(at, Len(w), TapState, s, TargetStep(w))
  BY <1>1, <1>5, <1>6, TargetStepType, Computed
<1>8. Path(at, s, w)
  BY <1>7, PathRecursive
<1> QED
  BY <1>4, <1>8, PathUnique

\* and so is the tracker's, by the table of the DLL.
LEMMA TrackerWalk == ASSUME NEW w \in Word, NEW s \in TapState, NEW f, Path(f, s, w)
                     PROVE  tap_track_tms(s, w) = f[Len(w)]
<1> DEFINE at[k \in 0..Len(w)] == IF k = 0 THEN s ELSE Follow(at[k - 1], w[k])
<1>1. Len(w) \in Nat /\ \A k \in 1..Len(w) : w[k] \in {0, 1}
  BY DEF Word
<1>2. f = [k \in 0..Len(w) |-> IF k = 0 THEN s ELSE Follow(f[k - 1], w[k])]
  <2>1. ASSUME NEW k \in 0..Len(w)
        PROVE  f[k] = IF k = 0 THEN s ELSE Follow(f[k - 1], w[k])
    <3>1. CASE k = 0
      BY <3>1 DEF Path
    <3>2. CASE k # 0
      <4>1. k \in 1..Len(w) /\ k - 1 \in 0..Len(w)
        BY <1>1, <3>2
      <4>2. f[k - 1] \in TapState
        BY <4>1 DEF Path
      <4>3. f[k] = Follow(f[k - 1], w[k])
        BY <1>1, <4>1, <4>2, SameTable DEF Path
      <4> QED
        BY <3>2, <4>3
    <3> QED
      BY <3>1, <3>2
  <2>2. f = [k \in 0..Len(w) |-> f[k]]
    BY DEF Path
  <2> QED
    BY <2>1, <2>2, Zenon
<1>3. at = [k \in 0..Len(w) |-> IF k = 0 THEN s ELSE Follow(at[k - 1], w[k])]
  BY <1>2, Zenon
<1>4. tap_track_tms(s, w) = at[Len(w)]
  BY DEF Walk, tap_track_tms
<1> HIDE DEF at
<1>5. at = [k \in 0..Len(w) |-> at[k]] /\ at[0] = s
  BY <1>1, <1>3
<1>6. ASSUME NEW k \in 1..Len(w), NEW x \in TapState, at[k - 1] = x
      PROVE  at[k] = TargetStep(w)[k][x]
  <2>1. k \in 0..Len(w) /\ k # 0
    BY <1>1
  <2>2. at[k] = Follow(x, w[k])
    BY <1>3, <1>6, <2>1
  <2>3. at[k] = Target(x, w[k])
    BY <1>1, <2>2, SameTable
  <2> QED
    BY <2>3 DEF TargetStep
<1>7. Recursive(at, Len(w), TapState, s, TargetStep(w))
  BY <1>1, <1>5, <1>6, TargetStepType, Computed
<1>8. Path(at, s, w)
  BY <1>7, PathRecursive
<1> QED
  BY <1>4, <1>8, PathUnique

----------------------------------------------------------------------------
(* Clocks *)

\* Two zeros lead to where zeros stay,
LEMMA Zeroes == ASSUME NEW s \in TapState
                PROVE  Target(Target(Target(s, 0), 0), 0) = Target(Target(s, 0), 0)
  BY OnZero, States

\* five ones to Test-Logic-Reset,
LEMMA FiveOnes ==
  ASSUME NEW s \in TapState
  PROVE  Target(Target(Target(Target(Target(s, 1), 1), 1), 1), 1) = "RESET"
  BY OnOne, States

\* and a one never into a Shift state, which zeros do not leave.
LEMMA Shifts == ASSUME NEW s \in TapState
                PROVE  /\ Target(s, 1) \notin Shifting
                       /\ s \in Shifting => Target(s, 0) = s
  BY OnZero, OnOne, States DEF Shifting

\* What a command of the TAP leaves is a state of the pins.
LEMMA PulseType == ASSUME NEW p \in Probe
                   PROVE  /\ Pulse(p) \in Probe
                          /\ \A b \in {0, 1} : jtag_tap_set_tms(p, b) \in Probe
                          /\ \A b \in {0, 1} : handle_set_trst(p, b) \in Probe
<1>1. "RESET" \in TapState
  BY States
<1>2. p.tap \in TapState /\ p.tms \in {0, 1} /\ p.trst \in {0, 1}
  BY DEF Probe
<1>3. Target(p.tap, p.tms) \in TapState
  BY <1>2, SameTable
<1>4. Pulse(p) \in Probe
  BY <1>1, <1>3 DEF Pulse, Probe
<1>5. \A b \in {0, 1} : jtag_tap_set_tms(p, b) \in Probe
  BY DEF Probe, jtag_tap_set_tms
<1>6. \A b \in {0, 1} : handle_set_trst(p, b) \in Probe
  BY <1>1 DEF Probe, handle_set_trst
<1> QED
  BY <1>4, <1>5, <1>6

\* The first five pulses.
FivePulses(g, p) == /\ g \in [0..5 -> Probe] /\ g[0] = p
                    /\ \A k \in 1..5 : g[k] = Pulse(g[k - 1])

\* Pulses computes them: the last of the five stands for any more.
LEMMA PulsesAre ==
  ASSUME NEW p \in Probe
  PROVE  \E g : FivePulses(g, p) /\ \A n \in Nat : Pulses(p, n) = g[IF n > 5 THEN 5 ELSE n]
<1> DEFINE at[k \in 0..5] == IF k = 0 THEN p ELSE Pulse(at[k - 1])
           step == [k \in 1..5 |-> [x \in Probe |-> Pulse(x)]]
<1>1. step \in [1..5 -> [Probe -> Probe]]
  BY PulseType
<1>2. ASSUME NEW f
      PROVE  Recursive(f, 5, Probe, p, step) <=> FivePulses(f, p)
  <2>1. ASSUME f \in [0..5 -> Probe], NEW k \in 1..5 PROVE step[k][f[k - 1]] = Pulse(f[k - 1])
    <3>1. k - 1 \in 0..5
      OBVIOUS
    <3>2. f[k - 1] \in Probe
      BY <2>1, <3>1
    <3> QED
      BY <3>2
  <2> HIDE DEF step
  <2> QED
    BY <2>1 DEF Recursive, FivePulses
<1>3. PICK f : FivePulses(f, p)
  <2>1. \E f : Recursive(f, 5, Probe, p, step)
    <3> HIDE DEF step
    <3> QED
      BY <1>1, Recursion
  <2> QED
    BY <1>2, <2>1
<1>4. f = [k \in 0..5 |-> IF k = 0 THEN p ELSE Pulse(f[k - 1])]
  BY <1>3 DEF FivePulses
<1>5. at = [k \in 0..5 |-> IF k = 0 THEN p ELSE Pulse(at[k - 1])]
  BY <1>4, Zenon
<1>6. \A n \in Nat : Pulses(p, n) = at[IF n > 5 THEN 5 ELSE n]
  BY DEF Pulses
<1> HIDE DEF at
<1>7. at = [k \in 0..5 |-> at[k]] /\ at[0] = p
  BY <1>5
<1>8. \A k \in 1..5 : \A x \in Probe : at[k - 1] = x => at[k] = step[k][x]
  BY <1>5
<1> HIDE DEF step
<1>9. Recursive(at, 5, Probe, p, step)
  BY <1>1, <1>7, <1>8, Computed
<1> QED
  BY <1>2, <1>6, <1>9

\* However many they are, the pins stay a state of the pins.
LEMMA PulsesType == ASSUME NEW p \in Probe, NEW n \in Nat
                    PROVE  Pulses(p, n) \in Probe
<1>1. PICK g : FivePulses(g, p) /\ Pulses(p, n) = g[IF n > 5 THEN 5 ELSE n]
  BY PulsesAre
<1>2. (IF n > 5 THEN 5 ELSE n) \in 0..5
  OBVIOUS
<1> QED
  BY <1>1, <1>2 DEF FivePulses

\* A pulse leaves TMS and nTRST, and while nTRST is high the TAP goes its way.
LEMMA PulseHigh == ASSUME NEW p \in Probe, p.trst = 1
                   PROVE  /\ Pulse(p) = [tap |-> Target(p.tap, p.tms), tms |-> p.tms, trst |-> 1]
                          /\ \A b \in {0, 1} :
                               jtag_tap_set_tms(p, b) = [tap |-> p.tap, tms |-> b, trst |-> 1]
  BY DEF Pulse, Probe, jtag_tap_set_tms

\* After five bits of one kind it does not matter how many more there are.
AllEqual(f, n, b) == /\ \A k \in 0..n : f[k] \in TapState
                     /\ \A k \in 1..n : f[k] = Target(f[k - 1], b)

\* So that a run of equal bits ends where five of them do.
LEMMA LevelStays == ASSUME NEW n \in Nat, n > 5, NEW f, NEW b \in {0, 1}, AllEqual(f, n, b)
                    PROVE  f[n] = f[5]
<1>1. f[0] \in TapState /\ f[1] = Target(f[0], b) /\ f[2] = Target(f[1], b)
      /\ f[3] = Target(f[2], b) /\ f[4] = Target(f[3], b) /\ f[5] = Target(f[4], b)
  BY DEF AllEqual
<1>4. Target(f[5], b) = f[5]
  <2>1. CASE b = 0
    <3>1. Target(f[2], 0) = f[2]
      BY <1>1, <2>1, Zeroes
    <3> QED
      BY <1>1, <2>1, <3>1
  <2>2. CASE b = 1
    <3>1. f[5] = "RESET"
      BY <1>1, <2>2, FiveOnes
    <3> QED
      BY <2>2, <3>1, OnOne
  <2> QED
    BY <2>1, <2>2
<1>5. PICK i \in 0..n : i = 5
  OBVIOUS
<1>6. PICK v : f[i] = v
  OBVIOUS
<1>7. \A k \in 1..n : f[k - 1] = v => f[k] = v
  BY <1>4, <1>5, <1>6 DEF AllEqual
<1>8. f[n] = v
  BY <1>6, <1>7, Stays
<1> QED
  BY <1>5, <1>6, <1>8

\* Pulses lead along a path of bits of the level of TMS, five or more of them too.
LEMMA PulsesLevel ==
  ASSUME NEW w \in Word, NEW p \in Probe, p.trst = 1, NEW f, Path(f, p.tap, w),
         NEW n \in 0..Len(w), \A k \in 1..n : w[k] = p.tms
  PROVE  Pulses(p, n) = [tap |-> f[n], tms |-> p.tms, trst |-> 1]
<1>0. PICK m \in Nat : m = Len(w)
  BY DEF Word
<1>10. PICK b \in {0, 1} : b = p.tms
  BY DEF Probe
<1>1. PICK g : FivePulses(g, p) /\ \A i \in Nat : Pulses(p, i) = g[IF i > 5 THEN 5 ELSE i]
  BY PulsesAre
<1>2. n \in Nat /\ n <= m
  BY <1>0
<1> DEFINE At(k) == [tap |-> f[k], tms |-> b, trst |-> 1]
<1>3. f \in [0..m -> TapState] /\ f[0] = p.tap
      /\ \A k \in 1..n : f[k] = Target(f[k - 1], b)
  BY <1>0, <1>2, <1>10 DEF Path
<1>4. \A k \in 0..m : At(k) \in Probe
  BY <1>3, <1>10 DEF Probe
<1>5. ASSUME NEW k \in 1..5, k <= n, g[k - 1] = At(k - 1) PROVE g[k] = At(k)
  <2>1. k \in 1..n /\ k - 1 \in 0..m
    BY <1>2, <1>5
  <2>2. g[k] = Pulse(At(k - 1))
    BY <1>1, <1>5 DEF FivePulses
  <2>3. At(k - 1) \in Probe /\ At(k - 1).trst = 1 /\ At(k - 1).tap = f[k - 1] /\ At(k - 1).tms = b
    BY <1>4, <2>1
  <2>4. g[k] = [tap |-> Target(f[k - 1], b), tms |-> b, trst |-> 1]
    <3> HIDE DEF At
    <3> QED
      BY <2>2, <2>3, PulseHigh
  <2> QED
    BY <1>3, <2>1, <2>4
<1>6. g[0] = At(0)
  BY <1>1, <1>3, <1>10 DEF FivePulses, Probe
<1> HIDE DEF At
<1>7. /\ 1 <= n => g[1] = At(1)
      /\ 2 <= n => g[2] = At(2)
      /\ 3 <= n => g[3] = At(3)
      /\ 4 <= n => g[4] = At(4)
      /\ 5 <= n => g[5] = At(5)
  <2>1. 1 <= n => g[1] = At(1)
    BY <1>2, <1>5, <1>6
  <2>2. 2 <= n => g[2] = At(2)
    BY <1>2, <1>5, <2>1
  <2>3. 3 <= n => g[3] = At(3)
    BY <1>2, <1>5, <2>2
  <2>4. 4 <= n => g[4] = At(4)
    BY <1>2, <1>5, <2>3
  <2>5. 5 <= n => g[5] = At(5)
    BY <1>2, <1>5, <2>4
  <2> QED
    BY <2>1, <2>2, <2>3, <2>4, <2>5
<1>8. CASE n <= 5
  <2>1. n = 0 \/ n = 1 \/ n = 2 \/ n = 3 \/ n = 4 \/ n = 5
    BY <1>2, <1>8
  <2>2. Pulses(p, n) = g[n]
    BY <1>1, <1>2, <1>8
  <2>3. g[n] = At(n)
    BY <1>6, <1>7, <2>1
  <2> QED
    BY <1>10, <2>2, <2>3 DEF At
<1>9. CASE n > 5
  <2>6. f[n] = f[5]
    <3>1. AllEqual(f, n, b)
      BY <1>2, <1>3 DEF AllEqual
    <3> QED
      BY <1>2, <1>9, <3>1, LevelStays
  <2>7. Pulses(p, n) = g[5]
    BY <1>1, <1>2, <1>9
  <2> QED
    BY <1>2, <1>7, <1>9, <1>10, <2>6, <2>7 DEF At
<1> QED
  BY <1>2, <1>8, <1>9

----------------------------------------------------------------------------
(* Commands and scripts *)

\* What a word clocks the pins and the TAP through.
ClockPath(g, p, w) == /\ g \in [0..Len(w) -> Probe] /\ g[0] = p
                      /\ \A k \in 1..Len(w) : g[k] = Clock(g[k - 1], w[k])

\* A clock leaves a state of the pins.
LEMMA ClockType == ASSUME NEW p \in Probe, NEW b \in {0, 1}
                   PROVE  Clock(p, b) \in Probe
  BY PulseType DEF Clock

\* WRITE_TMS ends at the end of such a path.
LEMMA ClockWalk == ASSUME NEW p \in Probe, NEW w \in Word
                   PROVE  \E g : ClockPath(g, p, w) /\ handle_write_tms(p, w) = g[Len(w)]
<1> DEFINE at[k \in 0..Len(w)] == IF k = 0 THEN p ELSE Clock(at[k - 1], w[k])
           step == [k \in 1..Len(w) |-> [x \in Probe |-> Clock(x, w[k])]]
<1>1. Len(w) \in Nat /\ \A k \in 1..Len(w) : w[k] \in {0, 1}
  BY DEF Word
<1>2. step \in [1..Len(w) -> [Probe -> Probe]]
  BY <1>1, ClockType
<1>3. ASSUME NEW f
      PROVE  Recursive(f, Len(w), Probe, p, step) <=> ClockPath(f, p, w)
  <2>1. ASSUME f \in [0..Len(w) -> Probe], NEW k \in 1..Len(w)
        PROVE  step[k][f[k - 1]] = Clock(f[k - 1], w[k])
    <3>1. k - 1 \in 0..Len(w)
      BY <1>1
    <3>2. f[k - 1] \in Probe
      BY <2>1, <3>1
    <3> QED
      BY <3>2
  <2> HIDE DEF step
  <2> QED
    BY <2>1 DEF Recursive, ClockPath
<1>4. PICK f : ClockPath(f, p, w)
  <2>1. \E f : Recursive(f, Len(w), Probe, p, step)
    <3> HIDE DEF step
    <3> QED
      BY <1>1, <1>2, Recursion
  <2> QED
    BY <1>3, <2>1
<1>5. f = [k \in 0..Len(w) |-> IF k = 0 THEN p ELSE Clock(f[k - 1], w[k])]
  BY <1>1, <1>4 DEF ClockPath
<1>6. at = [k \in 0..Len(w) |-> IF k = 0 THEN p ELSE Clock(at[k - 1], w[k])]
  BY <1>5, Zenon
<1>7. handle_write_tms(p, w) = at[Len(w)]
  BY DEF handle_write_tms, Walk
<1> HIDE DEF at
<1>8. at = [k \in 0..Len(w) |-> at[k]] /\ at[0] = p
  BY <1>1, <1>6
<1>9. \A k \in 1..Len(w) : \A x \in Probe : at[k - 1] = x => at[k] = step[k][x]
  BY <1>1, <1>6
<1> HIDE DEF step
<1>10. Recursive(at, Len(w), Probe, p, step)
  BY <1>1, <1>2, <1>8, <1>9, Computed
<1> QED
  BY <1>3, <1>7, <1>10

\* And so does a word.
LEMMA WriteType == ASSUME NEW p \in Probe, NEW w \in Word
                   PROVE  handle_write_tms(p, w) \in Probe
<1>1. PICK g : ClockPath(g, p, w) /\ handle_write_tms(p, w) = g[Len(w)]
  BY ClockWalk
<1>2. Len(w) \in 0..Len(w)
  BY DEF Word
<1> QED
  BY <1>1, <1>2 DEF ClockPath

\* The commands of the scripts.
Command == {SET_TMS(b) : b \in {0, 1}} \union {WRITE_TMS(w) : w \in Word}
           \union {SHIFT_DATA(n, TRUE) : n \in Nat \ {0}} \union {SHIFT_DATA(n, FALSE) : n \in Nat \ {0}}

\* A shift is a command, whether it exits or not.
LEMMA ShiftCommand == ASSUME NEW n \in Nat \ {0}, NEW exit \in BOOLEAN
                      PROVE  SHIFT_DATA(n, exit) \in Command
<1>1. exit = TRUE \/ exit = FALSE
  OBVIOUS
<1>2. SHIFT_DATA(n, TRUE) \in Command
  BY Zenon DEF Command
<1>3. SHIFT_DATA(n, FALSE) \in Command
  BY Zenon DEF Command
<1> QED
  BY <1>1, <1>2, <1>3, Zenon

\* What each kind of command does.
LEMMA Executes ==
  ASSUME NEW p
  PROVE  /\ \A b : Execute(p, SET_TMS(b)) = jtag_tap_set_tms(p, b)
         /\ \A w : Execute(p, WRITE_TMS(w)) = handle_write_tms(p, w)
         /\ \A n, exit : Execute(p, SHIFT_DATA(n, exit)) = jtag_bb_write_read_exit(p, n, exit)
  BY DEF Execute, SET_TMS, WRITE_TMS, SHIFT_DATA

\* A shift leaves a state of the pins.
LEMMA ShiftType == ASSUME NEW p \in Probe, NEW n \in Nat \ {0}, NEW exit \in BOOLEAN
                   PROVE  jtag_bb_write_read_exit(p, n, exit) \in Probe
<1>1. n - 1 \in Nat
  OBVIOUS
<1>2. Pulses(p, n) \in Probe /\ Pulses(p, n - 1) \in Probe
  BY <1>1, PulsesType
<1>3. Pulse(jtag_tap_set_tms(Pulses(p, n - 1), 1)) \in Probe
  BY <1>2, PulseType
<1> QED
  BY <1>2, <1>3 DEF jtag_bb_write_read_exit

\* And so does every command.
LEMMA ExecuteType == ASSUME NEW p \in Probe, NEW c \in Command
                     PROVE  Execute(p, c) \in Probe
<1>1. CASE \E b \in {0, 1} : c = SET_TMS(b)
  BY <1>1, Executes, PulseType
<1>2. CASE \E w \in Word : c = WRITE_TMS(w)
  BY <1>2, Executes, WriteType
<1>3. ASSUME NEW n \in Nat \ {0}, NEW exit \in BOOLEAN, c = SHIFT_DATA(n, exit)
      PROVE  Execute(p, c) \in Probe
  <2>1. Execute(p, c) = jtag_bb_write_read_exit(p, n, exit)
    BY <1>3, Executes, Zenon
  <2> QED
    BY <2>1, ShiftType, Zenon
<1>4. CASE c \in {SHIFT_DATA(n, TRUE) : n \in Nat \ {0}}
  BY <1>3, <1>4, Zenon
<1>5. CASE c \in {SHIFT_DATA(n, FALSE) : n \in Nat \ {0}}
  BY <1>3, <1>5, Zenon
<1> QED
  BY <1>1, <1>2, <1>4, <1>5, Zenon DEF Command

\* What the commands of a script lead through.
ScriptPath(g, p, s) == /\ g \in [0..Len(s) -> Probe] /\ g[0] = p
                       /\ \A k \in 1..Len(s) : g[k] = Execute(g[k - 1], s[k])

\* After is the end of such a path.
LEMMA ScriptWalk == ASSUME NEW p \in Probe, NEW s \in Seq(Command)
                    PROVE  \E g : ScriptPath(g, p, s) /\ After(p, s) = g[Len(s)]
<1> DEFINE at[k \in 0..Len(s)] == IF k = 0 THEN p ELSE Execute(at[k - 1], s[k])
           step == [k \in 1..Len(s) |-> [x \in Probe |-> Execute(x, s[k])]]
<1>1. Len(s) \in Nat /\ \A k \in 1..Len(s) : s[k] \in Command
  OBVIOUS
<1>2. step \in [1..Len(s) -> [Probe -> Probe]]
  BY <1>1, ExecuteType
<1>3. ASSUME NEW f
      PROVE  Recursive(f, Len(s), Probe, p, step) <=> ScriptPath(f, p, s)
  <2>1. ASSUME f \in [0..Len(s) -> Probe], NEW k \in 1..Len(s)
        PROVE  step[k][f[k - 1]] = Execute(f[k - 1], s[k])
    <3>1. k - 1 \in 0..Len(s)
      BY <1>1
    <3>2. f[k - 1] \in Probe
      BY <2>1, <3>1
    <3> QED
      BY <3>2
  <2> HIDE DEF step
  <2> QED
    BY <2>1 DEF Recursive, ScriptPath
<1>4. PICK f : ScriptPath(f, p, s)
  <2>1. \E f : Recursive(f, Len(s), Probe, p, step)
    <3> HIDE DEF step
    <3> QED
      BY <1>1, <1>2, Recursion
  <2> QED
    BY <1>3, <2>1
<1>5. f = [k \in 0..Len(s) |-> IF k = 0 THEN p ELSE Execute(f[k - 1], s[k])]
  BY <1>1, <1>4 DEF ScriptPath
<1>6. at = [k \in 0..Len(s) |-> IF k = 0 THEN p ELSE Execute(at[k - 1], s[k])]
  BY <1>5, Zenon
<1>7. After(p, s) = at[Len(s)]
  BY DEF After, Walk
<1> HIDE DEF at
<1>8. at = [k \in 0..Len(s) |-> at[k]] /\ at[0] = p
  BY <1>1, <1>6
<1>9. \A k \in 1..Len(s) : \A x \in Probe : at[k - 1] = x => at[k] = step[k][x]
  BY <1>1, <1>6
<1> HIDE DEF step
<1>10. Recursive(at, Len(s), Probe, p, step)
  BY <1>1, <1>2, <1>8, <1>9, Computed
<1> QED
  BY <1>3, <1>7, <1>10

\* A script leaves a state of the pins.
LEMMA AfterType == ASSUME NEW p \in Probe, NEW s \in Seq(Command)
                   PROVE  After(p, s) \in Probe
<1>1. PICK g : ScriptPath(g, p, s) /\ After(p, s) = g[Len(s)]
  BY ScriptWalk
<1>2. Len(s) \in 0..Len(s)
  OBVIOUS
<1> QED
  BY <1>1, <1>2 DEF ScriptPath

----------------------------------------------------------------------------
(* A sequence of pairs, flattened *)

\* s is a[1], z, a[2], z, ... a[n], z.
Pairs(s, C, a, z, n) == /\ s \in Seq(C) /\ Len(s) = 2 * n
                        /\ \A i \in 1..n : s[2 * i - 1] = a[i] /\ s[2 * i] = z

\* One more pair at the end of such a sequence.
LEMMA OneMorePair ==
  ASSUME NEW n \in Nat, NEW C, NEW a, NEW x \in C, NEW z \in C, NEW s,
         Pairs(s, C, a, z, n), a[n + 1] = x
  PROVE  Pairs(s \o <<x, z>>, C, a, z, n + 1)
<1> DEFINE pair == <<x, z>>
           t == s \o pair
<1>1. pair \in Seq(C) /\ Len(pair) = 2 /\ pair[1] = x /\ pair[2] = z
  OBVIOUS
<1>2. s \in Seq(C) /\ Len(s) = 2 * n
  BY DEF Pairs
<1> HIDE DEF pair
<1>3. /\ t \in Seq(C) /\ Len(t) = Len(s) + Len(pair)
      /\ \A i \in 1..(Len(s) + Len(pair)) :
           t[i] = IF i <= Len(s) THEN s[i] ELSE pair[i - Len(s)]
  BY <1>1, <1>2, ConcatProperties
<1>4. Len(t) = 2 * (n + 1)
  <2> HIDE DEF t
  <2> QED
    BY <1>1, <1>2, <1>3
<1>5. \A k \in 1..(2 * n) : t[k] = s[k]
  <2> HIDE DEF t
  <2> QED
    BY <1>1, <1>2, <1>3
<1>6. t[2 * n + 1] = x
  <2>1. 2 * n + 1 \in 1..(2 * n + 2) /\ ~(2 * n + 1 <= 2 * n) /\ (2 * n + 1) - 2 * n = 1
    OBVIOUS
  <2> HIDE DEF t
  <2> QED
    BY <1>1, <1>2, <1>3, <2>1
<1>7. t[2 * n + 2] = z
  <2>1. 2 * n + 2 \in 1..(2 * n + 2) /\ ~(2 * n + 2 <= 2 * n) /\ (2 * n + 2) - 2 * n = 2
    OBVIOUS
  <2> HIDE DEF t
  <2> QED
    BY <1>1, <1>2, <1>3, <2>1
<1> HIDE DEF t
<1>8. ASSUME NEW i \in 1..(n + 1)
      PROVE  t[2 * i - 1] = a[i] /\ t[2 * i] = z
  <2>1. CASE i = n + 1
    <3>1. 2 * i - 1 = 2 * n + 1 /\ 2 * i = 2 * n + 2
      BY <2>1
    <3> QED
      BY <1>6, <1>7, <2>1, <3>1
  <2>2. CASE i # n + 1
    <3>1. i \in 1..n /\ 2 * i - 1 \in 1..(2 * n) /\ 2 * i \in 1..(2 * n)
      BY <2>2
    <3>2. s[2 * i - 1] = a[i] /\ s[2 * i] = z
      BY <3>1 DEF Pairs
    <3> QED
      BY <1>5, <3>1, <3>2
  <2> QED
    BY <2>1, <2>2
<1>9. Pairs(t, C, a, z, n + 1)
  BY <1>3, <1>4, <1>8 DEF Pairs
<1> QED
  BY <1>9 DEF t, pair

\* FlattenSeq makes such a sequence of a sequence of pairs.
LEMMA FlattenedPairs ==
  ASSUME NEW n \in Nat, NEW C, NEW a, \A i \in 1..n : a[i] \in C, NEW z \in C,
         NEW seqs, seqs = [i \in 1..n |-> <<a[i], z>>]
  PROVE  Pairs(FlattenSeq(seqs), C, a, z, n)
<1>1. Len(seqs) = n
  OBVIOUS
<1>2. CASE n = 0
  <2>1. FlattenSeq(seqs) = seqs
    BY <1>1, <1>2, Zenon DEF FlattenSeq
  <2>2. seqs = << >>
    BY <1>2
  <2>3. Pairs(<< >>, C, a, z, 0)
    BY DEF Pairs
  <2> QED
    BY <1>2, <2>1, <2>2, <2>3
<1>3. CASE n > 0
  <2> DEFINE flatten[i \in 1..Len(seqs)] == IF i = 1 THEN seqs[i] ELSE flatten[i - 1] \o seqs[i]
             step == [k \in 1..(n - 1) |-> [x \in Seq(C) |-> x \o seqs[k + 1]]]
  <2>1. FlattenSeq(seqs) = flatten[n]
    <3>1. Len(seqs) # 0
      BY <1>1, <1>3
    <3>2. FlattenSeq(seqs) = flatten[Len(seqs)]
      BY <3>1, Zenon DEF FlattenSeq
    <3> QED
      BY <1>1, <3>2, Zenon
  <2>2. \A i \in 1..n : seqs[i] = <<a[i], z>> /\ seqs[i] \in Seq(C)
    <3> TAKE i \in 1..n
    <3>1. seqs[i] = <<a[i], z>>
      OBVIOUS
    <3> QED
      BY <3>1
  <2>3. step \in [1..(n - 1) -> [Seq(C) -> Seq(C)]]
    <3>1. \A k \in 1..(n - 1) : seqs[k + 1] \in Seq(C)
      BY <2>2
    <3> QED
      BY <3>1
  <2>4. n - 1 \in Nat /\ seqs[1] \in Seq(C)
    BY <1>3, <2>2
  <2>5. PICK g : Recursive(g, n - 1, Seq(C), seqs[1], step)
    <3> HIDE DEF step
    <3> QED
      BY <2>3, <2>4, Recursion
  <2> DEFINE f == [i \in 1..n |-> g[i - 1]]
  <2>6. ASSUME NEW i \in 1..n
        PROVE  f[i] = IF i = 1 THEN seqs[i] ELSE f[i - 1] \o seqs[i]
    <3>1. CASE i = 1
      <4>1. f[i] = g[0]
        BY <3>1
      <4>2. g[0] = seqs[1]
        BY <2>5 DEF Recursive
      <4> HIDE DEF f
      <4> QED
        BY <3>1, <4>1, <4>2
    <3>2. CASE i # 1
      <4>1. i - 1 \in 1..(n - 1) /\ i - 1 \in 1..n /\ (i - 1) - 1 \in 0..(n - 1)
            /\ (i - 1) + 1 = i
        BY <3>2
      <4>2. g[(i - 1) - 1] \in Seq(C) /\ g[i - 1] = step[i - 1][g[(i - 1) - 1]]
        <5> HIDE DEF step
        <5> QED
          BY <2>5, <4>1 DEF Recursive
      <4>3. g[i - 1] = g[(i - 1) - 1] \o seqs[i]
        BY <4>1, <4>2
      <4>4. f[i] = g[i - 1] /\ f[i - 1] = g[(i - 1) - 1]
        BY <4>1
      <4> HIDE DEF f
      <4> QED
        BY <3>2, <4>3, <4>4
    <3> QED
      BY <3>1, <3>2
  <2>7. flatten = [i \in 1..Len(seqs) |-> IF i = 1 THEN seqs[i] ELSE flatten[i - 1] \o seqs[i]]
    <3>1. f = [i \in 1..Len(seqs) |-> IF i = 1 THEN seqs[i] ELSE f[i - 1] \o seqs[i]]
      <4>1. f = [i \in 1..n |-> f[i]]
        OBVIOUS
      <4> HIDE DEF f
      <4> QED
        BY <1>1, <2>6, <4>1
    <3>2. \E h : h = [i \in 1..Len(seqs) |-> IF i = 1 THEN seqs[i] ELSE h[i - 1] \o seqs[i]]
      BY <3>1
    <3> QED
      BY <3>2, Zenon
  <2> HIDE DEF flatten
  <2> DEFINE G == {k \in 0..(n - 1) : Pairs(flatten[k + 1], C, a, z, k + 1)}
  <2>8. 0 \in G
    <3>1. PICK k \in Nat : k = 0
      OBVIOUS
    <3>2. flatten[k + 1] = << >> \o <<a[k + 1], z>>
      <4>1. flatten[1] = seqs[1]
        BY <1>1, <1>3, <2>7
      <4>2. seqs[1] = <<a[1], z>>
        BY <1>3, <2>2
      <4> QED
        BY <3>1, <4>1, <4>2
    <3>3. Pairs(<< >>, C, a, z, k)
      BY <3>1 DEF Pairs
    <3>4. a[k + 1] \in C
      BY <1>3, <3>1
    <3>5. Pairs(flatten[k + 1], C, a, z, k + 1)
      BY <3>2, <3>3, <3>4, OneMorePair
    <3> QED
      BY <1>3, <3>1, <3>5
  <2>9. ASSUME NEW k \in 0..((n - 1) - 1), k \in G PROVE k + 1 \in G
    <3>1. PICK j \in Nat : j = k + 1
      OBVIOUS
    <3>2. j + 1 \in 1..n /\ j + 1 # 1 /\ (j + 1) - 1 = j /\ j \in 0..(n - 1)
      BY <3>1
    <3>3. seqs[j + 1] = <<a[j + 1], z>> /\ a[j + 1] \in C
      BY <2>2, <3>2
    <3>4. flatten[j + 1] = flatten[j] \o <<a[j + 1], z>>
      BY <1>1, <2>7, <3>2, <3>3
    <3>5. Pairs(flatten[j], C, a, z, j)
      BY <2>9, <3>1
    <3>6. Pairs(flatten[j + 1], C, a, z, j + 1)
      BY <3>3, <3>4, <3>5, OneMorePair
    <3> QED
      BY <3>1, <3>2, <3>6
  <2>10. 0..(n - 1) \subseteq G
    <3> HIDE DEF G
    <3> QED
      BY <2>4, <2>8, <2>9, UpTo
  <2>11. n - 1 \in G /\ (n - 1) + 1 = n
    BY <2>4, <2>10
  <2>12. Pairs(flatten[n], C, a, z, n)
    BY <2>11
  <2> QED
    BY <2>1, <2>12
<1> QED
  BY <1>2, <1>3

----------------------------------------------------------------------------
(* The raw calls *)

\* The fixed scripts.
LEMMA AfterNone == ASSUME NEW p \in Probe PROVE After(p, << >>) = p
<1>1. << >> \in Seq(Command) /\ Len(<< >>) = 0
  OBVIOUS
<1>2. PICK g : ScriptPath(g, p, << >>) /\ After(p, << >>) = g[Len(<< >>)]
  BY <1>1, ScriptWalk
<1> QED
  BY <1>1, <1>2 DEF ScriptPath

\* The script of one command.
LEMMA AfterOne == ASSUME NEW p \in Probe, NEW c \in Command
                  PROVE  After(p, <<c>>) = Execute(p, c)
<1>1. <<c>> \in Seq(Command) /\ Len(<<c>>) = 1 /\ <<c>>[1] = c
  OBVIOUS
<1>2. PICK g : ScriptPath(g, p, <<c>>) /\ After(p, <<c>>) = g[Len(<<c>>)]
  BY <1>1, ScriptWalk
<1>3. g[0] = p /\ g[1] = Execute(g[0], c)
  BY <1>1, <1>2 DEF ScriptPath
<1> QED
  BY <1>1, <1>2, <1>3

\* A single clock.
OneBit == SHIFT_DATA(1, FALSE)

\* It is one pulse.
LEMMA OneBitIs == /\ OneBit \in Command
                  /\ \A p \in Probe : Execute(p, OneBit) = Pulse(p)
<1>1. OneBit \in Command
  <2>1. 1 \in Nat \ {0} /\ FALSE \in BOOLEAN
    OBVIOUS
  <2> QED
    BY <2>1, ShiftCommand, Zenon DEF OneBit
<1>2. ASSUME NEW p \in Probe PROVE Execute(p, OneBit) = Pulse(p)
  <2>1. Execute(p, OneBit) = Pulses(p, 1)
    <3>1. Execute(p, OneBit) = jtag_bb_write_read_exit(p, 1, FALSE)
      BY Executes, Zenon DEF OneBit
    <3> QED
      BY <3>1, Zenon DEF jtag_bb_write_read_exit
  <2>2. PICK g : FivePulses(g, p) /\ \A n \in Nat : Pulses(p, n) = g[IF n > 5 THEN 5 ELSE n]
    BY PulsesAre
  <2>3. Pulses(p, 1) = g[1]
    BY <2>2
  <2> QED
    BY <2>1, <2>2, <2>3 DEF FivePulses
<1> QED
  BY <1>1, <1>2

\* What a call does that is one command, or none: nothing or the command.
LEMMA OneCommand ==
  ASSUME NEW p \in Probe, NEW c \in Command, NEW o \in UntilFailure(p, <<c>>)
  PROVE  /\ o.ok \in BOOLEAN
         /\ o.p = p \/ o.p = Execute(p, c)
         /\ o.ok => o.p = Execute(p, c)
<1>1. After(p, <<c>>) = Execute(p, c)
  BY AfterOne
<1>2. CASE o = [p |-> After(p, <<c>>), ok |-> TRUE]
  BY <1>1, <1>2
<1>3. ASSUME NEW k \in 0..Len(<<c>>), o = [p |-> After(p, SubSeq(<<c>>, 1, k)), ok |-> FALSE]
      PROVE  o.ok = FALSE /\ (o.p = p \/ o.p = Execute(p, c))
  <2>1. k = 0 \/ k = 1
    OBVIOUS
  <2>2. CASE k = 0
    <3>1. SubSeq(<<c>>, 1, k) = << >>
      BY <2>2
    <3> QED
      BY <1>3, <3>1, AfterNone
  <2>3. CASE k = 1
    <3>1. <<c>> \in Seq(Command) /\ Len(<<c>>) = 1
      OBVIOUS
    <3>2. SubSeq(<<c>>, 1, 1) = <<c>>
      BY <3>1, SubSeqFull
    <3> QED
      BY <1>1, <1>3, <2>3, <3>2
  <2> QED
    BY <2>1, <2>2, <2>3
<1>4. \/ o = [p |-> After(p, <<c>>), ok |-> TRUE]
      \/ \E k \in 0..Len(<<c>>) : o = [p |-> After(p, SubSeq(<<c>>, 1, k)), ok |-> FALSE]
  BY Zenon DEF UntilFailure
<1> QED
  BY <1>2, <1>3, <1>4

\* A call that stops at the first failure: if it sees none, it did all its commands.
LEMMA UntilFailureType ==
  ASSUME NEW p \in Probe, NEW s \in Seq(Command), NEW o \in UntilFailure(p, s)
  PROVE  /\ o.p \in Probe /\ o.ok \in BOOLEAN
         /\ o.ok => o.p = After(p, s)
<1>1. CASE o = [p |-> After(p, s), ok |-> TRUE]
  BY <1>1, AfterType
<1>2. ASSUME NEW k \in 0..Len(s), o = [p |-> After(p, SubSeq(s, 1, k)), ok |-> FALSE]
      PROVE  o.ok = FALSE /\ o.p \in Probe
  <2>1. SubSeq(s, 1, k) \in Seq(Command)
    BY SubSeqProperties
  <2>2. After(p, SubSeq(s, 1, k)) \in Probe
    BY <2>1, AfterType
  <2> QED
    BY <1>2, <2>2
<1>3. \/ o = [p |-> After(p, s), ok |-> TRUE]
      \/ \E k \in 0..Len(s) : o = [p |-> After(p, SubSeq(s, 1, k)), ok |-> FALSE]
  BY Zenon DEF UntilFailure
<1> QED
  BY <1>1, <1>2, <1>3

\* A shift: refused, done, or not.
LEMMA ShiftOutcome ==
  ASSUME NEW p \in Probe, NEW n \in Nat, NEW exit \in BOOLEAN, NEW o \in jtag_shift_data(p, n, exit)
  PROVE  /\ o.ok \in BOOLEAN
         /\ o.p = p \/ (n # 0 /\ o.p = jtag_bb_write_read_exit(p, n, exit))
         /\ o.ok => o.p = IF n = 0 THEN p ELSE jtag_bb_write_read_exit(p, n, exit)
<1>1. CASE n = 0
  <2>1. o \in {[p |-> p, ok |-> TRUE]}
    BY <1>1, Zenon DEF jtag_shift_data
  <2>2. o.p = p /\ o.ok = TRUE
    BY <2>1
  <2> QED
    BY <1>1, <2>2, Zenon
<1>2. CASE n # 0
  <2>1. \/ o = [p |-> p, ok |-> FALSE]
        \/ o \in UntilFailure(p, <<SHIFT_DATA(n, exit)>>)
    BY <1>2, Zenon DEF jtag_shift_data
  <2>2. PICK c \in Command : c = SHIFT_DATA(n, exit)
    BY <1>2, ShiftCommand, Zenon
  <2>3. Execute(p, c) = jtag_bb_write_read_exit(p, n, exit)
    BY <2>2, Executes, Zenon
  <2>4. CASE o = [p |-> p, ok |-> FALSE]
    BY <1>2, <2>4
  <2>5. CASE o \in UntilFailure(p, <<c>>)
    <3>1. o.ok \in BOOLEAN /\ (o.p = p \/ o.p = Execute(p, c)) /\ (o.ok => o.p = Execute(p, c))
      BY <2>5, OneCommand
    <3> QED
      BY <1>2, <2>3, <3>1, Zenon
  <2> QED
    BY <2>1, <2>2, <2>4, <2>5, Zenon
<1> QED
  BY <1>1, <1>2

\* The two ways in which the bits of a word reach the TAP by one SHIFT_DATA.
LEMMA Classes ==
  ASSUME NEW w \in Word
  PROVE  /\ classify_tms(w) \in {"ALL_ZERO", "NAV_ONLY", "MIXED"}
         /\ classify_tms(w) = "ALL_ZERO" <=> \A i \in 1..Len(w) : w[i] = 0
         /\ classify_tms(w) = "NAV_ONLY" => /\ Len(w) \in Nat \ {0} /\ w[Len(w)] = 1
                                            /\ \A i \in 1..(Len(w) - 1) : w[i] = 0
<1>1. PICK n \in Nat : n = Len(w)
  BY DEF Word
<1>2. \A i \in 1..n : w[i] \in {0, 1}
  BY <1>1 DEF Word
<1>3. CASE \A i \in 1..Len(w) : w[i] = 0
  BY <1>3 DEF classify_tms
<1>4. CASE /\ ~(\A i \in 1..Len(w) : w[i] = 0)
           /\ \A i \in 1..Len(w) : (w[i] = 1) <=> (i = Len(w))
  <2>1. classify_tms(w) = "NAV_ONLY"
    BY <1>4 DEF classify_tms
  <2>2. n \in 1..n
    BY <1>1, <1>4
  <2>3. w[n] = 1
    BY <1>1, <1>4, <2>2
  <2>4. \A i \in 1..(n - 1) : w[i] = 0
    <3> TAKE i \in 1..(n - 1)
    <3>1. i \in 1..n /\ i # n
      OBVIOUS
    <3> QED
      BY <1>1, <1>2, <1>4, <3>1
  <2> QED
    BY <1>1, <1>4, <2>1, <2>2, <2>3, <2>4
<1>5. CASE /\ ~(\A i \in 1..Len(w) : w[i] = 0)
           /\ ~(\A i \in 1..Len(w) : (w[i] = 1) <=> (i = Len(w)))
  <2>1. classify_tms(w) = "MIXED"
    BY <1>5 DEF classify_tms
  <2> QED
    BY <1>5, <2>1
<1> QED
  BY <1>3, <1>4, <1>5

\* What a call that succeeds makes of the pins and the TAP.
Arrived(q, p, f, w) == q = IF Len(w) = 0 THEN p
                           ELSE [tap |-> f[Len(w)], tms |-> w[Len(w)], trst |-> 1]

\* Bits of the level of TMS, by a shift that leaves it there,
LEMMA LevelArrives ==
  ASSUME NEW w \in Word, NEW p \in Probe, p.trst = 1, NEW f, Path(f, p.tap, w),
         \A i \in 1..Len(w) : w[i] = p.tms,
         NEW o \in jtag_shift_data(p, Len(w), FALSE), o.ok
  PROVE  Arrived(o.p, p, f, w)
<1>1. PICK n \in Nat : n = Len(w)
  BY DEF Word
<1>2. o.p = IF n = 0 THEN p ELSE jtag_bb_write_read_exit(p, n, FALSE)
  <2>1. o \in jtag_shift_data(p, n, FALSE) /\ FALSE \in BOOLEAN
    BY <1>1
  <2>2. o.ok => o.p = IF n = 0 THEN p ELSE jtag_bb_write_read_exit(p, n, FALSE)
    BY <2>1, ShiftOutcome, Zenon
  <2> QED
    BY <2>2
<1>3. jtag_bb_write_read_exit(p, n, FALSE) = Pulses(p, n)
  BY Zenon DEF jtag_bb_write_read_exit
<1>4. Pulses(p, n) = [tap |-> f[n], tms |-> p.tms, trst |-> 1]
  <2>1. n \in 0..Len(w) /\ \A k \in 1..n : w[k] = p.tms
    BY <1>1
  <2> QED
    BY <2>1, PulsesLevel
<1>5. n # 0 => w[n] = p.tms
  <2>1. n # 0 => n \in 1..n
    OBVIOUS
  <2> QED
    BY <1>1, <2>1
<1> QED
  BY <1>1, <1>2, <1>3, <1>4, <1>5 DEF Arrived

\* such bits and a one, by a shift that raises it for the last bit,
LEMMA ExitArrives ==
  ASSUME NEW w \in Word, NEW p \in Probe, p.trst = 1, NEW f, Path(f, p.tap, w),
         Len(w) \in Nat \ {0}, w[Len(w)] = 1, \A i \in 1..(Len(w) - 1) : w[i] = p.tms,
         NEW o \in jtag_shift_data(p, Len(w), TRUE), o.ok
  PROVE  Arrived(o.p, p, f, w)
<1>1. PICK n \in Nat : n = Len(w) /\ n # 0
  OBVIOUS
<1> DEFINE q == Pulses(p, n - 1)
<1>2. o.p = jtag_bb_write_read_exit(p, n, TRUE)
  BY <1>1, ShiftOutcome
<1>3. jtag_bb_write_read_exit(p, n, TRUE) = Pulse(jtag_tap_set_tms(q, 1))
  BY Zenon DEF jtag_bb_write_read_exit
<1>4. q \in Probe /\ q.tap = f[n - 1] /\ q.trst = 1
  <2>1. n - 1 \in 0..Len(w) /\ n - 1 \in Nat /\ \A k \in 1..(n - 1) : w[k] = p.tms
    BY <1>1
  <2>2. q = [tap |-> f[n - 1], tms |-> p.tms, trst |-> 1]
    BY <2>1, PulsesLevel
  <2>3. q \in Probe
    BY <2>1, PulsesType
  <2> QED
    BY <2>2, <2>3
<1> HIDE DEF q
<1>5. jtag_tap_set_tms(q, 1) = [tap |-> q.tap, tms |-> 1, trst |-> 1]
  BY <1>4, PulseHigh
<1> DEFINE r == [tap |-> q.tap, tms |-> 1, trst |-> 1]
<1>6. r \in Probe /\ r.trst = 1 /\ r.tap = q.tap /\ r.tms = 1
  BY <1>4 DEF Probe
<1> HIDE DEF r
<1>7. Pulse(r) = [tap |-> Target(q.tap, 1), tms |-> 1, trst |-> 1]
  BY <1>6, PulseHigh
<1>8. f[n] = Target(f[n - 1], 1)
  <2>1. n \in 1..Len(w)
    BY <1>1
  <2> QED
    BY <1>1, <2>1 DEF Path
<1>9. o.p = [tap |-> f[n], tms |-> 1, trst |-> 1]
  BY <1>2, <1>3, <1>4, <1>5, <1>7, <1>8 DEF r
<1> QED
  BY <1>1, <1>9 DEF Arrived

\* and any bits, by a clock each.
LEMMA BitScriptIs ==
  ASSUME NEW w \in Word
  PROVE  \E s \in Seq(Command) :
           /\ \A p : jtag_store_raw_bitbang(p, w) = UntilFailure(p, s)
           /\ Len(s) = 2 * Len(w)
           /\ \A i \in 1..Len(w) : s[2 * i - 1] = SET_TMS(w[i]) /\ s[2 * i] = OneBit
<1>1. PICK n \in Nat : n = Len(w)
  BY DEF Word
<1> DEFINE a == [i \in 1..n |-> SET_TMS(w[i])]
           seqs == [i \in 1..Len(w) |-> <<SET_TMS(w[i]), OneBit>>]
           s == FlattenSeq(seqs)
<1>2. \A p : jtag_store_raw_bitbang(p, w) = UntilFailure(p, s)
  BY Zenon DEF jtag_store_raw_bitbang, OneBit
<1>3. \A i \in 1..n : a[i] \in Command
  <2> TAKE i \in 1..n
  <2>1. w[i] \in {0, 1}
    BY <1>1 DEF Word
  <2> QED
    BY <2>1 DEF Command
<1>4. seqs = [i \in 1..n |-> <<a[i], OneBit>>]
  BY <1>1
<1>5. \A i \in 1..n : a[i] = SET_TMS(w[i])
  OBVIOUS
<1> HIDE DEF a, seqs
<1>6. Pairs(s, Command, a, OneBit, n)
  BY <1>3, <1>4, OneBitIs, FlattenedPairs
<1> HIDE DEF s
<1>7. /\ s \in Seq(Command) /\ Len(s) = 2 * n
      /\ \A i \in 1..n : s[2 * i - 1] = SET_TMS(w[i]) /\ s[2 * i] = OneBit
  BY <1>5, <1>6 DEF Pairs
<1> QED
  BY <1>1, <1>2, <1>7

\* A word clocked bit by bit takes the TAP where the word leads.
LEMMA BitsArrive ==
  ASSUME NEW w \in Word, NEW p \in Probe, p.trst = 1, NEW f, Path(f, p.tap, w),
         NEW o \in jtag_store_raw_bitbang(p, w), o.ok
  PROVE  Arrived(o.p, p, f, w)
<1>1. PICK n \in Nat : n = Len(w)
  BY DEF Word
<1>2. PICK s \in Seq(Command) :
         /\ jtag_store_raw_bitbang(p, w) = UntilFailure(p, s)
         /\ Len(s) = 2 * n
         /\ \A i \in 1..n : s[2 * i - 1] = SET_TMS(w[i]) /\ s[2 * i] = OneBit
  BY <1>1, BitScriptIs
<1>3. o.p = After(p, s)
  BY <1>2, UntilFailureType
<1>4. PICK g : ScriptPath(g, p, s) /\ After(p, s) = g[Len(s)]
  BY ScriptWalk
<1>5. /\ g \in [0..(2 * n) -> Probe] /\ g[0] = p
      /\ \A k \in 1..(2 * n) : g[k] = Execute(g[k - 1], s[k])
  BY <1>2, <1>4 DEF ScriptPath
<1> DEFINE G == {k \in 0..n : g[2 * k] = IF k = 0 THEN p
                                         ELSE [tap |-> f[k], tms |-> w[k], trst |-> 1]}
<1>6. 0 \in G
  BY <1>5
<1>7. ASSUME NEW k \in 0..(n - 1), k \in G PROVE k + 1 \in G
  <2>1. PICK i \in 1..n : i = k + 1
    OBVIOUS
  <2>2. /\ 2 * k \in 0..(2 * n) /\ 2 * i - 1 \in 1..(2 * n) /\ 2 * i \in 1..(2 * n)
        /\ (2 * i - 1) - 1 = 2 * k
    BY <2>1
  <2>3. w[i] \in {0, 1}
    BY <1>1 DEF Word
  <2>4. PICK q \in Probe : q = g[2 * k]
    BY <1>5, <2>2
  <2>5. q.trst = 1 /\ q.tap = f[k]
    <3>1. CASE k = 0
      <4>1. q = p
        BY <1>7, <2>4, <3>1
      <4>2. f[0] = p.tap
        BY DEF Path
      <4> QED
        BY <3>1, <4>1, <4>2
    <3>2. CASE k # 0
      BY <1>7, <2>4, <3>2
    <3> QED
      BY <3>1, <3>2
  <2>6. g[2 * i - 1] = Execute(q, SET_TMS(w[i]))
    BY <1>2, <1>5, <2>2, <2>4
  <2>7. Execute(q, SET_TMS(w[i])) = [tap |-> f[k], tms |-> w[i], trst |-> 1]
    BY <2>3, <2>5, Executes, PulseHigh
  <2>8. PICK r \in Probe : r = g[2 * i - 1]
    BY <1>5, <2>2
  <2>9. r.tap = f[k] /\ r.tms = w[i] /\ r.trst = 1
    BY <2>6, <2>7, <2>8
  <2>10. g[2 * i] = Execute(r, OneBit)
    <3>1. (2 * i) - 1 = 2 * i - 1
      OBVIOUS
    <3> QED
      BY <1>2, <1>5, <2>2, <2>8, <3>1
  <2>11. g[2 * i] = [tap |-> Target(f[k], w[i]), tms |-> w[i], trst |-> 1]
    BY <2>9, <2>10, OneBitIs, PulseHigh
  <2>12. f[i] = Target(f[k], w[i])
    <3>1. i \in 1..Len(w) /\ i - 1 = k
      BY <1>1, <2>1
    <3> QED
      BY <3>1 DEF Path
  <2> QED
    BY <2>1, <2>11, <2>12
<1>8. 0..n \subseteq G
  <2> HIDE DEF G
  <2> QED
    BY <1>6, <1>7, UpTo
<1>9. n \in G
  <2> HIDE DEF G
  <2> QED
    BY <1>8
<1>10. o.p = g[2 * n]
  BY <1>2, <1>3, <1>4
<1> QED
  BY <1>1, <1>9, <1>10 DEF Arrived

\* A raw call, of any word.
RawOutcomes(p, w) == IF classify_tms(w) = "MIXED" THEN jtag_store_raw_bitbang(p, w)
                     ELSE jtag_shift_data(p, Len(w), classify_tms(w) = "NAV_ONLY")

\* The bits it clocks: those of the caller's word, zeros perhaps at the level of TMS.
LEMMA ClockedIs ==
  ASSUME NEW w \in Word, NEW p \in Probe
  PROVE  /\ Clocked(p, w) \in Word /\ Len(Clocked(p, w)) = Len(w)
         /\ classify_tms(w) = "MIXED" => Clocked(p, w) = w
         /\ classify_tms(w) = "ALL_ZERO" => \A i \in 1..Len(w) : Clocked(p, w)[i] = p.tms
         /\ classify_tms(w) = "NAV_ONLY" => /\ Len(w) \in Nat \ {0} /\ Clocked(p, w)[Len(w)] = 1
                                            /\ \A i \in 1..(Len(w) - 1) : Clocked(p, w)[i] = p.tms
<1>1. PICK n \in Nat : n = Len(w)
  BY DEF Word
<1>2. CASE classify_tms(w) = "MIXED"
  <2>1. Clocked(p, w) = w
    BY <1>2 DEF Clocked
  <2> QED
    BY <1>2, <2>1
<1>3. CASE classify_tms(w) # "MIXED"
  <2> DEFINE v == [i \in 1..n |-> IF w[i] = 1 THEN 1 ELSE p.tms]
  <2>1. Clocked(p, w) = v
    BY <1>1, <1>3 DEF Clocked
  <2>2. v \in Word /\ Len(v) = n
    <3>1. p.tms \in {0, 1}
      BY DEF Probe
    <3>2. \A i \in 1..n : (IF w[i] = 1 THEN 1 ELSE p.tms) \in {0, 1}
      BY <3>1
    <3> QED
      BY <3>2 DEF Word
  <2>3. CASE classify_tms(w) = "ALL_ZERO"
    <3>1. \A i \in 1..n : w[i] = 0
      BY <1>1, <2>3, Classes
    <3>2. \A i \in 1..n : v[i] = p.tms
      BY <3>1
    <3> QED
      BY <1>1, <2>1, <2>2, <2>3, <3>2
  <2>4. CASE classify_tms(w) = "NAV_ONLY"
    <3>1. n # 0 /\ w[n] = 1 /\ \A i \in 1..(n - 1) : w[i] = 0
      BY <1>1, <2>4, Classes
    <3>2. v[n] = 1
      <4>1. n \in 1..n
        BY <3>1
      <4> QED
        BY <3>1, <4>1
    <3>3. \A i \in 1..(n - 1) : v[i] = p.tms
      BY <3>1
    <3> HIDE DEF v
    <3> QED
      BY <1>1, <2>1, <2>2, <2>4, <3>1, <3>2, <3>3
  <2> QED
    BY <1>3, <2>3, <2>4, Classes
<1> QED
  BY <1>2, <1>3

\* Every raw call that succeeds takes the TAP where the bits it clocks lead.
LEMMA Arrives ==
  ASSUME NEW w \in Word, NEW p \in Probe, p.trst = 1, NEW f, Path(f, p.tap, Clocked(p, w)),
         NEW o \in RawOutcomes(p, w), o.ok
  PROVE  Arrived(o.p, p, f, Clocked(p, w))
<1>1. CASE classify_tms(w) = "MIXED"
  <2>1. o \in jtag_store_raw_bitbang(p, w)
    BY <1>1, Zenon DEF RawOutcomes
  <2>2. Clocked(p, w) = w
    BY <1>1, ClockedIs
  <2> QED
    BY <2>1, <2>2, BitsArrive
<1> DEFINE v == Clocked(p, w)
<1>2. v \in Word /\ Len(v) = Len(w) /\ Path(f, p.tap, v)
  BY ClockedIs
<1>3. CASE classify_tms(w) = "ALL_ZERO"
  <2>1. (classify_tms(w) = "NAV_ONLY") = FALSE /\ classify_tms(w) # "MIXED"
    BY <1>3
  <2>2. o \in jtag_shift_data(p, Len(w), FALSE)
    BY <2>1, Zenon DEF RawOutcomes
  <2>3. \A i \in 1..Len(w) : v[i] = p.tms
    BY <1>3, ClockedIs
  <2> HIDE DEF v
  <2>4. o \in jtag_shift_data(p, Len(v), FALSE) /\ \A i \in 1..Len(v) : v[i] = p.tms
    BY <1>2, <2>2, <2>3
  <2>5. Arrived(o.p, p, f, v)
    BY <1>2, <2>4, LevelArrives
  <2> QED
    BY <2>5 DEF v
<1>4. CASE classify_tms(w) = "NAV_ONLY"
  <2>1. (classify_tms(w) = "NAV_ONLY") = TRUE /\ classify_tms(w) # "MIXED"
    BY <1>4
  <2>2. o \in jtag_shift_data(p, Len(w), TRUE)
    BY <2>1, Zenon DEF RawOutcomes
  <2>3. Len(w) \in Nat \ {0} /\ v[Len(w)] = 1 /\ \A i \in 1..(Len(w) - 1) : v[i] = p.tms
    BY <1>4, ClockedIs
  <2> HIDE DEF v
  <2>4. /\ o \in jtag_shift_data(p, Len(v), TRUE) /\ Len(v) \in Nat \ {0} /\ v[Len(v)] = 1
        /\ \A i \in 1..(Len(v) - 1) : v[i] = p.tms
    BY <1>2, <2>2, <2>3
  <2>5. Arrived(o.p, p, f, v)
    BY <1>2, <2>4, ExitArrives
  <2> QED
    BY <2>5 DEF v
<1> QED
  BY <1>1, <1>3, <1>4, Classes

\* And whatever becomes of it, the pins stay a state of the pins.
LEMMA RawType == ASSUME NEW w \in Word, NEW p \in Probe, NEW o \in RawOutcomes(p, w)
                 PROVE  o.p \in Probe /\ o.ok \in BOOLEAN
<1>1. CASE classify_tms(w) = "MIXED"
  <2>1. o \in jtag_store_raw_bitbang(p, w)
    BY <1>1, Zenon DEF RawOutcomes
  <2>2. PICK s \in Seq(Command) : jtag_store_raw_bitbang(p, w) = UntilFailure(p, s)
    BY BitScriptIs
  <2> QED
    BY <2>1, <2>2, UntilFailureType
<1>2. CASE classify_tms(w) # "MIXED"
  <2>1. PICK exit \in BOOLEAN : o \in jtag_shift_data(p, Len(w), exit)
    <3>1. (classify_tms(w) = "NAV_ONLY") \in BOOLEAN
      OBVIOUS
    <3> QED
      BY <1>2, <3>1, Zenon DEF RawOutcomes
  <2>2. Len(w) \in Nat
    BY DEF Word
  <2>3. o.ok \in BOOLEAN /\ (o.p = p \/ (Len(w) # 0 /\ o.p = jtag_bb_write_read_exit(p, Len(w), exit)))
    BY <2>1, <2>2, ShiftOutcome, Zenon
  <2>4. Len(w) # 0 => jtag_bb_write_read_exit(p, Len(w), exit) \in Probe
    BY <2>2, ShiftType
  <2> QED
    BY <2>3, <2>4, Zenon
<1> QED
  BY <1>1, <1>2

\* Two paths that meet stay together.
LEMMA Together ==
  ASSUME NEW w \in Word, NEW s, NEW t, NEW f, Path(f, s, w), NEW g, Path(g, t, w),
         NEW j \in 0..Len(w), f[j] = g[j]
  PROVE  f[Len(w)] = g[Len(w)]
<1>1. PICK n \in Nat : n = Len(w)
  BY DEF Word
<1>2. PICK i \in 0..n : i = j
  BY <1>1
<1>3. f[i] = g[i]
  BY <1>2
<1>4. \A k \in (i + 1)..n : f[k - 1] = g[k - 1] => f[k] = g[k]
  <2> TAKE k \in (i + 1)..n
  <2>1. k \in 1..n
    OBVIOUS
  <2>2. f[k] = Target(f[k - 1], w[k]) /\ g[k] = Target(g[k - 1], w[k])
    BY <1>1, <2>1 DEF Path
  <2> QED
    BY <2>2
<1>5. \A k \in i..n : f[k] = g[k]
  BY <1>3, <1>4, FromThere
<1> QED
  BY <1>1, <1>5

\* Where five ones bring the tracker and the TAP together they stay together.
LEMMA Synchronised ==
  ASSUME NEW w \in Word, Synchronises(w), NEW s \in TapState, NEW t \in TapState,
         NEW f, Path(f, s, w), NEW g, Path(g, t, w)
  PROVE  f[Len(w)] = g[Len(w)]
<1>1. PICK n \in Nat : n = Len(w)
  BY DEF Word
<1>2. PICK i \in 1..(n - 4) : \A k \in i..(i + 4) : w[k] = 1
  BY <1>1 DEF Synchronises
<1>3. ASSUME NEW h, NEW r \in TapState, Path(h, r, w) PROVE h[i + 4] = "RESET"
  <2>1. i - 1 \in 0..n /\ i \in 1..n /\ i + 1 \in 1..n /\ i + 2 \in 1..n /\ i + 3 \in 1..n
        /\ i + 4 \in 1..n
    OBVIOUS
  <2>2. h[i - 1] \in TapState
    BY <1>1, <1>3, <2>1 DEF Path
  <2>3. w[i] = 1 /\ w[i + 1] = 1 /\ w[i + 2] = 1 /\ w[i + 3] = 1 /\ w[i + 4] = 1
    BY <1>2
  <2>4. \A k \in 1..n : h[k] = Target(h[k - 1], w[k])
    BY <1>1, <1>3 DEF Path
  <2>5. h[i] = Target(h[i - 1], 1)
    BY <2>1, <2>3, <2>4
  <2>6. h[i + 1] = Target(h[i], 1)
    <3>1. (i + 1) - 1 = i
      OBVIOUS
    <3> QED
      BY <2>1, <2>3, <2>4, <3>1
  <2>7. h[i + 2] = Target(h[i + 1], 1)
    <3>1. (i + 2) - 1 = i + 1
      OBVIOUS
    <3> QED
      BY <2>1, <2>3, <2>4, <3>1
  <2>8. h[i + 3] = Target(h[i + 2], 1)
    <3>1. (i + 3) - 1 = i + 2
      OBVIOUS
    <3> QED
      BY <2>1, <2>3, <2>4, <3>1
  <2>9. h[i + 4] = Target(h[i + 3], 1)
    <3>1. (i + 4) - 1 = i + 3
      OBVIOUS
    <3> QED
      BY <2>1, <2>3, <2>4, <3>1
  <2> QED
    BY <2>2, <2>5, <2>6, <2>7, <2>8, <2>9, FiveOnes
<1>4. PICK j \in 0..n : j = i + 4
  OBVIOUS
<1>5. f[j] = g[j] /\ j \in 0..Len(w)
  BY <1>1, <1>3, <1>4
<1> QED
  BY <1>5, Together

\* And so they do where the tracker is one zero behind, once there is a zero.
LEMMA OneBehind ==
  ASSUME NEW w \in Word, Len(w) # 0, w[1] = 0, NEW f, Path(f, "IDLE", w), NEW g, Path(g, "RESET", w)
  PROVE  f[Len(w)] = g[Len(w)]
<1>1. PICK n \in Nat : n = Len(w)
  BY DEF Word
<1>2. f[1] = g[1]
  <2>1. 1 \in 1..n /\ 1 - 1 = 0
    BY <1>1
  <2>2. f[0] = "IDLE" /\ g[0] = "RESET" /\ f[1] = Target(f[0], w[1]) /\ g[1] = Target(g[0], w[1])
    BY <1>1, <2>1 DEF Path
  <2> QED
    BY <2>2, OnZero
<1>3. 1 \in 0..Len(w)
  BY <1>1
<1> QED
  BY <1>2, <1>3, Together

\* A path that ends in a Shift state ends with a zero.
LEMMA IntoShift == ASSUME NEW w \in Word, Len(w) # 0, NEW s, NEW f, Path(f, s, w),
                          f[Len(w)] \in Shifting
                   PROVE  w[Len(w)] = 0
<1>1. PICK n \in Nat : n = Len(w)
  BY DEF Word
<1>2. n \in 1..n /\ n - 1 \in 0..n
  BY <1>1
<1>3. w[n] \in {0, 1}
  BY <1>1, <1>2 DEF Word
<1>4. f[n] = Target(f[n - 1], w[n]) /\ f[n - 1] \in TapState
  BY <1>1, <1>2 DEF Path
<1> QED
  BY <1>1, <1>3, <1>4, Shifts

----------------------------------------------------------------------------
(* The inductive invariant *)

\* Besides Agree: a caller who is entitled to it has nTRST high.
RawInv == /\ TypeOK /\ Agree
          /\ trust \in {"agree", "homed"} => probe.trst = 1

\* A raw call keeps it.
LEMMA RawStep ==
  ASSUME RawInv, NEW w \in Word, NEW o \in RawOutcomes(probe, w), probe' = o.p, ok' = o.ok,
         s_state' = tap_track_tms(s_state, w), trust' = TrustAfterRaw(w),
         UNCHANGED <<is_open, devs>>
  PROVE  RawInv'
<1>1. probe \in Probe /\ s_state \in TapState
  BY DEF RawInv, TypeOK
<1>2. PICK f : Path(f, probe.tap, w)
  <2>1. probe.tap \in TapState
    BY <1>1 DEF Probe
  <2> QED
    BY <2>1, PathExists
<1>3. PICK g : Path(g, s_state, w)
  BY <1>1, PathExists
<1>4. PICK n \in Nat : n = Len(w)
  BY DEF Word
<1>5. s_state' = g[n]
  BY <1>1, <1>3, <1>4, TrackerWalk
<1>6. probe' \in Probe /\ ok' \in BOOLEAN
  BY <1>1, RawType
<1>7. s_state' \in TapState
  BY <1>3, <1>4, <1>5 DEF Path
<1>8. trust' \in Trust
  BY DEF TrustAfterRaw, RawInv, TypeOK, Trust
<1>9. TypeOK'
  BY <1>6, <1>7, <1>8 DEF TypeOK, RawInv
<1>10. ASSUME trust' = "agree"
       PROVE  probe'.trst = 1 /\ s_state' = probe'.tap /\ (s_state' \in Shifting => probe'.tms = 0)
  <2>1. /\ o.ok /\ probe.trst # 0 /\ Clocked(probe, w) = w
        /\ \/ Synchronises(w) \/ trust = "agree"
           \/ trust = "homed" /\ w # << >> /\ w[1] = 0
    BY <1>10, Zenon DEF TrustAfterRaw
  <2>2. probe.trst = 1
    BY <1>1, <2>1 DEF Probe
  <2>3. Arrived(probe', probe, f, w)
    BY <1>1, <1>2, <2>1, <2>2, Arrives
  <2>4. CASE n = 0
    <3>1. probe' = probe
      BY <1>4, <2>3, <2>4 DEF Arrived
    <3>2. ~Synchronises(w) /\ w = << >>
      <4>1. w \in Seq({0, 1}) /\ Len(w) = 0
        BY <1>4, <2>4 DEF Word
      <4>2. w = << >>
        BY <4>1
      <4>3. ~Synchronises(w)
        BY <4>1 DEF Synchronises
      <4> QED
        BY <4>2, <4>3
    <3>3. s_state' = s_state
      BY <1>3, <1>5, <2>4 DEF Path
    <3> QED
      BY <2>1, <2>2, <3>1, <3>2, <3>3 DEF RawInv, Agree
  <2>5. CASE n # 0
    <3>1. probe'.tap = f[n] /\ probe'.tms = w[n] /\ probe'.trst = 1
      BY <1>4, <2>3, <2>5 DEF Arrived
    <3>2. f[n] = g[n]
      <4>1. CASE Synchronises(w)
        <5>1. probe.tap \in TapState
          BY <1>1 DEF Probe
        <5> QED
          BY <1>1, <1>2, <1>3, <1>4, <4>1, <5>1, Synchronised
      <4>2. CASE trust = "agree"
        <5>1. s_state = probe.tap
          BY <4>2 DEF RawInv, Agree
        <5> QED
          BY <1>2, <1>3, <1>4, <5>1, PathUnique
      <4>3. CASE trust = "homed" /\ w[1] = 0
        <5>1. s_state = "RESET" /\ probe.tap = "IDLE"
          BY <4>3 DEF RawInv, Agree
        <5>2. Path(f, "IDLE", w) /\ Path(g, "RESET", w)
          BY <1>2, <1>3, <5>1
        <5> QED
          BY <1>4, <2>5, <4>3, <5>2, OneBehind
      <4> QED
        BY <2>1, <4>1, <4>2, <4>3
    <3>3. f[n] \in Shifting => w[n] = 0
      BY <1>2, <1>4, <2>5, IntoShift
    <3> QED
      BY <1>5, <3>1, <3>2, <3>3
  <2> QED
    BY <2>4, <2>5
<1>11. ASSUME trust' = "homed"
       PROVE  probe' = probe /\ s_state' = s_state /\ trust = "homed"
  <2>1. /\ o.ok /\ probe.trst # 0 /\ Clocked(probe, w) = w /\ trust = "homed" /\ w = << >>
    BY <1>11, Zenon DEF TrustAfterRaw
  <2>2. probe.trst = 1 /\ n = 0
    BY <1>1, <1>4, <2>1 DEF Probe
  <2>3. Arrived(probe', probe, f, w)
    BY <1>1, <1>2, <2>1, <2>2, Arrives
  <2>4. s_state' = s_state
    BY <1>3, <1>5, <2>2 DEF Path
  <2> QED
    BY <1>4, <2>1, <2>2, <2>3, <2>4 DEF Arrived
<1> QED
  BY <1>9, <1>10, <1>11 DEF RawInv, Agree

----------------------------------------------------------------------------
(* The other calls *)

\* A script leads one way only,
LEMMA ScriptUnique ==
  ASSUME NEW p \in Probe, NEW s \in Seq(Command), NEW g, ScriptPath(g, p, s)
  PROVE  After(p, s) = g[Len(s)]
<1>1. PICK n \in Nat : n = Len(s)
  OBVIOUS
<1>2. PICK e : ScriptPath(e, p, s) /\ After(p, s) = e[n]
  BY <1>1, ScriptWalk
<1>3. e[0] = g[0]
  BY <1>2 DEF ScriptPath
<1>4. \A k \in 1..n : e[k - 1] = g[k - 1] => e[k] = g[k]
  BY <1>1, <1>2 DEF ScriptPath
<1>5. \A k \in 0..n : e[k] = g[k]
  BY <1>3, <1>4, FromStart, SMTT(30)
<1> QED
  BY <1>1, <1>2, <1>5

\* and two scripts one after the other.
LEMMA AfterBoth ==
  ASSUME NEW p \in Probe, NEW s \in Seq(Command), NEW t \in Seq(Command)
  PROVE  s \o t \in Seq(Command) /\ After(p, s \o t) = After(After(p, s), t)
<1> DEFINE u == s \o t
<1>1. /\ u \in Seq(Command) /\ Len(u) = Len(s) + Len(t)
      /\ \A i \in 1..(Len(s) + Len(t)) : u[i] = IF i <= Len(s) THEN s[i] ELSE t[i - Len(s)]
  BY ConcatProperties
<1>2. PICK m \in Nat, n \in Nat : m = Len(s) /\ n = Len(t)
  OBVIOUS
<1> HIDE DEF u
<1>3. PICK e : ScriptPath(e, p, u) /\ After(p, u) = e[m + n]
  BY <1>1, <1>2, ScriptWalk
<1>4. /\ e \in [0..(m + n) -> Probe] /\ e[0] = p
      /\ \A k \in 1..(m + n) : e[k] = Execute(e[k - 1], u[k])
  BY <1>1, <1>2, <1>3 DEF ScriptPath
<1> DEFINE g == [k \in 0..m |-> e[k]]
           h == [k \in 0..n |-> e[m + k]]
<1>5. ScriptPath(g, p, s)
  <2>1. g \in [0..m -> Probe] /\ g[0] = p
    BY <1>4
  <2>2. ASSUME NEW k \in 1..m PROVE g[k] = Execute(g[k - 1], s[k])
    <3>1. k \in 1..(m + n) /\ k <= m /\ k \in 0..m /\ k - 1 \in 0..m
      OBVIOUS
    <3>2. u[k] = s[k]
      BY <1>1, <1>2, <3>1
    <3>3. e[k] = Execute(e[k - 1], s[k])
      BY <1>4, <3>1, <3>2
    <3> QED
      BY <3>1, <3>3
  <2> HIDE DEF g
  <2> QED
    BY <1>2, <2>1, <2>2 DEF ScriptPath
<1>6. e[m] \in Probe /\ e[m] = After(p, s)
  <2>1. After(p, s) = g[m]
    <3> HIDE DEF g
    <3> QED
      BY <1>2, <1>5, ScriptUnique
  <2>2. m \in 0..m /\ m \in 0..(m + n)
    OBVIOUS
  <2> QED
    BY <1>4, <2>1, <2>2
<1>7. ScriptPath(h, e[m], t)
  <2>1. h \in [0..n -> Probe] /\ h[0] = e[m]
    <3>1. \A k \in 0..n : m + k \in 0..(m + n)
      OBVIOUS
    <3>2. 0 \in 0..n /\ m + 0 = m
      OBVIOUS
    <3> QED
      BY <1>4, <3>1, <3>2
  <2>2. ASSUME NEW k \in 1..n PROVE h[k] = Execute(h[k - 1], t[k])
    <3>1. /\ m + k \in 1..(m + n) /\ ~(m + k <= m) /\ (m + k) - m = k /\ k \in 0..n
          /\ k - 1 \in 0..n /\ (m + k) - 1 = m + (k - 1)
      OBVIOUS
    <3>2. u[m + k] = t[k]
      BY <1>1, <1>2, <3>1
    <3>3. e[m + k] = Execute(e[m + (k - 1)], t[k])
      BY <1>4, <3>1, <3>2
    <3> QED
      BY <3>1, <3>3
  <2> HIDE DEF h
  <2> QED
    BY <1>2, <2>1, <2>2 DEF ScriptPath
<1>8. After(e[m], t) = e[m + n]
  <2>1. After(e[m], t) = h[n]
    <3> HIDE DEF h
    <3> QED
      BY <1>2, <1>6, <1>7, ScriptUnique
  <2>2. n \in 0..n
    OBVIOUS
  <2> QED
    BY <2>1, <2>2
<1> QED
  BY <1>1, <1>3, <1>6, <1>8 DEF u

\* A call that ignores failures: if it sees none, it did all its commands.
Outcome == [p : Probe, ok : BOOLEAN]

\* One more command, answered or not.
LEMMA MissingOne ==
  ASSUME NEW c \in Command, NEW S \in SUBSET Outcome
  PROVE  /\ Missing(S, c) \in SUBSET Outcome
         /\ \A o \in Missing(S, c) : o.ok => \E q \in S : q.ok /\ o.p = Execute(q.p, c)
<1> SUFFICES ASSUME NEW o \in Missing(S, c)
             PROVE  o \in Outcome /\ (o.ok => \E q \in S : q.ok /\ o.p = Execute(q.p, c))
  OBVIOUS
<1>1. PICK q \in S : \/ o = [q EXCEPT !.p = Execute(q.p, c)]
                     \/ o = [q EXCEPT !.ok = FALSE]
                     \/ o = [p |-> Execute(q.p, c), ok |-> FALSE]
  BY DEF Missing
<1>2. q = [p |-> q.p, ok |-> q.ok] /\ q.p \in Probe /\ q.ok \in BOOLEAN
  BY DEF Outcome
<1>3. Execute(q.p, c) \in Probe
  BY <1>2, ExecuteType
<1>4. CASE o = [q EXCEPT !.p = Execute(q.p, c)]
  <2>1. o = [p |-> Execute(q.p, c), ok |-> q.ok]
    BY <1>2, <1>4
  <2> QED
    BY <1>2, <1>3, <2>1 DEF Outcome
<1>5. CASE o = [q EXCEPT !.ok = FALSE]
  <2>1. o = [p |-> q.p, ok |-> FALSE]
    BY <1>2, <1>5
  <2> QED
    BY <1>2, <2>1 DEF Outcome
<1>6. CASE o = [p |-> Execute(q.p, c), ok |-> FALSE]
  BY <1>3, <1>6 DEF Outcome
<1> QED
  BY <1>1, <1>4, <1>5, <1>6

\* The whole script.
LEMMA WhateverType ==
  ASSUME NEW p \in Probe, NEW s \in Seq(Command), NEW o \in WhateverFails(p, s)
  PROVE  /\ o.p \in Probe /\ o.ok \in BOOLEAN
         /\ o.ok => o.p = After(p, s)
<1> DEFINE start == {[p |-> p, ok |-> TRUE]}
           at[k \in 0..Len(s)] == IF k = 0 THEN start ELSE Missing(at[k - 1], s[k])
           step == [k \in 1..Len(s) |-> [x \in SUBSET Outcome |-> Missing(x, s[k])]]
<1>1. Len(s) \in Nat /\ \A k \in 1..Len(s) : s[k] \in Command
  OBVIOUS
<1>2. step \in [1..Len(s) -> [SUBSET Outcome -> SUBSET Outcome]]
  BY <1>1, MissingOne
<1>3. start \in SUBSET Outcome
  BY DEF Outcome
<1>4. PICK f : Recursive(f, Len(s), SUBSET Outcome, start, step)
  <2> HIDE DEF step, start
  <2> QED
    BY <1>1, <1>2, <1>3, Recursion
<1>5. f = [k \in 0..Len(s) |-> IF k = 0 THEN start ELSE Missing(f[k - 1], s[k])]
  <2>1. ASSUME NEW k \in 1..Len(s) PROVE f[k] = Missing(f[k - 1], s[k])
    <3>1. k - 1 \in 0..Len(s)
      BY <1>1
    <3>2. f[k - 1] \in SUBSET Outcome
      <4> HIDE DEF step, start
      <4> QED
        BY <1>4, <3>1 DEF Recursive
    <3>3. f[k] = step[k][f[k - 1]]
      <4> HIDE DEF step, start
      <4> QED
        BY <1>4 DEF Recursive
    <3> HIDE DEF start
    <3> QED
      BY <3>2, <3>3
  <2>2. f[0] = start
    <3> HIDE DEF step, start
    <3> QED
      BY <1>4 DEF Recursive
  <2>3. f = [k \in 0..Len(s) |-> f[k]]
    <3> HIDE DEF step, start
    <3> QED
      BY <1>4 DEF Recursive
  <2>4. ASSUME NEW k \in 0..Len(s)
        PROVE  f[k] = IF k = 0 THEN start ELSE Missing(f[k - 1], s[k])
    <3>1. CASE k = 0
      <4> HIDE DEF start
      <4> QED
        BY <2>2, <3>1
    <3>2. CASE k # 0
      <4>1. k \in 1..Len(s)
        BY <1>1, <3>2
      <4> HIDE DEF start
      <4> QED
        BY <2>1, <3>2, <4>1
    <3> HIDE DEF start
    <3> QED
      BY <3>1, <3>2
  <2> HIDE DEF step, start
  <2> QED
    BY <2>3, <2>4
<1>6. at = [k \in 0..Len(s) |-> IF k = 0 THEN start ELSE Missing(at[k - 1], s[k])]
  <2>1. \E h : h = [k \in 0..Len(s) |-> IF k = 0 THEN start ELSE Missing(h[k - 1], s[k])]
    BY <1>5
  <2> HIDE DEF start
  <2> QED
    BY <2>1, Zenon
<1>7. WhateverFails(p, s) = at[Len(s)]
  BY Zenon DEF WhateverFails, Walk
<1> HIDE DEF at
<1>8. at = [k \in 0..Len(s) |-> at[k]] /\ at[0] = start
  <2> HIDE DEF start
  <2> QED
    BY <1>1, <1>6
<1>9. \A k \in 1..Len(s) : \A x \in SUBSET Outcome : at[k - 1] = x => at[k] = step[k][x]
  <2> HIDE DEF start
  <2> QED
    BY <1>1, <1>6
<1>10. Recursive(at, Len(s), SUBSET Outcome, start, step)
  <2> HIDE DEF step, start
  <2> QED
    BY <1>1, <1>2, <1>3, <1>8, <1>9, Computed
<1>11. PICK g : ScriptPath(g, p, s) /\ After(p, s) = g[Len(s)]
  BY ScriptWalk
<1> DEFINE G == {k \in 0..Len(s) : \A q \in at[k] : q.ok => q.p = g[k]}
<1>12. 0 \in G
  BY <1>1, <1>8, <1>11 DEF ScriptPath
<1>13. ASSUME NEW k \in 0..(Len(s) - 1), k \in G PROVE k + 1 \in G
  <2>1. k + 1 \in 1..Len(s) /\ (k + 1) - 1 = k /\ k \in 0..Len(s) /\ k + 1 \in 0..Len(s)
    BY <1>1
  <2>2. at[k] \in SUBSET Outcome /\ at[k + 1] = Missing(at[k], s[k + 1])
    <3>1. at[k] \in SUBSET Outcome
      <4> HIDE DEF step, start
      <4> QED
        BY <1>10, <2>1 DEF Recursive
    <3>2. k + 1 # 0
      OBVIOUS
    <3> HIDE DEF start
    <3> QED
      BY <1>6, <2>1, <3>1, <3>2
  <2>3. g[k + 1] = Execute(g[k], s[k + 1])
    BY <1>11, <2>1 DEF ScriptPath
  <2>4. ASSUME NEW q \in at[k + 1], q.ok PROVE q.p = g[k + 1]
    <3>1. PICK r \in at[k] : r.ok /\ q.p = Execute(r.p, s[k + 1])
      BY <1>1, <2>1, <2>2, <2>4, MissingOne
    <3>2. r.p = g[k]
      BY <1>13, <3>1
    <3> QED
      BY <2>3, <3>1, <3>2
  <2> QED
    BY <2>1, <2>4
<1>14. 0..Len(s) \subseteq G
  <2> HIDE DEF G
  <2> QED
    BY <1>1, <1>12, <1>13, UpTo
<1>15. Len(s) \in G
  <2> HIDE DEF G
  <2> QED
    BY <1>1, <1>14
<1>16. at[Len(s)] \in SUBSET Outcome
  <2>1. Len(s) \in 0..Len(s)
    BY <1>1
  <2> HIDE DEF step, start
  <2> QED
    BY <1>10, <2>1 DEF Recursive
<1>17. o \in Outcome /\ (o.ok => o.p = g[Len(s)])
  BY <1>7, <1>15, <1>16
<1> QED
  BY <1>11, <1>17 DEF Outcome

----------------------------------------------------------------------------
(* The way home *)

\* The pins while nTRST is high.
High(tap, tms) == [tap |-> tap, tms |-> tms, trst |-> 1]

\* They are what a state of the pins is while nTRST is high.
LEMMA HighProbe ==
  /\ \A t \in TapState, b \in {0, 1} :
       /\ High(t, b) \in Probe
       /\ High(t, b).tap = t /\ High(t, b).tms = b /\ High(t, b).trst = 1
  /\ \A p \in Probe : p.trst = 1 => /\ p.tap \in TapState /\ p.tms \in {0, 1}
                                    /\ p = High(p.tap, p.tms)
  BY DEF Probe, High

\* A clock then takes the TAP along its edge.
LEMMA ClockHigh == ASSUME NEW t \in TapState, NEW a \in {0, 1}, NEW b \in {0, 1}
                   PROVE  /\ Clock(High(t, a), b) = High(Target(t, b), b)
                          /\ Target(t, b) \in TapState
<1>1. High(t, a) \in Probe /\ High(t, a).trst = 1 /\ High(t, a).tap = t
  BY HighProbe
<1>2. jtag_tap_set_tms(High(t, a), b) = High(t, b)
  BY <1>1, PulseHigh DEF High
<1>3. High(t, b) \in Probe /\ High(t, b).trst = 1 /\ High(t, b).tap = t /\ High(t, b).tms = b
  BY HighProbe
<1>4. Pulse(High(t, b)) = High(Target(t, b), b)
  BY <1>3, PulseHigh DEF High
<1> QED
  BY <1>2, <1>4, SameTable DEF Clock

\* WRITE_TMS takes the TAP along the path of its word.
LEMMA WriteHigh ==
  ASSUME NEW t \in TapState, NEW b \in {0, 1}, NEW w \in Word, Len(w) # 0, NEW f, Path(f, t, w)
  PROVE  handle_write_tms(High(t, b), w) = High(f[Len(w)], w[Len(w)])
<1>1. PICK n \in Nat : n = Len(w)
  BY DEF Word
<1>2. PICK g : ClockPath(g, High(t, b), w) /\ handle_write_tms(High(t, b), w) = g[n]
  BY <1>1, HighProbe, ClockWalk
<1>3. /\ g[0] = High(t, b)
      /\ \A k \in 1..n : g[k] = Clock(g[k - 1], w[k])
  BY <1>1, <1>2 DEF ClockPath
<1>4. /\ f[0] = t /\ \A k \in 0..n : f[k] \in TapState
      /\ \A k \in 1..n : f[k] = Target(f[k - 1], w[k])
  BY <1>1 DEF Path
<1>5. \A k \in 1..n : w[k] \in {0, 1}
  BY <1>1 DEF Word
<1> DEFINE G == {k \in 0..n : g[k] = High(f[k], IF k = 0 THEN b ELSE w[k])}
<1>6. 0 \in G
  BY <1>3, <1>4
<1>7. ASSUME NEW k \in 0..(n - 1), k \in G PROVE k + 1 \in G
  <2>1. k + 1 \in 1..n /\ (k + 1) - 1 = k /\ k \in 0..n /\ k + 1 \in 0..n /\ k + 1 # 0
    OBVIOUS
  <2>2. PICK a \in {0, 1} : g[k] = High(f[k], a)
    <3>1. CASE k = 0
      BY <1>7, <3>1
    <3>2. CASE k # 0
      <4>1. k \in 1..n
        BY <3>2
      <4> QED
        BY <1>5, <1>7, <3>2, <4>1
    <3> QED
      BY <3>1, <3>2
  <2>3. g[k + 1] = Clock(High(f[k], a), w[k + 1])
    BY <1>3, <2>1, <2>2
  <2>4. g[k + 1] = High(f[k + 1], w[k + 1])
    BY <1>4, <1>5, <2>1, <2>3, ClockHigh
  <2> QED
    BY <2>1, <2>4
<1>8. 0..n \subseteq G
  <2> HIDE DEF G
  <2> QED
    BY <1>6, <1>7, UpTo
<1>9. n \in G
  <2> HIDE DEF G
  <2> QED
    BY <1>8
<1> QED
  BY <1>1, <1>2, <1>9

\* The words of the scripts.
LEMMA ScriptWords ==
  ASSUME NEW t \in TapState, NEW b \in {0, 1}
  PROVE  /\ handle_write_tms(High(t, b), <<1, 1, 1, 1, 1>>) = High("RESET", 1)
         /\ handle_write_tms(High(t, b), <<0>>) = High(Target(t, 0), 0)
         /\ handle_write_tms(High(t, b), <<1, 0>>) = High(Target(Target(t, 1), 0), 0)
         /\ handle_write_tms(High(t, b), <<1, 0, 0>>)
              = High(Target(Target(Target(t, 1), 0), 0), 0)
         /\ handle_write_tms(High(t, b), <<1, 1, 0>>)
              = High(Target(Target(Target(t, 1), 1), 0), 0)
         /\ handle_write_tms(High(t, b), <<1, 1, 0, 0>>)
              = High(Target(Target(Target(Target(t, 1), 1), 0), 0), 0)
<1>1. handle_write_tms(High(t, b), <<1, 1, 1, 1, 1>>) = High("RESET", 1)
  <2> DEFINE w == <<1, 1, 1, 1, 1>>
  <2>1. w \in Word /\ Len(w) = 5 /\ w[1] = 1 /\ w[2] = 1 /\ w[3] = 1 /\ w[4] = 1 /\ w[5] = 1
    <3>1. w \in Word
      BY DEF Word
    <3> QED
      BY <3>1
  <2> HIDE DEF w
  <2>2. PICK f : Path(f, t, w)
    BY <2>1, PathExists
  <2>3. f[5] = Target(Target(Target(Target(Target(t, 1), 1), 1), 1), 1)
    BY <2>1, <2>2 DEF Path
  <2>4. f[5] = "RESET"
    BY <2>3, FiveOnes
  <2>5. handle_write_tms(High(t, b), w) = High(f[5], 1)
    <3>1. w \in Word /\ Len(w) # 0
      BY <2>1
    <3>2. handle_write_tms(High(t, b), w) = High(f[Len(w)], w[Len(w)])
      BY <2>2, <3>1, WriteHigh
    <3> QED
      BY <2>1, <3>2
  <2> QED
    BY <2>4, <2>5 DEF w
<1>2. handle_write_tms(High(t, b), <<0>>) = High(Target(t, 0), 0)
  <2> DEFINE w == <<0>>
  <2>1. w \in Word /\ Len(w) = 1 /\ w[1] = 0
    BY DEF Word
  <2> HIDE DEF w
  <2>2. PICK f : Path(f, t, w)
    BY <2>1, PathExists
  <2>3. f[1] = Target(t, 0)
    BY <2>1, <2>2 DEF Path
  <2>4. handle_write_tms(High(t, b), w) = High(f[1], 0)
    <3>1. w \in Word /\ Len(w) # 0
      BY <2>1
    <3>2. handle_write_tms(High(t, b), w) = High(f[Len(w)], w[Len(w)])
      BY <2>2, <3>1, WriteHigh
    <3> QED
      BY <2>1, <3>2
  <2> QED
    BY <2>3, <2>4 DEF w
<1>3. handle_write_tms(High(t, b), <<1, 0>>) = High(Target(Target(t, 1), 0), 0)
  <2> DEFINE w == <<1, 0>>
  <2>1. w \in Word /\ Len(w) = 2 /\ w[1] = 1 /\ w[2] = 0
    BY DEF Word
  <2> HIDE DEF w
  <2>2. PICK f : Path(f, t, w)
    BY <2>1, PathExists
  <2>3. f[2] = Target(Target(t, 1), 0)
    BY <2>1, <2>2 DEF Path
  <2>4. handle_write_tms(High(t, b), w) = High(f[2], 0)
    <3>1. w \in Word /\ Len(w) # 0
      BY <2>1
    <3>2. handle_write_tms(High(t, b), w) = High(f[Len(w)], w[Len(w)])
      BY <2>2, <3>1, WriteHigh
    <3> QED
      BY <2>1, <3>2
  <2> QED
    BY <2>3, <2>4 DEF w
<1>4. handle_write_tms(High(t, b), <<1, 0, 0>>) = High(Target(Target(Target(t, 1), 0), 0), 0)
  <2> DEFINE w == <<1, 0, 0>>
  <2>1. w \in Word /\ Len(w) = 3 /\ w[1] = 1 /\ w[2] = 0 /\ w[3] = 0
    BY DEF Word
  <2> HIDE DEF w
  <2>2. PICK f : Path(f, t, w)
    BY <2>1, PathExists
  <2>3. f[3] = Target(Target(Target(t, 1), 0), 0)
    BY <2>1, <2>2 DEF Path
  <2>4. handle_write_tms(High(t, b), w) = High(f[3], 0)
    <3>1. w \in Word /\ Len(w) # 0
      BY <2>1
    <3>2. handle_write_tms(High(t, b), w) = High(f[Len(w)], w[Len(w)])
      BY <2>2, <3>1, WriteHigh
    <3> QED
      BY <2>1, <3>2
  <2> QED
    BY <2>3, <2>4 DEF w
<1>5. handle_write_tms(High(t, b), <<1, 1, 0>>) = High(Target(Target(Target(t, 1), 1), 0), 0)
  <2> DEFINE w == <<1, 1, 0>>
  <2>1. w \in Word /\ Len(w) = 3 /\ w[1] = 1 /\ w[2] = 1 /\ w[3] = 0
    BY DEF Word
  <2> HIDE DEF w
  <2>2. PICK f : Path(f, t, w)
    BY <2>1, PathExists
  <2>3. f[3] = Target(Target(Target(t, 1), 1), 0)
    BY <2>1, <2>2 DEF Path
  <2>4. handle_write_tms(High(t, b), w) = High(f[3], 0)
    <3>1. w \in Word /\ Len(w) # 0
      BY <2>1
    <3>2. handle_write_tms(High(t, b), w) = High(f[Len(w)], w[Len(w)])
      BY <2>2, <3>1, WriteHigh
    <3> QED
      BY <2>1, <3>2
  <2> QED
    BY <2>3, <2>4 DEF w
<1>6. handle_write_tms(High(t, b), <<1, 1, 0, 0>>)
        = High(Target(Target(Target(Target(t, 1), 1), 0), 0), 0)
  <2> DEFINE w == <<1, 1, 0, 0>>
  <2>1. w \in Word /\ Len(w) = 4 /\ w[1] = 1 /\ w[2] = 1 /\ w[3] = 0 /\ w[4] = 0
    <3>1. w \in Word
      BY DEF Word
    <3> QED
      BY <3>1
  <2> HIDE DEF w
  <2>2. PICK f : Path(f, t, w)
    BY <2>1, PathExists
  <2>3. f[4] = Target(Target(Target(Target(t, 1), 1), 0), 0)
    BY <2>1, <2>2 DEF Path
  <2>4. handle_write_tms(High(t, b), w) = High(f[4], 0)
    <3>1. w \in Word /\ Len(w) # 0
      BY <2>1
    <3>2. handle_write_tms(High(t, b), w) = High(f[Len(w)], w[Len(w)])
      BY <2>2, <3>1, WriteHigh
    <3> QED
      BY <2>1, <3>2
  <2> QED
    BY <2>3, <2>4 DEF w
<1> QED
  BY <1>1, <1>2, <1>3, <1>4, <1>5, <1>6

\* A TAP that shifts, or idles, stays while TMS is low, and leaves by one step for the
\* last bit.
LEMMA ShiftHigh ==
  ASSUME NEW t \in Shifting \union {"IDLE"}, NEW n \in Nat
  PROVE  /\ Pulses(High(t, 0), n) = High(t, 0)
         /\ n # 0 => /\ jtag_bb_write_read_exit(High(t, 0), n, FALSE) = High(t, 0)
                     /\ jtag_bb_write_read_exit(High(t, 0), n, TRUE) = High(Target(t, 1), 1)
<1>1. t \in TapState /\ Target(t, 0) = t
  BY Shifts, OnZero, States DEF Shifting
<1>2. High(t, 0) \in Probe /\ High(t, 0).tap = t /\ High(t, 0).tms = 0 /\ High(t, 0).trst = 1
  BY <1>1, HighProbe
<1>3. ASSUME NEW m \in Nat PROVE Pulses(High(t, 0), m) = High(t, 0)
  <2> DEFINE w == [i \in 1..m |-> 0]
             f == [k \in 0..m |-> t]
  <2>1. w \in Word /\ Len(w) = m /\ \A k \in 1..m : w[k] = 0
    BY DEF Word
  <2> HIDE DEF w
  <2>2. Path(f, t, w)
    <3>1. \A k \in 1..m : k - 1 \in 0..m /\ k \in 0..m
      OBVIOUS
    <3> QED
      BY <1>1, <2>1, <3>1 DEF Path
  <2>3. f[m] = t /\ m \in 0..m
    OBVIOUS
  <2> HIDE DEF f
  <2>4. Pulses(High(t, 0), m) = [tap |-> f[m], tms |-> 0, trst |-> 1]
    BY <1>2, <2>1, <2>2, <2>3, PulsesLevel
  <2> QED
    BY <2>3, <2>4 DEF High
<1>4. n # 0 => jtag_bb_write_read_exit(High(t, 0), n, FALSE) = High(t, 0)
  <2>1. jtag_bb_write_read_exit(High(t, 0), n, FALSE) = Pulses(High(t, 0), n)
    BY Zenon DEF jtag_bb_write_read_exit
  <2> QED
    BY <1>3, <2>1
<1>5. n # 0 => jtag_bb_write_read_exit(High(t, 0), n, TRUE) = High(Target(t, 1), 1)
  <2>1. jtag_bb_write_read_exit(High(t, 0), n, TRUE)
          = Clock(Pulses(High(t, 0), n - 1), 1)
    BY Zenon DEF jtag_bb_write_read_exit, Clock
  <2>2. n # 0 => Pulses(High(t, 0), n - 1) = High(t, 0)
    <3>1. n # 0 => n - 1 \in Nat
      OBVIOUS
    <3> QED
      BY <1>3, <3>1
  <2>3. Clock(High(t, 0), 1) = High(Target(t, 1), 1)
    BY <1>1, ClockHigh
  <2> QED
    BY <2>1, <2>2, <2>3
<1> QED
  BY <1>3, <1>4, <1>5

\* Scripts of a few commands.
LEMMA AfterTwo == ASSUME NEW p \in Probe, NEW c \in Command, NEW d \in Command
                  PROVE  /\ <<c, d>> \in Seq(Command)
                         /\ After(p, <<c, d>>) = Execute(Execute(p, c), d)
<1> DEFINE s == <<c, d>>
<1>1. s \in Seq(Command) /\ Len(s) = 2 /\ s[1] = c /\ s[2] = d
  OBVIOUS
<1> HIDE DEF s
<1>2. PICK g : ScriptPath(g, p, s) /\ After(p, s) = g[2]
  BY <1>1, ScriptWalk
<1>3. g[0] = p /\ g[1] = Execute(g[0], c) /\ g[2] = Execute(g[1], d)
  BY <1>1, <1>2 DEF ScriptPath
<1> QED
  BY <1>1, <1>2, <1>3 DEF s

\* Three commands.
LEMMA AfterThree ==
  ASSUME NEW p \in Probe, NEW c \in Command, NEW d \in Command, NEW e \in Command
  PROVE  /\ <<c, d, e>> \in Seq(Command)
         /\ After(p, <<c, d, e>>) = Execute(Execute(Execute(p, c), d), e)
<1> DEFINE s == <<c, d, e>>
<1>1. s \in Seq(Command) /\ Len(s) = 3 /\ s[1] = c /\ s[2] = d /\ s[3] = e
  OBVIOUS
<1> HIDE DEF s
<1>2. PICK g : ScriptPath(g, p, s) /\ After(p, s) = g[3]
  BY <1>1, ScriptWalk
<1>3. g[0] = p /\ g[1] = Execute(g[0], c) /\ g[2] = Execute(g[1], d) /\ g[3] = Execute(g[2], e)
  BY <1>1, <1>2 DEF ScriptPath
<1> QED
  BY <1>1, <1>2, <1>3 DEF s

\* A scan of n bits that stays in the Shift state.
Scan(n) == SHIFT_DATA(n, FALSE)

\* The commands of the scripts.
LEMMA ScriptCommands ==
  /\ WRITE_TMS(<<1, 1, 1, 1, 1>>) \in Command /\ WRITE_TMS(<<0>>) \in Command
  /\ WRITE_TMS(<<1, 0>>) \in Command /\ WRITE_TMS(<<1, 0, 0>>) \in Command
  /\ WRITE_TMS(<<1, 1, 0>>) \in Command /\ WRITE_TMS(<<1, 1, 0, 0>>) \in Command
  /\ SHIFT_DATA(32, TRUE) \in Command /\ SHIFT_DATA(32, FALSE) \in Command
  /\ SHIFT_DATA(1024, FALSE) \in Command
<1>1. \A w \in Word : WRITE_TMS(w) \in Command
  BY DEF Command
<1>2. /\ <<1, 1, 1, 1, 1>> \in Word /\ <<0>> \in Word /\ <<1, 0>> \in Word
      /\ <<1, 0, 0>> \in Word /\ <<1, 1, 0>> \in Word /\ <<1, 1, 0, 0>> \in Word
  BY DEF Word
<1>3. \A n \in Nat \ {0} : Scan(n) \in Command
  BY Zenon DEF Command, Scan
<1>4. 32 \in Nat \ {0}
  OBVIOUS
<1>5. SHIFT_DATA(32, TRUE) \in Command
  BY <1>4, Zenon DEF Command
<1>6. SHIFT_DATA(32, FALSE) \in Command
  BY <1>4, Zenon DEF Command
<1>7. SHIFT_DATA(1024, FALSE) \in Command
  <2>1. Scan(1024) \in Command
    BY <1>3
  <2> QED
    BY <2>1, Zenon DEF Scan
<1> QED
  BY <1>1, <1>2, <1>5, <1>6, <1>7

\* From anywhere to Shift-DR,
LEMMA AfterToShiftDr ==
  ASSUME NEW t \in TapState, NEW b \in {0, 1}
  PROVE  ToShiftDr \in Seq(Command) /\ After(High(t, b), ToShiftDr) = High("SHIFT_DR", 0)
<1>1. {"RESET", "IDLE", "SHIFT_DR"} \subseteq TapState
  BY States
<1>2. Execute(High(t, b), WRITE_TMS(<<1, 1, 1, 1, 1>>)) = High("RESET", 1)
  BY ScriptWords, Executes
<1>3. Execute(High("RESET", 1), WRITE_TMS(<<0>>)) = High("IDLE", 0)
  <2>1. handle_write_tms(High("RESET", 1), <<0>>) = High(Target("RESET", 0), 0)
    BY <1>1, ScriptWords
  <2>2. Target("RESET", 0) = "IDLE"
    BY <1>1, OnZero
  <2>3. Execute(High("RESET", 1), WRITE_TMS(<<0>>)) = handle_write_tms(High("RESET", 1), <<0>>)
    BY Executes, Zenon
  <2> QED
    BY <2>1, <2>2, <2>3, Zenon
<1>4. Execute(High("IDLE", 0), WRITE_TMS(<<1, 0, 0>>)) = High("SHIFT_DR", 0)
  BY <1>1, ScriptWords, Executes, OnZero, OnOne
<1>5. High(t, b) \in Probe
  BY HighProbe
<1>6. /\ ToShiftDr \in Seq(Command)
      /\ After(High(t, b), ToShiftDr)
           = Execute(Execute(Execute(High(t, b), WRITE_TMS(<<1, 1, 1, 1, 1>>)), WRITE_TMS(<<0>>)),
                     WRITE_TMS(<<1, 0, 0>>))
  BY <1>5, ScriptCommands, AfterThree DEF ToShiftDr
<1> QED
  BY <1>2, <1>3, <1>4, <1>6

\* The script of the IDCODE.
IdCodeScript == ToShiftDr \o <<SHIFT_DATA(32, TRUE), WRITE_TMS(<<1, 0>>)>>

\* It ends in Run-Test/Idle from everywhere.
LEMMA AfterIdCode ==
  ASSUME NEW t \in TapState, NEW b \in {0, 1}
  PROVE  IdCodeScript \in Seq(Command) /\ After(High(t, b), IdCodeScript) = High("IDLE", 0)
<1> DEFINE c == SHIFT_DATA(32, TRUE)
           d == WRITE_TMS(<<1, 0>>)
<1>1. "SHIFT_DR" \in Shifting /\ "EXIT1_DR" \in TapState /\ "SHIFT_DR" \in TapState
  BY States DEF Shifting
<1>2. Execute(High("SHIFT_DR", 0), c) = High("EXIT1_DR", 1)
  <2>1. Execute(High("SHIFT_DR", 0), c) = jtag_bb_write_read_exit(High("SHIFT_DR", 0), 32, TRUE)
    BY Executes, Zenon
  <2>2. 32 \in Nat /\ 32 # 0
    OBVIOUS
  <2>3. jtag_bb_write_read_exit(High("SHIFT_DR", 0), 32, TRUE) = High(Target("SHIFT_DR", 1), 1)
    BY <1>1, <2>2, ShiftHigh, Zenon
  <2> QED
    BY <2>1, <2>3, OnOne, Zenon
<1>3. Execute(High("EXIT1_DR", 1), d) = High("IDLE", 0)
  BY <1>1, ScriptWords, Executes, OnZero, OnOne
<1>4. c \in Command /\ d \in Command
  BY ScriptCommands, Zenon
<1>5. IdCodeScript = ToShiftDr \o <<c, d>>
  BY Zenon DEF IdCodeScript
<1> HIDE DEF c, d
<1>6. High(t, b) \in Probe /\ High("SHIFT_DR", 0) \in Probe
  BY <1>1, HighProbe
<1>7. /\ <<c, d>> \in Seq(Command)
      /\ After(High("SHIFT_DR", 0), <<c, d>>) = Execute(Execute(High("SHIFT_DR", 0), c), d)
  BY <1>4, <1>6, AfterTwo
<1>8. /\ ToShiftDr \o <<c, d>> \in Seq(Command)
      /\ After(High(t, b), ToShiftDr \o <<c, d>>)
           = After(After(High(t, b), ToShiftDr), <<c, d>>)
  BY <1>6, <1>7, AfterToShiftDr, AfterBoth
<1> QED
  BY <1>2, <1>3, <1>5, <1>7, <1>8, AfterToShiftDr

\* The scripts of the chain.
CountScript == ToShiftDr \o <<SHIFT_DATA(32, FALSE), WRITE_TMS(<<1, 1, 0>>)>>
MeasureScript == <<WRITE_TMS(<<1, 1, 0, 0>>), SHIFT_DATA(1024, FALSE)>>
                   \o [i \in 1..4 |-> SHIFT_DATA(1, FALSE)]
                   \o <<WRITE_TMS(<<1, 1, 0>>)>>

\* The first ends in Run-Test/Idle from everywhere,
LEMMA AfterCount ==
  ASSUME NEW t \in TapState, NEW b \in {0, 1}
  PROVE  CountScript \in Seq(Command) /\ After(High(t, b), CountScript) = High("IDLE", 0)
<1> DEFINE c == SHIFT_DATA(32, FALSE)
           d == WRITE_TMS(<<1, 1, 0>>)
<1>1. "SHIFT_DR" \in Shifting /\ "SHIFT_DR" \in TapState
  BY States DEF Shifting
<1>2. Execute(High("SHIFT_DR", 0), c) = High("SHIFT_DR", 0)
  <2>1. Execute(High("SHIFT_DR", 0), c) = jtag_bb_write_read_exit(High("SHIFT_DR", 0), 32, FALSE)
    BY Executes, Zenon
  <2>2. 32 \in Nat /\ 32 # 0
    OBVIOUS
  <2> QED
    BY <1>1, <2>1, <2>2, ShiftHigh, Zenon
<1>3. Execute(High("SHIFT_DR", 0), d) = High("IDLE", 0)
  BY <1>1, ScriptWords, Executes, OnZero, OnOne
<1>4. c \in Command /\ d \in Command
  BY ScriptCommands, Zenon
<1>5. CountScript = ToShiftDr \o <<c, d>>
  BY Zenon DEF CountScript
<1> HIDE DEF c, d
<1>6. High(t, b) \in Probe /\ High("SHIFT_DR", 0) \in Probe
  BY <1>1, HighProbe
<1>7. /\ <<c, d>> \in Seq(Command)
      /\ After(High("SHIFT_DR", 0), <<c, d>>) = Execute(Execute(High("SHIFT_DR", 0), c), d)
  BY <1>4, <1>6, AfterTwo
<1>8. /\ ToShiftDr \o <<c, d>> \in Seq(Command)
      /\ After(High(t, b), ToShiftDr \o <<c, d>>)
           = After(After(High(t, b), ToShiftDr), <<c, d>>)
  BY <1>6, <1>7, AfterToShiftDr, AfterBoth
<1> QED
  BY <1>2, <1>3, <1>5, <1>7, <1>8, AfterToShiftDr

\* the second from there.
LEMMA AfterMeasure ==
  MeasureScript \in Seq(Command) /\ After(High("IDLE", 0), MeasureScript) = High("IDLE", 0)
<1> DEFINE c == WRITE_TMS(<<1, 1, 0, 0>>)
           d == SHIFT_DATA(1024, FALSE)
           e == WRITE_TMS(<<1, 1, 0>>)
           ones == [i \in 1..4 |-> OneBit]
           at == High("SHIFT_IR", 0)
<1>1. "SHIFT_IR" \in Shifting /\ "SHIFT_IR" \in TapState /\ "IDLE" \in TapState
  BY States DEF Shifting
<1>2. Execute(High("IDLE", 0), c) = at
  BY <1>1, ScriptWords, Executes, OnZero, OnOne
<1>3. Execute(at, d) = at
  <2>1. \A n \in Nat : n # 0 => Execute(at, Scan(n)) = at
    <3>1. \A n : Execute(at, Scan(n)) = jtag_bb_write_read_exit(at, n, FALSE)
      BY Executes, Zenon DEF Scan
    <3> QED
      BY <1>1, <3>1, ShiftHigh, Zenon
  <2>2. 1024 \in Nat /\ 1024 # 0
    OBVIOUS
  <2>3. Execute(at, Scan(1024)) = at
    <3> HIDE DEF at
    <3> QED
      BY <2>1, <2>2
  <2> QED
    BY <2>3, Zenon DEF Scan
<1>4. Execute(at, OneBit) = at
  <2>1. at \in Probe /\ at.trst = 1 /\ at.tap = "SHIFT_IR" /\ at.tms = 0
    BY <1>1, HighProbe
  <2>2. Pulse(at) = [tap |-> Target("SHIFT_IR", 0), tms |-> 0, trst |-> 1]
    <3> HIDE DEF at
    <3> QED
      BY <2>1, PulseHigh
  <2>3. Pulse(at) = at
    BY <2>2, OnZero DEF High
  <2> HIDE DEF at
  <2> QED
    BY <2>1, <2>3, OneBitIs
<1>5. Execute(at, e) = High("IDLE", 0)
  BY <1>1, ScriptWords, Executes, OnZero, OnOne
<1>6. c \in Command /\ d \in Command /\ e \in Command /\ OneBit \in Command
  BY ScriptCommands, OneBitIs, Zenon
<1>7. MeasureScript = (<<c, d>> \o ones) \o <<e>>
  BY Zenon DEF MeasureScript, OneBit
<1>8. at \in Probe /\ High("IDLE", 0) \in Probe
  BY <1>1, HighProbe
<1> HIDE DEF c, d, e, at
<1>9. <<c, d>> \in Seq(Command) /\ After(High("IDLE", 0), <<c, d>>) = at
  BY <1>2, <1>3, <1>6, <1>8, AfterTwo
<1>10. ones \in Seq(Command) /\ After(at, ones) = at
  <2>1. ones \in Seq(Command) /\ Len(ones) = 4 /\ \A k \in 1..4 : ones[k] = OneBit
    BY <1>6
  <2> HIDE DEF ones
  <2>2. PICK g : ScriptPath(g, at, ones) /\ After(at, ones) = g[4]
    BY <1>8, <2>1, ScriptWalk
  <2>3. g[0] = at /\ \A k \in 1..4 : g[k] = Execute(g[k - 1], OneBit)
    BY <2>1, <2>2 DEF ScriptPath
  <2>4. g[1] = at
    BY <1>4, <2>3
  <2>5. g[2] = at
    BY <1>4, <2>3, <2>4
  <2>6. g[3] = at
    BY <1>4, <2>3, <2>5
  <2>7. g[4] = at
    BY <1>4, <2>3, <2>6
  <2> QED
    BY <2>1, <2>2, <2>7
<1>11. <<e>> \in Seq(Command) /\ After(at, <<e>>) = High("IDLE", 0)
  BY <1>5, <1>6, <1>8, AfterOne
<1> HIDE DEF ones
<1>12. /\ <<c, d>> \o ones \in Seq(Command)
       /\ After(High("IDLE", 0), <<c, d>> \o ones) = at
  BY <1>8, <1>9, <1>10, AfterBoth
<1>13. /\ (<<c, d>> \o ones) \o <<e>> \in Seq(Command)
       /\ After(High("IDLE", 0), (<<c, d>> \o ones) \o <<e>>) = High("IDLE", 0)
  BY <1>8, <1>11, <1>12, AfterBoth
<1> QED
  BY <1>7, <1>13

\* The scripts themselves, and what the calls made of them leave.
LEMMA Scripts ==
  /\ IdCodeScript \in Seq(Command)
  /\ CountScript \in Seq(Command) /\ MeasureScript \in Seq(Command)
  /\ CountScript \o << >> \in Seq(Command) /\ CountScript \o MeasureScript \in Seq(Command)
<1>1. "RESET" \in TapState /\ 0 \in {0, 1}
  BY States
<1>2. High("RESET", 0) \in Probe
  BY <1>1, HighProbe
<1>3. IdCodeScript \in Seq(Command) /\ CountScript \in Seq(Command)
  BY <1>1, AfterIdCode, AfterCount
<1>4. << >> \in Seq(Command)
  OBVIOUS
<1> QED
  BY <1>2, <1>3, <1>4, AfterMeasure, AfterBoth

\* What GetId may come to.
LEMMA GetIdOutcome == ASSUME NEW p \in Probe, NEW o \in jtag_read_idcode[p]
                      PROVE  o \in WhateverFails(p, IdCodeScript)
  BY Zenon DEF jtag_read_idcode, IdCodeScript

\* What GetIdChain may come to.
LEMMA ChainOutcome ==
  ASSUME NEW p \in Probe, NEW o \in jtag_scan_chain[p]
  PROVE  \/ o \in WhateverFails(p, CountScript \o << >>)
         \/ o \in WhateverFails(p, CountScript \o MeasureScript)
<1>1. jtag_scan_chain[p] = UNION {WhateverFails(p, CountScript \o measure) :
                                    measure \in {<< >>, MeasureScript}}
  BY ZenonT(30) DEF jtag_scan_chain, CountScript, MeasureScript
<1>2. PICK measure \in {<< >>, MeasureScript} : o \in WhateverFails(p, CountScript \o measure)
  BY <1>1, Zenon
<1> QED
  BY <1>2, Zenon

\* Five ones and a zero.
LEMMA ResetType == ASSUME NEW p \in Probe PROVE jtag_tap_reset(p) \in Probe
<1>1. Pulses(jtag_tap_set_tms(p, 1), 5) \in Probe
  BY PulseType, PulsesType
<1>2. Pulses(jtag_tap_set_tms(Pulses(jtag_tap_set_tms(p, 1), 5), 0), 1) \in Probe
  BY <1>1, PulseType, PulsesType
<1> QED
  BY <1>2 DEF jtag_tap_reset

\* They lead to Run-Test/Idle.
LEMMA ResetHigh == ASSUME NEW t \in TapState, NEW b \in {0, 1}
                   PROVE  jtag_tap_reset(High(t, b)) = High("IDLE", 0)
<1>1. High(t, b) \in Probe /\ High(t, b).trst = 1 /\ High(t, b).tap = t
  BY HighProbe
<1>2. jtag_tap_set_tms(High(t, b), 1) = High(t, 1)
  BY <1>1, PulseHigh DEF High
<1>3. ASSUME NEW s \in TapState, NEW c \in {0, 1}
      PROVE  Pulse(High(s, c)) = High(Target(s, c), c) /\ Target(s, c) \in TapState
  <2>1. High(s, c) \in Probe /\ High(s, c).trst = 1 /\ High(s, c).tap = s /\ High(s, c).tms = c
    BY HighProbe
  <2> QED
    BY <2>1, PulseHigh, SameTable DEF High
<1>4. Pulses(High(t, 1), 5) = High("RESET", 1)
  <2>1. PICK g : FivePulses(g, High(t, 1))
                 /\ \A n \in Nat : Pulses(High(t, 1), n) = g[IF n > 5 THEN 5 ELSE n]
    BY HighProbe, PulsesAre
  <2>2. Pulses(High(t, 1), 5) = g[5]
    BY <2>1
  <2>3. /\ g[0] = High(t, 1) /\ g[1] = Pulse(g[0]) /\ g[2] = Pulse(g[1])
        /\ g[3] = Pulse(g[2]) /\ g[4] = Pulse(g[3]) /\ g[5] = Pulse(g[4])
    BY <2>1 DEF FivePulses
  <2>4. g[1] = High(Target(t, 1), 1) /\ Target(t, 1) \in TapState
    BY <1>3, <2>3
  <2>5. g[2] = High(Target(Target(t, 1), 1), 1) /\ Target(Target(t, 1), 1) \in TapState
    BY <1>3, <2>3, <2>4
  <2>6. /\ g[3] = High(Target(Target(Target(t, 1), 1), 1), 1)
        /\ Target(Target(Target(t, 1), 1), 1) \in TapState
    BY <1>3, <2>3, <2>5
  <2>7. /\ g[4] = High(Target(Target(Target(Target(t, 1), 1), 1), 1), 1)
        /\ Target(Target(Target(Target(t, 1), 1), 1), 1) \in TapState
    BY <1>3, <2>3, <2>6
  <2>8. g[5] = High(Target(Target(Target(Target(Target(t, 1), 1), 1), 1), 1), 1)
    BY <1>3, <2>3, <2>7
  <2> QED
    BY <2>2, <2>8, FiveOnes
<1>5. "RESET" \in TapState
  BY States
<1>6. jtag_tap_set_tms(High("RESET", 1), 0) = High("RESET", 0)
  <2>1. High("RESET", 1) \in Probe /\ High("RESET", 1).trst = 1 /\ High("RESET", 1).tap = "RESET"
    BY <1>5, HighProbe
  <2> QED
    BY <2>1, PulseHigh DEF High
<1>7. Pulses(High("RESET", 0), 1) = High("IDLE", 0)
  <2>1. PICK g : FivePulses(g, High("RESET", 0))
                 /\ \A n \in Nat : Pulses(High("RESET", 0), n) = g[IF n > 5 THEN 5 ELSE n]
    BY <1>5, HighProbe, PulsesAre
  <2>2. Pulses(High("RESET", 0), 1) = g[1] /\ g[1] = Pulse(g[0]) /\ g[0] = High("RESET", 0)
    BY <2>1 DEF FivePulses
  <2>3. Pulse(High("RESET", 0)) = High("IDLE", 0)
    BY <1>3, <1>5, OnZero
  <2> QED
    BY <2>2, <2>3
<1> QED
  BY <1>2, <1>4, <1>6, <1>7 DEF jtag_tap_reset

\* What Reset may come to.
LEMMA ResetOutcome == ASSUME NEW p \in Probe, NEW o \in ResetTap(p)
                      PROVE  /\ o.p \in Probe /\ o.ok \in BOOLEAN
                             /\ o.ok => o.p = jtag_tap_reset(p)
<1>1. jtag_tap_reset(p) \in Probe
  BY ResetType
<1>2. \/ o = [p |-> jtag_tap_reset(p), ok |-> TRUE]
      \/ o = [p |-> jtag_tap_reset(p), ok |-> FALSE]
      \/ o = [p |-> p, ok |-> FALSE]
  BY Zenon DEF ResetTap
<1>3. CASE o = [p |-> jtag_tap_reset(p), ok |-> TRUE]
  BY <1>1, <1>3
<1>4. CASE o = [p |-> jtag_tap_reset(p), ok |-> FALSE]
  BY <1>1, <1>4
<1>5. CASE o = [p |-> p, ok |-> FALSE]
  BY <1>5
<1> QED
  BY <1>2, <1>3, <1>4, <1>5

\* Every state of the pins with nTRST high is on its way home.
LEMMA HomeFromAnywhere == TypeOK => Home
<1> SUFFICES ASSUME TypeOK, probe.trst = 1,
                    NEW o \in ResetTap(probe) \union jtag_read_idcode[probe]
                                \union jtag_scan_chain[probe],
                    o.ok
             PROVE  o.p.tap = "IDLE" /\ o.p.tms = 0
  BY DEF Home
<1>1. probe \in Probe
  BY DEF TypeOK
<1>2. PICK t \in TapState, b \in {0, 1} : probe = High(t, b)
  BY <1>1, HighProbe
<1>3. "IDLE" \in TapState /\ High("IDLE", 0) \in Probe
  BY States, HighProbe
<1>4. o.p = High("IDLE", 0)
  <2>1. CASE o \in ResetTap(probe)
    BY <1>1, <1>2, <2>1, ResetOutcome, ResetHigh
  <2>2. CASE o \in jtag_read_idcode[probe]
    <3>1. o \in WhateverFails(probe, IdCodeScript)
      BY <1>1, <2>2, GetIdOutcome
    <3>2. o.p = After(probe, IdCodeScript)
      BY <1>1, <3>1, Scripts, WhateverType
    <3> QED
      BY <1>2, <3>2, AfterIdCode
  <2>3. CASE o \in jtag_scan_chain[probe]
    <3>1. After(probe, CountScript) = High("IDLE", 0)
      BY <1>2, AfterCount
    <3>2. CASE o \in WhateverFails(probe, CountScript \o << >>)
      <4>1. o.p = After(probe, CountScript \o << >>)
        BY <1>1, <3>2, Scripts, WhateverType
      <4>2. << >> \in Seq(Command)
        OBVIOUS
      <4>3. After(probe, CountScript \o << >>) = After(After(probe, CountScript), << >>)
        <5>1. CountScript \in Seq(Command)
          BY Scripts
        <5>2. PICK none \in Seq(Command) : none = << >>
          BY <4>2
        <5>3. After(probe, CountScript \o none) = After(After(probe, CountScript), none)
          BY <1>1, <5>1, AfterBoth
        <5> QED
          BY <5>2, <5>3
      <4> QED
        BY <1>3, <3>1, <4>1, <4>3, AfterNone
    <3>3. CASE o \in WhateverFails(probe, CountScript \o MeasureScript)
      <4>1. o.p = After(probe, CountScript \o MeasureScript)
        BY <1>1, <3>3, Scripts, WhateverType
      <4>2. After(probe, CountScript \o MeasureScript) = After(High("IDLE", 0), MeasureScript)
        BY <1>1, <3>1, Scripts, AfterBoth
      <4> QED
        BY <4>1, <4>2, AfterMeasure
    <3> QED
      BY <1>1, <2>3, <3>2, <3>3, ChainOutcome
  <2> QED
    BY <2>1, <2>2, <2>3
<1> QED
  BY <1>3, <1>4, HighProbe

----------------------------------------------------------------------------
(* The steps *)

\* A step after which the caller is entitled to no agreement has only to keep the types.
LEMMA Untrusted ==
  ASSUME RawInv, probe' \in Probe, is_open' \in BOOLEAN, ok' \in BOOLEAN, s_state' \in TapState,
         UNCHANGED devs, trust' \in Trust, trust' \notin {"agree", "homed"}
  PROVE  RawInv'
<1>1. TypeOK'
  BY DEF RawInv, TypeOK
<1> QED
  BY <1>1 DEF RawInv, Agree

\* What a call completes with.
LEMMA CompletesWith ==
  ASSUME NEW S, Completes(S)
  PROVE  \E o \in S : probe' = o.p /\ ok' = o.ok
  BY DEF Completes

\* The outcomes of an unpadded call.
LEMMA DirectIs == ASSUME NEW p \in Probe, NEW w \in Words
                  PROVE  Direct[p][w] = RawOutcomes(p, w)
  BY Zenon DEF Direct, RawOutcomes

\* The words of the callers are words.
LEMMA WordsAre == ASSUME NEW w \in Words PROVE w \in Word
  BY WordsAssumption DEF Word

\* A raw call that pads nothing.
LEMMA StepRaw == ASSUME RawInv, NEW w \in Words, StoreRaw(w) \/ StoreGetRaw(w)
                 PROVE  RawInv'
<1>1. probe \in Probe /\ w \in Word
  BY WordsAre DEF RawInv, TypeOK
<1>2. PICK o \in RawOutcomes(probe, w) : probe' = o.p /\ ok' = o.ok
  <2>1. Completes(Direct[probe][w])
    BY DEF StoreRaw, StoreGetRaw
  <2> QED
    BY <1>1, <2>1, CompletesWith, DirectIs
<1>3. /\ s_state' = tap_track_tms(s_state, w) /\ trust' = TrustAfterRaw(w)
      /\ UNCHANGED <<is_open, devs>>
  BY DEF StoreRaw, StoreGetRaw
<1> QED
  BY <1>1, <1>2, <1>3, RawStep

\* Padding adds bits.
LEMMA PaddingIsNat == ASSUME RawInv, Bypass PROVE Padding \in Nat
<1>1. devs.count \in Nat /\ devs.count > 1
  <2>1. devs.count \in Devices \union {0}
    BY DEF RawInv, TypeOK
  <2>2. Devices \subseteq Nat
    BY WordsAssumption
  <2>3. devs.count \in Nat
    <3>1. 0 \in Nat
      OBVIOUS
    <3> QED
      BY <2>1, <2>2, <3>1, Zenon
  <2> QED
    BY <2>3 DEF Bypass
<1>2. PICK c \in Nat : c = devs.count - 1
  BY <1>1
<1>3. IRLen \in Nat
  BY WordsAssumption
<1>4. c * IRLen \in Nat
  BY <1>2, <1>3
<1> QED
  BY <1>2, <1>4, Zenon DEF Padding

\* What is padded is a word too, and its shift is the shift of that word.
LEMMA PaddedWordIs ==
  ASSUME RawInv, NEW w \in Word, w # << >>, Bypass,
         NEW o \in jtag_shift_data(probe, Len(w) + Padding, classify_tms(w) = "NAV_ONLY")
  PROVE  PaddedWord(w) \in Word /\ o \in RawOutcomes(probe, PaddedWord(w))
<1>1. Padding \in Nat
  BY PaddingIsNat
<1>2. PICK n \in Nat : n = Len(w) + Padding /\ n # 0
  <2>1. Len(w) \in Nat /\ Len(w) # 0
    BY DEF Word
  <2> QED
    BY <1>1, <2>1
<1>3. CASE classify_tms(w) = "NAV_ONLY"
  <2> DEFINE zeros == [i \in 1..(n - 1) |-> 0]
             v == Append(zeros, 1)
  <2>1. PaddedWord(w) = v
    BY <1>2, <1>3, Zenon DEF PaddedWord, Zeros
  <2>2. v \in Word /\ Len(v) = n /\ v[n] = 1 /\ \A i \in 1..(n - 1) : v[i] = 0
    <3>1. zeros \in Seq({0, 1}) /\ Len(zeros) = n - 1 /\ \A i \in 1..(n - 1) : zeros[i] = 0
      BY <1>2
    <3> HIDE DEF zeros
    <3> QED
      BY <1>2, <3>1 DEF Word
  <2> HIDE DEF v
  <2>3. classify_tms(v) = "NAV_ONLY"
    <3>1. n \in 1..n /\ v[n] # 0
      BY <1>2, <2>2
    <3>2. \A i \in 1..n : (v[i] = 1) <=> (i = n)
      <4> TAKE i \in 1..n
      <4>1. CASE i = n
        BY <2>2, <4>1
      <4>2. CASE i # n
        <5>1. i \in 1..(n - 1)
          BY <4>2
        <5> QED
          BY <2>2, <4>2, <5>1
      <4> QED
        BY <4>1, <4>2
    <3> QED
      BY <2>2, <3>1, <3>2 DEF classify_tms
  <2>4. RawOutcomes(probe, v) = jtag_shift_data(probe, n, TRUE)
    <3>1. classify_tms(v) # "MIXED" /\ (classify_tms(v) = "NAV_ONLY") = TRUE
      BY <2>3
    <3> QED
      BY <2>2, <3>1, Zenon DEF RawOutcomes
  <2>5. o \in jtag_shift_data(probe, n, TRUE)
    <3>1. (classify_tms(w) = "NAV_ONLY") = TRUE
      BY <1>3
    <3> QED
      BY <1>2, <3>1
  <2> QED
    BY <2>1, <2>2, <2>4, <2>5
<1>4. CASE classify_tms(w) # "NAV_ONLY"
  <2> DEFINE v == [i \in 1..n |-> 0]
  <2>1. PaddedWord(w) = v
    BY <1>2, <1>4, Zenon DEF PaddedWord, Zeros
  <2>2. v \in Word /\ Len(v) = n /\ \A i \in 1..n : v[i] = 0
    BY <1>2 DEF Word
  <2> HIDE DEF v
  <2>3. classify_tms(v) = "ALL_ZERO"
    BY <2>2 DEF classify_tms
  <2>4. RawOutcomes(probe, v) = jtag_shift_data(probe, n, FALSE)
    <3>1. classify_tms(v) # "MIXED" /\ (classify_tms(v) = "NAV_ONLY") = FALSE
      BY <2>3
    <3> QED
      BY <2>2, <3>1, Zenon DEF RawOutcomes
  <2>5. o \in jtag_shift_data(probe, n, FALSE)
    <3>1. (classify_tms(w) = "NAV_ONLY") = FALSE
      BY <1>4
    <3> QED
      BY <1>2, <3>1
  <2> QED
    BY <2>1, <2>2, <2>4, <2>5
<1> QED
  BY <1>3, <1>4

\* A raw call that pads.
LEMMA StepPadded == ASSUME RawInv, NEW w \in Words, StoreGetRawPadded(w)
                    PROVE  RawInv'
<1>1. w \in Word /\ w # << >> /\ Bypass
  BY WordsAre DEF StoreGetRawPadded
<1>2. PICK o \in jtag_shift_data(probe, Len(w) + Padding, classify_tms(w) = "NAV_ONLY") :
         probe' = o.p /\ ok' = o.ok
  BY CompletesWith DEF StoreGetRawPadded
<1>3. /\ s_state' = tap_track_tms(s_state, PaddedWord(w)) /\ trust' = TrustAfterRaw(PaddedWord(w))
      /\ UNCHANGED <<is_open, devs>>
  BY DEF StoreGetRawPadded
<1>4. PaddedWord(w) \in Word /\ o \in RawOutcomes(probe, PaddedWord(w))
  BY <1>1, <1>2, PaddedWordIs
<1> QED
  BY <1>2, <1>3, <1>4, RawStep

\* A reader of words leaves a TAP that is shifting.
LEMMA StepBits == ASSUME RawInv, NEW n \in {8, 16, 32}, ShiftBits(n)
                  PROVE  RawInv'
<1>1. probe \in Probe /\ n \in Nat /\ n # 0
  BY DEF RawInv, TypeOK
<1>2. PICK o \in jtag_shift_data(probe, n, FALSE) : probe' = o.p /\ ok' = o.ok
  BY CompletesWith DEF ShiftBits
<1>3. o.ok \in BOOLEAN /\ (o.p = probe \/ o.p = jtag_bb_write_read_exit(probe, n, FALSE))
  <2>1. FALSE \in BOOLEAN
    OBVIOUS
  <2> QED
    BY <1>1, <1>2, <2>1, ShiftOutcome, Zenon
<1>4. UNCHANGED <<is_open, s_state, devs>>
      /\ trust' = IF trust = "homed" \/ (trust = "agree" /\ s_state \in Shifting)
                  THEN trust ELSE "none"
  BY DEF ShiftBits
<1>5. CASE trust = "homed" \/ (trust = "agree" /\ s_state \in Shifting)
  <2>1. probe.trst = 1 /\ probe.tap \in Shifting \union {"IDLE"} /\ probe.tms = 0
    BY <1>5 DEF RawInv, Agree
  <2>2. probe = High(probe.tap, 0)
    BY <1>1, <2>1, HighProbe
  <2>3. jtag_bb_write_read_exit(probe, n, FALSE) = probe
    BY <1>1, <2>1, <2>2, ShiftHigh
  <2>4. probe' = probe /\ trust' = trust /\ ok' \in BOOLEAN
    BY <1>2, <1>3, <1>4, <1>5, <2>3
  <2> QED
    BY <1>4, <2>4 DEF RawInv, TypeOK, Agree
<1>6. CASE ~(trust = "homed" \/ (trust = "agree" /\ s_state \in Shifting))
  <2>1. probe' \in Probe
    <3>1. jtag_bb_write_read_exit(probe, n, FALSE) \in Probe
      BY <1>1, ShiftType
    <3> QED
      BY <1>1, <1>2, <1>3, <3>1
  <2>2. trust' = "none" /\ ok' \in BOOLEAN
    BY <1>2, <1>3, <1>4, <1>6
  <2>3. is_open' \in BOOLEAN /\ s_state' \in TapState
    BY <1>4 DEF RawInv, TypeOK
  <2> QED
    BY <1>4, <2>1, <2>2, <2>3, Untrusted DEF Trust
<1> QED
  BY <1>5, <1>6

\* Reset leaves the tracker one zero behind, or vouches for nothing.
LEMMA StepReset == ASSUME RawInv, JLINKARM_Reset
                   PROVE  RawInv'
<1>1. probe \in Probe
  BY DEF RawInv, TypeOK
<1>2. PICK o \in ResetTap(probe) : probe' = o.p /\ ok' = o.ok
  BY CompletesWith DEF JLINKARM_Reset
<1>3. probe' \in Probe /\ ok' \in BOOLEAN
  BY <1>1, <1>2, ResetOutcome
<1>4. /\ trust' = (IF ok' /\ probe.trst = 1 THEN "homed" ELSE "none")
      /\ s_state' = "RESET" /\ s_state' \in TapState
  BY States DEF JLINKARM_Reset
<1>5. is_open' \in BOOLEAN /\ UNCHANGED devs
  BY DEF JLINKARM_Reset, RawInv, TypeOK
<1>6. CASE ok' /\ probe.trst = 1
  <2>1. o.p = jtag_tap_reset(probe)
    BY <1>1, <1>2, <1>6, ResetOutcome
  <2>2. PICK t \in TapState, b \in {0, 1} : probe = High(t, b)
    <3>1. probe.tap \in TapState /\ probe.tms \in {0, 1}
      BY <1>1 DEF Probe
    <3> QED
      BY <1>1, <1>6, <3>1, HighProbe
  <2>3. probe' = High("IDLE", 0)
    BY <1>2, <2>1, <2>2, ResetHigh
  <2>4. probe'.tap = "IDLE" /\ probe'.tms = 0 /\ probe'.trst = 1
    BY <2>3 DEF High
  <2>5. trust' = "homed" /\ trust' \in Trust
    BY <1>4, <1>6 DEF Trust
  <2>6. TypeOK'
    BY <1>3, <1>4, <1>5, <2>5 DEF TypeOK, RawInv
  <2> QED
    BY <1>4, <2>4, <2>5, <2>6 DEF RawInv, Agree
<1>7. CASE ~(ok' /\ probe.trst = 1)
  BY <1>3, <1>4, <1>5, <1>7, Untrusted DEF Trust
<1> QED
  BY <1>6, <1>7

\* Nor do GetId and GetIdChain.
LEMMA StepIds == ASSUME RawInv, JTAG_GetId \/ JTAG_GetIdChain
                 PROVE  RawInv'
<1>1. probe \in Probe
  BY DEF RawInv, TypeOK
<1>2. PICK s \in Seq(Command) : \E o \in WhateverFails(probe, s) : probe' = o.p /\ ok' = o.ok
  <2>1. CASE JTAG_GetId
    <3>1. PICK o \in jtag_read_idcode[probe] : probe' = o.p /\ ok' = o.ok
      BY <2>1, CompletesWith DEF JTAG_GetId
    <3> QED
      BY <1>1, <3>1, GetIdOutcome, Scripts
  <2>2. CASE JTAG_GetIdChain
    <3>1. PICK o \in jtag_scan_chain[probe] : probe' = o.p /\ ok' = o.ok
      BY <2>2, CompletesWith DEF JTAG_GetIdChain
    <3> QED
      BY <1>1, <3>1, ChainOutcome, Scripts
  <2> QED
    BY <2>1, <2>2
<1>3. probe' \in Probe /\ ok' \in BOOLEAN
  BY <1>1, <1>2, WhateverType
<1>4. trust' = "none" /\ UNCHANGED <<is_open, s_state, devs>>
  BY DEF JTAG_GetId, JTAG_GetIdChain
<1>5. is_open' \in BOOLEAN /\ s_state' \in TapState
  BY <1>4 DEF RawInv, TypeOK
<1> QED
  BY <1>3, <1>4, <1>5, Untrusted DEF Trust

\* Nor does a SetTRST that changes the pin.
LEMMA StepTRST == ASSUME RawInv, NEW level \in {0, 1}, SetTRST(level)
                  PROVE  RawInv'
<1>1. probe \in Probe /\ handle_set_trst(probe, level) \in Probe
  BY PulseType DEF RawInv, TypeOK
<1>2. probe' \in Probe /\ ok' \in BOOLEAN
  BY <1>1 DEF SetTRST
<1>3. UNCHANGED <<is_open, s_state, devs>> /\ is_open' \in BOOLEAN /\ s_state' \in TapState
  BY DEF SetTRST, RawInv, TypeOK
<1>4. CASE probe' = probe
  <2>1. trust' = trust
    BY <1>4 DEF SetTRST
  <2> QED
    BY <1>2, <1>3, <1>4, <2>1 DEF RawInv, TypeOK, Agree
<1>5. CASE probe' # probe
  <2>1. trust' = "none"
    BY <1>5 DEF SetTRST
  <2> QED
    BY <1>2, <1>3, <2>1, Untrusted DEF Trust
<1> QED
  BY <1>4, <1>5

\* Nor does what happens while the port is free.
LEMMA StepElsewhere == ASSUME RawInv, Elsewhere
                       PROVE  RawInv'
<1>1. probe \in Probe /\ probe.tap \in TapState /\ "RESET" \in TapState
  BY States DEF RawInv, TypeOK, Probe
<1>2. jtag_bb_init(probe.tap) \in Probe /\ [probe EXCEPT !.tap = "RESET"] \in Probe
  BY <1>1 DEF jtag_bb_init, Probe
<1>3. jtag_bb_read_idcode(probe) \in Probe
  <2>1. <<1, 1, 1, 1, 1, 1, 0, 1, 0, 0>> \in Word
    BY DEF Word
  <2>2. handle_write_tms(probe, <<1, 1, 1, 1, 1, 1, 0, 1, 0, 0>>) \in Probe
    BY <1>1, <2>1, WriteType
  <2> QED
    BY <2>2, PulsesType DEF jtag_bb_read_idcode
<1>4. probe' \in Probe
  BY <1>1, <1>2, <1>3, ResetType DEF Elsewhere
<1>5. trust' = "none" /\ UNCHANGED <<is_open, s_state, devs, ok>>
  BY DEF Elsewhere
<1>6. is_open' \in BOOLEAN /\ s_state' \in TapState /\ ok' \in BOOLEAN
  BY <1>5 DEF RawInv, TypeOK
<1> QED
  BY <1>4, <1>5, <1>6, Untrusted DEF Trust

\* A call that leaves the pins and the tracker.
LEMMA StepAside ==
  ASSUME RawInv,
         \/ \E n \in Devices, known \in BOOLEAN : SetDeviceList(n, known)
         \/ OpenEx \/ Close
  PROVE  RawInv'
<1>1. UNCHANGED <<probe, s_state, ok, trust>>
  BY DEF SetDeviceList, OpenEx, Close
<1>2. CASE \E n \in Devices, known \in BOOLEAN : SetDeviceList(n, known)
  BY <1>1, <1>2 DEF SetDeviceList, RawInv, TypeOK, Agree
<1>3. CASE OpenEx \/ Close
  BY <1>1, <1>3 DEF OpenEx, Close, RawInv, TypeOK, Agree
<1> QED
  BY <1>2, <1>3

----------------------------------------------------------------------------
(* The theorems *)

\* RawInv is inductive: the probe's pins and the tracker keep their types and, while the
\* caller is entitled to it, their agreement.
THEOREM RawInvariant == Spec => []RawInv
<1>1. Init => RawInv
  <2> SUFFICES ASSUME Init PROVE RawInv
    OBVIOUS
  <2>1. probe \in Probe
    BY DEF Init, jtag_bb_init, Probe
  <2> QED
    BY <2>1, States DEF Init, RawInv, TypeOK, Agree, Trust
<1>2. RawInv /\ [Next]_vars => RawInv'
  <2> SUFFICES ASSUME RawInv, [Next]_vars PROVE RawInv'
    OBVIOUS
  <2>1. ASSUME NEW w \in Words, StoreRaw(w) \/ StoreGetRaw(w) PROVE RawInv'
    BY <2>1, StepRaw
  <2>2. ASSUME NEW w \in Words, StoreGetRawPadded(w) PROVE RawInv'
    BY <2>2, StepPadded
  <2>3. ASSUME NEW n \in {8, 16, 32}, ShiftBits(n) PROVE RawInv'
    BY <2>3, StepBits
  <2>4. CASE JLINKARM_Reset
    BY <2>4, StepReset
  <2>5. CASE JTAG_GetId \/ JTAG_GetIdChain
    BY <2>5, StepIds
  <2>6. ASSUME NEW level \in {0, 1}, SetTRST(level) PROVE RawInv'
    BY <2>6, StepTRST
  <2>7. CASE \/ \E n \in Devices, known \in BOOLEAN : SetDeviceList(n, known)
             \/ OpenEx \/ Close
    BY <2>7, StepAside
  <2>8. CASE Elsewhere
    BY <2>8, StepElsewhere
  <2>9. CASE UNCHANGED vars
    BY <2>9 DEF vars, RawInv, TypeOK, Agree
  <2> QED
    BY <2>1, <2>2, <2>3, <2>4, <2>5, <2>6, <2>7, <2>8, <2>9 DEF Next
<1> QED
  BY <1>1, <1>2, PTL DEF Spec

\* Every variable keeps its type, whatever words are used and however long they are.
THEOREM RawTypeCorrect == Spec => []TypeOK
<1>1. RawInv => TypeOK
  BY DEF RawInv
<1> QED
  BY <1>1, RawInvariant, PTL

\* Agree, for every set of words, every number of devices and every IR length: the
\* tracker is on the target's TAP after five ones, or a zero after JLINKARM_Reset,
\* until a call fails, a shift is asked for zeros with TMS high, or a call is made of
\* which the tracker does not hear (jlink_api.c, jtag_bb.c).
THEOREM AgreeHolds == Spec => []Agree
<1>1. RawInv => Agree
  BY DEF RawInv
<1> QED
  BY <1>1, RawInvariant, PTL

\* RawWalk: whatever class the DLL puts a word into, and however long it is, the call that
\* succeeds takes the TAP where the diagram of the standard leads from there by the bits
\* that are clocked: the caller's, but that a shift's zeros are at the level of TMS.
THEOREM RawWalkHolds == Spec => []RawWalk
<1>1. TypeOK => RawWalk
  <2> DEFINE Bits(w) == Clocked(probe, w)
  <2> SUFFICES ASSUME TypeOK, NEW w \in Words, probe.trst = 1, NEW o \in Direct[probe][w], o.ok
               PROVE  /\ o.p.tap = Walk(Target, probe.tap, Bits(w))
                      /\ o.p.tms = (IF Bits(w) = << >> THEN probe.tms ELSE Bits(w)[Len(Bits(w))])
    BY Zenon DEF RawWalk
  <2>1. probe \in Probe /\ probe.tap \in TapState /\ w \in Word
    BY WordsAre DEF TypeOK, Probe
  <2> DEFINE v == Clocked(probe, w)
  <2>2. v \in Word
    BY <2>1, ClockedIs
  <2>3. PICK f : Path(f, probe.tap, v)
    <3> HIDE DEF v
    <3> QED
      BY <2>1, <2>2, PathExists
  <2>4. Arrived(o.p, probe, f, v)
    BY <2>1, <2>3, DirectIs, Arrives
  <2> HIDE DEF v
  <2>5. Walk(Target, probe.tap, v) = f[Len(v)]
    BY <2>1, <2>2, <2>3, TargetWalk
  <2>6. v = << >> <=> Len(v) = 0
    BY <2>2 DEF Word
  <2>7. o.p.tap = f[Len(v)]
    <3>1. Len(v) = 0 => f[Len(v)] = probe.tap
      BY <2>3 DEF Path
    <3> QED
      BY <2>4, <3>1 DEF Arrived
  <2>8. o.p.tms = (IF v = << >> THEN probe.tms ELSE v[Len(v)])
    BY <2>4, <2>6 DEF Arrived
  <2> QED
    BY <2>5, <2>7, <2>8 DEF v
<1> QED
  BY <1>1, RawTypeCorrect, PTL

\* Home: the scripts of Reset, GetId and GetIdChain end in Run-Test/Idle from everywhere.
THEOREM HomeHolds == Spec => []Home
  BY HomeFromAnywhere, RawTypeCorrect, PTL
================================================================================
