------------------------------- MODULE JtagRaw -------------------------------
(***************************************************************************)
(* The JTAG calls of the DLL (jlink_api.c, jtag_chain.c): how a TMS word   *)
(* becomes SHIFT_DATA, SET_TMS and WRITE_TMS commands, and how the DLL's   *)
(* tracker follows the target's TAP.                                       *)
(*                                                                         *)
(* A call is one action.  The DLL is synchronous, but pico_transact can    *)
(* fail with the command executed or with the command lost, and a call     *)
(* made of several commands can fail between two of them.  A command that  *)
(* is executed after the DLL gave up on it still precedes the next one, so *)
(* that it is taken to be executed at once.                                *)
(***************************************************************************)
EXTENDS JtagProbe

CONSTANTS Words,      \* the TMS words a caller uses
          Devices,    \* values of g_dev_count
          IRLen       \* IR length of every device, when it is known

ASSUME WordsAssumption == /\ Words \subseteq Seq({0, 1})
                          /\ Devices \subseteq Nat
                          /\ IRLen \in Nat \ {0}

VARIABLES probe,      \* the firmware's pins and the target's TAP
          is_open,    \* g_is_open
          s_state,    \* the tracker
          devs,       \* [count, known]: g_dev_count, and whether g_dev_list has the IR lengths
          ok,         \* whether every command of the last call was answered
          trust       \* history, below

vars == <<probe, is_open, s_state, devs, ok, trust>>

\* What the calls so far entitle the caller to.  While they succeed: "homed" after
\* JLINKARM_Reset; "agree" after five ones clocked into the TAP, or a zero after
\* "homed", by raw calls; "slipped" once one of those found TMS high and clocked ones
\* for the caller's zeros.  "none" after a call that failed, and after the others.
Trust == {"none", "homed", "agree", "slipped"}

TypeOK == /\ probe \in Probe
          /\ is_open \in BOOLEAN /\ ok \in BOOLEAN
          /\ s_state \in TapState
          /\ devs \in [count : Devices \union {0}, known : BOOLEAN]
          /\ trust \in Trust

\* The target may be anywhere when the DLL is loaded.
Init == /\ probe \in {jtag_bb_init(s) : s \in TapState}
        /\ is_open = FALSE /\ ok = TRUE
        /\ s_state = "RESET"
        /\ devs = [count |-> 0, known |-> FALSE]
        /\ trust = "none"

-------------------------------------------------------------------------------
(* Commands, and scripts of commands.                                      *)

SET_TMS(b) == [op |-> "set", level |-> b]
WRITE_TMS(word) == [op |-> "write", word |-> word]
SHIFT_DATA(n, exit) == [op |-> "shift", n |-> n, exit |-> exit]

Execute(p, c) == CASE c.op = "set"   -> jtag_tap_set_tms(p, c.level)
                   [] c.op = "write" -> handle_write_tms(p, c.word)
                   [] c.op = "shift" -> jtag_bb_write_read_exit(p, c.n, c.exit)

After(p, script) == Walk(Execute, p, script)

\* The call returns at the first command that fails, be it lost or only unanswered.
UntilFailure(p, script) ==
    {[p |-> After(p, script), ok |-> TRUE]}
    \union {[p |-> After(p, SubSeq(script, 1, k)), ok |-> FALSE] : k \in 0..Len(script)}

\* A command is answered, lost, or executed and not answered.
Missing(outcomes, c) ==
    UNION {{[o EXCEPT !.p = Execute(o.p, c)], [o EXCEPT !.ok = FALSE],
            [p |-> Execute(o.p, c), ok |-> FALSE]} : o \in outcomes}

\* The call ignores what its commands return: any of them may be missing.
WhateverFails(p, script) == Walk(Missing, {[p |-> p, ok |-> TRUE]}, script)

jtag_shift_data(p, n, exit) ==
    IF n = 0 THEN {[p |-> p, ok |-> TRUE]}
    ELSE IF ShiftRefused(n) THEN {[p |-> p, ok |-> FALSE]}
    ELSE UntilFailure(p, <<SHIFT_DATA(n, exit)>>)

jtag_store_raw_bitbang(p, word) ==
    UntilFailure(p, FlattenSeq([i \in 1..Len(word) |->
                                    <<SET_TMS(word[i]), SHIFT_DATA(1, FALSE)>>]))

ToShiftDr == <<WRITE_TMS(<<1, 1, 1, 1, 1>>), WRITE_TMS(<<0>>), WRITE_TMS(<<1, 0, 0>>)>>

jtag_read_idcode == [p \in Probe |->
    WhateverFails(p, ToShiftDr \o <<SHIFT_DATA(32, TRUE), WRITE_TMS(<<1, 0>>)>>)]

\* The devices are counted in Shift-DR; if there is one, the instruction registers
\* are measured in Shift-IR.  What matters of a loop of shifts is how many are
\* executed, up to five.
jtag_scan_chain == [p \in Probe |->
    UNION {WhateverFails(p, ToShiftDr \o <<SHIFT_DATA(32, FALSE), WRITE_TMS(<<1, 1, 0>>)>> \o measure) :
               measure \in {<<>>, <<WRITE_TMS(<<1, 1, 0, 0>>), SHIFT_DATA(1024, FALSE)>>
                                  \o [i \in 1..4 |-> SHIFT_DATA(1, FALSE)]
                                  \o <<WRITE_TMS(<<1, 1, 0>>)>>}}]

-------------------------------------------------------------------------------
(* Raw calls.                                                              *)

\* Fault: a final one is all that NAV_ONLY asks for.
ClassifyByLast(word) ==
    IF \A i \in 1..Len(word) : word[i] = 0 THEN "ALL_ZERO"
    ELSE IF word[Len(word)] = 1 THEN "NAV_ONLY"
    ELSE "MIXED"

\* Zeros; zeros and a final one; anything else.
classify_tms(word) ==
    IF \A i \in 1..Len(word) : word[i] = 0 THEN "ALL_ZERO"
    ELSE IF \A i \in 1..Len(word) : (word[i] = 1) <=> (i = Len(word)) THEN "NAV_ONLY"
    ELSE "MIXED"

\* The switch of StoreRaw, and of StoreGetRaw when nothing is padded.
Direct == [p \in Probe |-> [word \in Words |->
    LET class == classify_tms(word)
    IN  IF class = "MIXED" THEN jtag_store_raw_bitbang(p, word)
        ELSE jtag_shift_data(p, Len(word), class = "NAV_ONLY")]]

\* Five consecutive ones are clocked into the TAP from whatever state it is in.
Synchronises(word) == \E i \in 1..(Len(word) - 4) : \A k \in i..(i + 4) : word[k] = 1

\* The TMS bits a raw call that succeeds clocks into the TAP: nothing in a shift
\* lowers TMS, so that the zeros are the level the last call has left.
Clocked(p, word) == IF classify_tms(word) = "MIXED" THEN word
                    ELSE [i \in 1..Len(word) |-> IF word[i] = 1 THEN 1 ELSE p.tms]

TrustAfterRaw(word) ==
    IF ~ok' \/ probe.trst = 0 THEN "none"
    ELSE IF Clocked(probe, word) # word
         THEN IF trust \in {"agree", "slipped"} THEN "slipped" ELSE "none"
    ELSE IF Synchronises(word) THEN "agree"
    ELSE IF trust = "homed" /\ word # <<>> THEN IF word[1] = 0 THEN "agree" ELSE "none"
    ELSE trust

Completes(outcomes) == \E o \in outcomes : probe' = o.p /\ ok' = o.ok

\* The tracker is advanced whether the commands succeeded or not.
StoreRaw(word) ==
    /\ is_open
    /\ Completes(Direct[probe][word])
    /\ s_state' = tap_track_tms(s_state, word)
    /\ trust' = TrustAfterRaw(word)
    /\ UNCHANGED <<is_open, devs>>

\* apply_bypass as it is first computed.
Bypass == devs.count > 1 /\ s_state \in Shifting

\* pre_bits + post_bits; unknown IR lengths clear apply_bypass, but the code
\* goes on with the padded transfer and no padding.
Padding == IF s_state = "SHIFT_DR" THEN devs.count - 1
           ELSE IF devs.known THEN (devs.count - 1) * IRLen ELSE 0

Zeros(n) == [i \in 1..n |-> 0]

\* Fault: the tracker is given the caller's word instead of the padded one.
CallersWord(word) == word

\* The padded transfer raises TMS in its last bit or nowhere: the ones of a
\* MIXED word are dropped.
PaddedWord(word) ==
    LET total == Len(word) + Padding
    IN  IF classify_tms(word) = "NAV_ONLY" THEN Append(Zeros(total - 1), 1) ELSE Zeros(total)

StoreGetRawPadded(word) ==
    /\ is_open
    /\ word # <<>> /\ Bypass
    /\ Completes(jtag_shift_data(probe, Len(word) + Padding, classify_tms(word) = "NAV_ONLY"))
    /\ s_state' = tap_track_tms(s_state, PaddedWord(word))
    /\ trust' = TrustAfterRaw(PaddedWord(word))
    /\ UNCHANGED <<is_open, devs>>

StoreGetRaw(word) ==
    /\ is_open
    /\ word # <<>> /\ ~Bypass
    /\ Completes(Direct[probe][word])
    /\ s_state' = tap_track_tms(s_state, word)
    /\ trust' = TrustAfterRaw(word)
    /\ UNCHANGED <<is_open, devs>>

\* GetU8, GetU16, GetU32 and SendNBytes: the tracker does not hear of them.
ShiftBits(n) ==
    /\ is_open
    /\ Completes(jtag_shift_data(probe, n, FALSE))
    /\ trust' = IF trust = "homed" \/ (trust = "agree" /\ s_state \in Shifting)
                THEN trust ELSE "none"
    /\ UNCHANGED <<is_open, s_state, devs>>

-------------------------------------------------------------------------------
(* The other calls.                                                        *)

ResetTap(p) == {[p |-> jtag_tap_reset(p), ok |-> TRUE], [p |-> jtag_tap_reset(p), ok |-> FALSE],
                [p |-> p, ok |-> FALSE]}

\* tap_track_reset says Test-Logic-Reset; RESET_TAP leaves the TAP in Run-Test/Idle.
JLINKARM_Reset ==
    /\ is_open
    /\ Completes(ResetTap(probe))
    /\ s_state' = "RESET"
    /\ trust' = IF ok' /\ probe.trst = 1 THEN "homed" ELSE "none"
    /\ UNCHANGED <<is_open, devs>>

\* The TAP goes round; the tracker stays.
JTAG_GetId ==
    /\ is_open
    /\ Completes(jtag_read_idcode[probe])
    /\ trust' = "none"
    /\ UNCHANGED <<is_open, s_state, devs>>

JTAG_GetIdChain ==
    /\ is_open
    /\ Completes(jtag_scan_chain[probe])
    /\ trust' = "none"
    /\ UNCHANGED <<is_open, s_state, devs>>

SetTRST(level) ==
    /\ is_open
    /\ \/ ok' \in BOOLEAN /\ probe' = handle_set_trst(probe, level)
       \/ ok' = FALSE /\ probe' = probe
    /\ trust' = IF probe' = probe THEN trust ELSE "none"
    /\ UNCHANGED <<is_open, s_state, devs>>

\* Fault: a new list is added to the old one.
DevicesAdded(n, known) ==
    /\ n > 0
    /\ devs' = [count |-> devs.count + n, known |-> known]
    /\ UNCHANGED <<probe, is_open, s_state, ok, trust>>

SetDeviceList(n, known) ==
    /\ n > 0
    /\ devs' = [count |-> n, known |-> known]
    /\ UNCHANGED <<probe, is_open, s_state, ok, trust>>

\* Neither touches the tracker.
OpenEx == ~is_open /\ is_open' = TRUE /\ UNCHANGED <<probe, s_state, devs, ok, trust>>
Close == is_open /\ is_open' = FALSE /\ UNCHANGED <<probe, s_state, devs, ok, trust>>

\* While the port is free, another program drives the probe (0x31 is no command
\* of the DLL), or the probe starts again, or the target does.
Elsewhere ==
    /\ ~is_open
    /\ probe' \in {jtag_tap_reset(probe), jtag_bb_read_idcode(probe), jtag_bb_init(probe.tap),
                   [probe EXCEPT !.tap = "RESET"]}
    /\ trust' = "none"
    /\ UNCHANGED <<is_open, s_state, devs, ok>>

Next == \/ \E word \in Words : StoreRaw(word) \/ StoreGetRaw(word) \/ StoreGetRawPadded(word)
        \/ \E n \in {8, 16, 32} : ShiftBits(n)
        \/ JLINKARM_Reset \/ JTAG_GetId \/ JTAG_GetIdChain
        \/ \E level \in {0, 1} : SetTRST(level)
        \/ \E n \in Devices, known \in BOOLEAN : SetDeviceList(n, known)
        \/ OpenEx \/ Close \/ Elsewhere

Spec == Init /\ [][Next]_vars

-------------------------------------------------------------------------------
(* Properties.                                                             *)

\* Once five ones have been clocked in, or a zero after JLINKARM_Reset, raw calls
\* that succeed keep the tracker on the target's TAP, padded and bit-banged ones,
\* closing and reopening included, as long as none asks for zeros by a shift while
\* TMS is high; five more ones mend that.  No reader of words moves a TAP that is
\* shifting: TMS is low then.  After Reset the tracker is one zero behind the TAP.
Agree == /\ trust = "agree" => /\ s_state = probe.tap
                               /\ s_state \in Shifting => probe.tms = 0
         /\ trust = "homed" => s_state = "RESET" /\ probe.tap = "IDLE" /\ probe.tms = 0

\* The header of the tracker says that it simulates the FSM which the target's hardware
\* runs, to know its state after each StoreRaw and StoreGetRaw: without Agree's
\* exception, of a shift that finds TMS high.
TrackerFollows == trust \in {"agree", "slipped"} => s_state = probe.tap

\* Whatever the level at which TMS was left, a raw call that succeeds without padding
\* takes the TAP where the bits clocked lead: the caller's word if it is sent bit by
\* bit, and otherwise that word with its zeros at the level of TMS, which the call
\* leaves at its last bit.
RawWalk == \A word \in Words : probe.trst = 1 =>
    \A o \in Direct[probe][word] : o.ok =>
        LET bits == Clocked(probe, word)
        IN  /\ o.p.tap = Walk(Target, probe.tap, bits)
            /\ o.p.tms = (IF bits = <<>> THEN probe.tms ELSE bits[Len(bits)])

\* Reset, GetId and GetIdChain, when none of their commands is lost, end in
\* Run-Test/Idle with TMS low, wherever the TAP was and whatever TMS was.
Home == probe.trst = 1
        => \A o \in ResetTap(probe) \union jtag_read_idcode[probe] \union jtag_scan_chain[probe] :
               o.ok => o.p.tap = "IDLE" /\ o.p.tms = 0
===============================================================================
