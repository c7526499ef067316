------------------------------ MODULE ScanChain ------------------------------
(***************************************************************************)
(* What the DLL shifts through a chain of devices: the bypass padding of   *)
(* JLINKARM_JTAG_StoreGetRaw (jlink_api.c) and the counting of devices and *)
(* of IR bits in jtag_scan_chain (jtag_chain.c), on the registers of the   *)
(* devices.  An action is a whole scan: capture, shift, update.            *)
(*                                                                         *)
(* A register is the sequence of its bits from TDI to TDO, so that a word, *)
(* whose first bit is shifted first, ends up in it reversed.               *)
(*                                                                         *)
(* Devices are numbered from TDO.  A caller may count them from either     *)
(* end: the comment at jlink_api.c:424-433 counts from TDI, the code that  *)
(* follows it pads for one who counts from TDO.                            *)
(***************************************************************************)
EXTENDS Integers, SequencesExt

CONSTANTS IRLen,     \* length of every device's instruction register, from TDO
          IdCode,    \* its identification register, or <<0>>
          DRLen,     \* length of the data register of any other instruction
          IdWidth,   \* bits of an IDCODE, 32
          Preload    \* 1024 in jtag_scan_chain

Device == DOMAIN IRLen
N == Len(IRLen)

ASSUME ChainAssumption == /\ IRLen \in Seq(Nat \ {0}) /\ N > 0
                          /\ IdCode \in Seq(Seq({0, 1})) /\ Len(IdCode) = N
                          /\ DRLen \in Nat \ {0} /\ IdWidth \in Nat \ {0} /\ Preload \in Nat

VARIABLES ir, data,          \* every device's instruction and data registers
          g_dev_list,        \* <<>> or the IR length of every device, from the end
                             \* the caller counts from, 0 if unknown
          g_jtag_dev_pos

chainVars == <<ir, data, g_dev_list, g_jtag_dev_pos>>

Words(n) == [1..n -> {0, 1}]
Const(n, b) == [i \in 1..n |-> b]

\* What the standard says of an identification register: the bit next to TDO is a
\* one, and no manufacturer has the number that makes it all ones.
ASSUME IdCodeAssumption ==
    \A d \in Device : IdCode[d] # <<0>> => /\ IdCode[d] \in Words(IdWidth)
                                          /\ IdCode[d][IdWidth] = 1
                                          /\ IdCode[d] # Const(IdWidth, 1)

ChainTypeOK == /\ \A d \in Device : ir[d] \in Words(IRLen[d]) /\ data[d] \in Words(DRLen)
               /\ g_dev_list \in {<<>>, IRLen, Reverse(IRLen), Const(N, 0)}
               /\ g_jtag_dev_pos \in -1..N

-------------------------------------------------------------------------------
(* The devices.  All ones is BYPASS, all zeros IDCODE, as after a reset.   *)

Bypassed(d) == ir[d] = Const(IRLen[d], 1)
Reset(d) == Const(IRLen[d], 0)
CaptureDR == [d \in Device |-> IF Bypassed(d) THEN <<0>>
                              ELSE IF ir[d] = Reset(d) THEN IdCode[d]
                              ELSE data[d]]
CaptureIR == [d \in Device |-> [Const(IRLen[d], 0) EXCEPT ![IRLen[d]] = 1]]

\* The devices from TDI to TDO.
Order == [i \in Device |-> N + 1 - i]

Joined(reg) == FlattenSeq([i \in Device |-> reg[Order[i]]])

\* The part of device d in chain, laid out as Joined(reg).
Part(chain, reg, d) ==
    LET at == CHOOSE i \in Device : Order[i] = d
        before == Len(FlattenSeq([i \in 1..(at - 1) |-> reg[Order[i]]]))
    IN  SubSeq(chain, before + 1, before + Len(reg[d]))

\* What is in a chain after word has been shifted in, and what came out.
Shifted(chain, word) == SubSeq(Reverse(word) \o chain, 1, Len(chain))
Out(chain, word) == SubSeq(Reverse(chain) \o word, 1, Len(word))

-------------------------------------------------------------------------------
(* StoreGetRaw in Shift-DR or Shift-IR.                                    *)

\* The position in the list, from 1; a value out of range is the first device.
Target == IF g_jtag_dev_pos \in 0..(N - 1) THEN g_jtag_dev_pos + 1 ELSE 1

SumOf(s) == FoldLeft(LAMBDA a, b : a + b, 0, s)

\* Fault: one padding bit per device in Shift-IR too.
OneBitEach(shiftIR) == IF g_dev_list = <<>> THEN <<0, 0>> ELSE <<Target - 1, N - Target>>

\* <<pre_bits, post_bits>>.  Without a list, or in Shift-IR with an unknown
\* length, nothing is padded.
PadBits(shiftIR) ==
    IF g_dev_list = <<>> THEN <<0, 0>>
    ELSE IF ~shiftIR THEN <<Target - 1, N - Target>>
    ELSE IF \E i \in Device : g_dev_list[i] = 0 THEN <<0, 0>>
    ELSE <<SumOf(SubSeq(g_dev_list, 1, Target - 1)), SumOf(SubSeq(g_dev_list, Target + 1, N))>>

\* s_pad_tdi: ones around an instruction, zeros around data.
Padded(word, shiftIR) ==
    LET pad == IF shiftIR THEN 1 ELSE 0
    IN  Const(PadBits(shiftIR)[1], pad) \o word \o Const(PadBits(shiftIR)[2], pad)

\* pTDO, the bits of s_pad_tdo at the place of the caller's.
Extracted(tdo, word, shiftIR) ==
    SubSeq(tdo, PadBits(shiftIR)[1] + 1, PadBits(shiftIR)[1] + Len(word))

\* The chain after a StoreGetRaw of word between capture and update, and pTDO.
StoreGetRaw(reg, word, shiftIR) ==
    LET chain == Joined(reg)
        tdi == Padded(word, shiftIR)
    IN  [chain |-> Shifted(chain, tdi), tdo |-> Extracted(Out(chain, tdi), word, shiftIR)]

\* With a list the caller addresses one device, counted from TDO or from TDI; without
\* one the whole chain.
WordsFor(reg) == IF g_dev_list = <<>> THEN Words(Len(Joined(reg)))
                 ELSE UNION {Words(Len(reg[d])) : d \in {Target, N + 1 - Target}}

ScanIR == \E word \in WordsFor(CaptureIR) :
    LET after == StoreGetRaw(CaptureIR, word, TRUE).chain
    IN  /\ ir' = [d \in Device |-> Part(after, CaptureIR, d)]
        /\ UNCHANGED <<data, g_dev_list, g_jtag_dev_pos>>

ScanDR == \E word \in WordsFor(CaptureDR) :
    LET after == StoreGetRaw(CaptureDR, word, FALSE).chain
    IN  /\ data' = [d \in Device |-> IF Bypassed(d) \/ ir[d] = Reset(d) THEN data[d]
                                     ELSE Part(after, CaptureDR, d)]
        /\ UNCHANGED <<ir, g_dev_list, g_jtag_dev_pos>>

-------------------------------------------------------------------------------
(* jtag_scan_chain.                                                        *)

\* The k-th word of IdWidth bits that comes out after a TAP reset.
Read(k) ==
    LET chain == Joined(IdCode)
        out == Out(chain, Const(k * IdWidth, 1))
    IN  SubSeq(out, (k - 1) * IdWidth + 1, k * IdWidth)

\* The words before the first that is all ones or does not begin with a one.
Counted(maxDev) ==
    LET Ends(k) == k > maxDev \/ Read(k) = Const(IdWidth, 1) \/ Read(k)[1] = 0
    IN  (CHOOSE k \in 1..(N + 1) : Ends(k) /\ \A i \in 1..(k - 1) : ~Ends(i)) - 1

\* The instruction registers after the preload of ones and one zero.
Probed == Shifted(Shifted(Joined(CaptureIR), Const(Preload, 1)), <<0>>)

FirstZero(out) == CHOOSE k \in DOMAIN out : out[k] = 0 /\ \A i \in 1..(k - 1) : out[i] = 1

\* Fault: the bit that brings the zero out is not counted.
ZeroNotCounted(chain) == FirstZero(Out(chain, Const(Len(chain), 1))) - 1

\* total_ir_len: the ones shifted until the zero comes out.
total_ir_len(chain) == FirstZero(Out(chain, Const(Len(chain), 1)))

\* The IR length given for the i-th device found.
InfoIRLen(count, i) == IF count = 1 THEN total_ir_len(Probed)
                       ELSE IF Len(g_dev_list) = count THEN g_dev_list[i]
                       ELSE 0

\* With no device found, the measure is not made.
jtag_scan_chain(maxDev) ==
    LET after == Shifted(Probed, Const(total_ir_len(Probed), 1))
        count == Counted(maxDev)
    IN  /\ ir' = [d \in Device |-> IF count = 0 THEN Reset(d) ELSE Part(after, CaptureIR, d)]
        /\ UNCHANGED <<data, g_dev_list, g_jtag_dev_pos>>

-------------------------------------------------------------------------------
\* The devices have been reset; their data registers hold zeros.
ChainInit == /\ ir = [d \in Device |-> Reset(d)]
             /\ data = [d \in Device |-> Const(DRLen, 0)]
             /\ g_dev_list = <<>> /\ g_jtag_dev_pos = 0

\* With the lengths from TDO or from TDI, or without them.
SetDeviceList == /\ g_dev_list' \in {IRLen, Reverse(IRLen), Const(N, 0)}
                 /\ UNCHANGED <<ir, data, g_jtag_dev_pos>>

\* Fault: the arguments are exchanged.
ConfigExchanged(irLen, devPos) ==
    g_jtag_dev_pos' = irLen /\ UNCHANGED <<ir, data, g_dev_list>>

ConfigJTAG(irLen, devPos) ==
    g_jtag_dev_pos' = devPos /\ UNCHANGED <<ir, data, g_dev_list>>

\* A TAP reset.
ResetTap == /\ ir' = [d \in Device |-> Reset(d)]
            /\ UNCHANGED <<data, g_dev_list, g_jtag_dev_pos>>

ChainNext == \/ ScanIR \/ ScanDR \/ SetDeviceList \/ ResetTap
             \/ \E maxDev \in 0..(N + 1) : jtag_scan_chain(maxDev)
             \/ \E devPos \in -1..N : ConfigJTAG(SumOf(IRLen), devPos)

ChainSpec == ChainInit /\ [][ChainNext]_chainVars

-------------------------------------------------------------------------------
(* Properties.                                                             *)

\* With the lengths of the chain, an instruction scan gives device t the caller's
\* instruction and every other device BYPASS; with the others in BYPASS a data scan
\* gives t the caller's bits and the caller the bits of t's register.
PaddedFor(lengths, t) ==
    /\ g_dev_list = lengths =>
         \A word \in Words(IRLen[t]) :
            LET after == StoreGetRaw(CaptureIR, word, TRUE).chain
            IN  \A d \in Device : Part(after, CaptureIR, d)
                                    = IF d = t THEN Reverse(word) ELSE Const(IRLen[d], 1)
    /\ g_dev_list # <<>> /\ (\A d \in Device \ {t} : Bypassed(d)) =>
         \A word \in Words(Len(CaptureDR[t])) :
            LET scan == StoreGetRaw(CaptureDR, word, FALSE)
            IN  /\ Part(scan.chain, CaptureDR, t) = Reverse(word)
                /\ scan.tdo = Reverse(CaptureDR[t])

\* A caller who counts the devices from TDO, in the list and in the position, has the
\* addressed device as if it were alone: what the padding of StoreGetRaw really does.
TransparentPadding == PaddedFor(IRLen, Target)

\* What the comment above the padding says of it (jlink_api.c:424-433, "Dev0" next to TDI
\* and the position "0-indexed desde TDI"): a caller who counts from TDI has it so.  It
\* is false: pre_bits are shifted first, and end up in the devices next to TDO.
PaddingFromTDI == PaddedFor(Reverse(IRLen), N + 1 - Target)

\* On a chain of devices with an IDCODE each, no longer than the preload, GetIdChain
\* finds as many as it may, the one next to TDO first, measures the IR bits of the
\* whole chain, and leaves every device in BYPASS; if it finds them all and the list
\* has as many, counted from TDO, the lengths it gives are those of the devices it
\* gives them for.
ChainMeasured ==
    (\A d \in Device : IdCode[d] # <<0>>) /\ SumOf(IRLen) <= Preload =>
        \A maxDev \in 1..(N + 1) :
           LET count == Counted(maxDev)
           IN  /\ count = IF maxDev > N THEN N ELSE maxDev
               /\ \A k \in 1..count : Read(k) = Reverse(IdCode[k])
               /\ total_ir_len(Probed) = SumOf(IRLen)
               /\ Shifted(Probed, Const(total_ir_len(Probed), 1)) = Const(SumOf(IRLen), 1)
               /\ count = N /\ g_dev_list = IRLen =>
                     \A k \in 1..N : InfoIRLen(count, k) = IRLen[k]
===============================================================================
