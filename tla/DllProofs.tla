--------------------------- MODULE DllProofs ---------------------------
(***************************************************************************)
(* Proofs about the DLL over the transport.  DllSession, for any probes,   *)
(* versions, frequencies, cache time and width of the tick counter: the    *)
(* DLL holds the ports of its handles and no others, lists no probe from a *)
(* cache that is too old, and reads back the clock it set.  ScanChain, for *)
(* any devices: what StoreGetRaw pads, the device it is for gets as it is; *)
(* and GetIdChain counts, reads and measures the chain that is there.      *)
(***************************************************************************)
EXTENDS DllSession, ScanChain, FiniteSetTheorems, Induction

\* TypeOK in parts.
DeviceType == /\ plugged \subseteq Probe
              /\ clockOf \in [Probe -> Nat \ {0}]
              /\ owing \in [Probe -> SUBSET Nat]
HandleType == /\ owned \subseteq Ports /\ gone \subseteq owned
              /\ hCOM \in Handle /\ hUART \in Handle /\ is_open \in BOOLEAN
CallType == /\ pc \in {"idle", "find", "open", "version", "pins", "uart", "list", "serial", "read"}
            /\ port \in Handle /\ fill \in BOOLEAN /\ took \in 0..TickWrap - 1
SessionType == /\ serial \in Nat /\ speed \in Nat
               /\ cache \in [found : {-1, 0, 1}, serial : Nat] /\ age \in 0..TickWrap - 1
RetType == ret \in [fn : {"none", "OpenEx", "GetList", "GetSpeed"}, val : Nat]
HistoryType == /\ calm \in BOOLEAN /\ set \in BOOLEAN /\ alone \in BOOLEAN
               /\ heard \in 0..Ttl /\ round \in BOOLEAN

\* They are all of it.
LEMMA TypeParts == TypeOK <=> /\ DeviceType /\ HandleType /\ CallType
                              /\ SessionType /\ RetType /\ HistoryType
  BY DEF TypeOK, DeviceType, HandleType, CallType, SessionType, RetType, HistoryType

\* Where a probe has been found, and where none is in hand.
PortInv == /\ pc \in {"idle", "find", "list"} => port = none
           /\ pc \in {"open", "version", "pins", "uart", "serial", "read"} => port \in Probe
           /\ pc \in {"version", "pins", "uart"} => hCOM = port

\* OpenEx with one probe about: the one it has found, if it has found one.
AloneInv == alone =>
    /\ pc = "find" => \A p, q \in plugged : p = q
    /\ pc = "open" => plugged \subseteq {port}
    /\ pc \in {"version", "pins", "uart"} => plugged \subseteq {hCOM}

\* HandlesInv without the types.
Handles == /\ owned = Held
           /\ pc \in {"version", "pins", "uart"} \/ is_open <=> hCOM # none
           /\ ~is_open => hUART = none
           /\ is_open => pc = "idle"
           /\ alone /\ is_open /\ hUART # none => hUART = hCOM

\* There is a number of probes, as OpenEx counts on.
Finite == IsFiniteSet(plugged)

SessionInv == TypeOK /\ Handles /\ PortInv /\ Finite /\ AloneInv

\* The cache is no younger than the answer it was filled with, and neither is the time at
\* which the present search began.
FreshInv == /\ cache.found = 1 /\ ~round => heard <= age
            /\ pc \in {"serial", "read"} => heard <= took

\* SetSpeed was called in an open session only.  In a calm one whose probe is still
\* there, nothing is owed, and the probe has the clock it was given.
ClockInv == /\ set => is_open
            /\ calm => hCOM # none
            /\ calm /\ <<hCOM, "com">> \notin gone =>
                  /\ owing[hCOM] = {}
                  /\ set /\ speed > 0 /\ speed * Thousand < Wrap => clockOf[hCOM] = speed

\* Hertz made of kilohertz, and kilohertz made of hertz.
LEMMA HzInNat == ASSUME NEW khz \in Khz PROVE HzOf(khz) \in Nat
  BY SessionAssumption DEF HzOf

\* A clock is never zero.
LEMMA SetClockInNat == ASSUME NEW hz \in Nat, NEW was \in Nat \ {0}
                       PROVE  SetClock(hz, was) \in Nat \ {0}
<1>1. hz >= Thousand => hz \div Thousand \in Nat \ {0}
  BY SessionAssumption
<1> QED
  BY <1>1, SessionAssumption DEF SetClock

\* What fits is read back as it was set.
LEMMA ClockThere == ASSUME NEW khz \in Khz, NEW was \in Nat \ {0},
                           khz > 0, khz * Thousand < Wrap
                    PROVE  SetClock(HzOf(khz), was) = khz
<1>1. khz \in Nat \ {0} /\ Thousand \in Nat \ {0} /\ Wrap \in Nat \ {0}
  BY SessionAssumption
<1>2. khz * Thousand \in Nat /\ khz * Thousand >= Thousand
  BY <1>1
<1>3. (khz * Thousand) % Wrap = khz * Thousand
  BY <1>1, <1>2
<1>4. (khz * Thousand) \div Thousand = khz
  BY <1>1
<1> QED
  BY <1>1, <1>2, <1>3, <1>4 DEF SetClock, HzOf

\* What a probe owes is a set of commands still.
LEMMA OwesType == ASSUME NEW p \in Probe, NEW cmd \in Nat, owing[p] \subseteq Nat
                  PROVE  Owes(p, cmd) \subseteq Nat
  BY DEF Owes

\* Neither does a call that fails change the types of what is owed and of calm.
LEMMA FailsType == ASSUME TypeOK, NEW p \in Probe, NEW cmd \in Nat, Fails(p, cmd)
                   PROVE  owing' \in [Probe -> SUBSET Nat] /\ calm' = FALSE
<1>1. Owes(p, cmd) \subseteq Nat
  BY OwesType DEF TypeOK
<1> QED
  BY <1>1 DEF Fails, TypeOK

\* pico_detect names a probe that is connected.
LEMMA DetectsType == ASSUME TypeOK, NEW p, Detects(p)
                     PROVE  /\ owing' \in [Probe -> SUBSET Nat]
                            /\ p # none => p \in plugged
<1> DEFINE present == {q \in Probe : Free(<<q, "com">>)}
<1>1. PICK slow \in SUBSET present :
          /\ p \in (present \ slow) \union {q \in slow : owing[q] # {}} \union {none}
          /\ owing' = [q \in Probe |-> IF q \in slow THEN Owes(q, 0) ELSE owing[q]]
  BY DEF Detects
<1>2. \A q \in Probe : Owes(q, 0) \subseteq Nat
  BY OwesType DEF TypeOK
<1>3. owing' \in [Probe -> SUBSET Nat]
  BY <1>1, <1>2 DEF TypeOK
<1>4. p # none => p \in plugged
  BY <1>1 DEF Free
<1> QED
  BY <1>3, <1>4

\* The probes keep their types.
LEMMA DeviceTypeStep == TypeOK /\ Handles /\ PortInv /\ [Next]_vars => DeviceType'
<1> SUFFICES ASSUME TypeOK, Handles, PortInv, [Next]_vars PROVE DeviceType'
  OBVIOUS
<1>1. CASE UNCHANGED device
  BY <1>1 DEF TypeOK, DeviceType, device
<1>2. ASSUME NEW p \in Probe, Plug(p) PROVE DeviceType'
  BY <1>2 DEF TypeOK, DeviceType, device, Plug
<1>3. ASSUME NEW p \in Probe, Unplug(p) PROVE DeviceType'
  BY <1>3 DEF TypeOK, DeviceType, device, Unplug, Started, BootKhz
<1>4. ASSUME NEW p \in Probe, Settle(p) PROVE DeviceType'
  <2>1. PICK hz \in owing[p] :
          /\ owing' = [owing EXCEPT ![p] = owing[p] \ {hz}]
          /\ \/ clockOf' = [clockOf EXCEPT ![p] = SetClock(hz, clockOf[p])]
             \/ clockOf' = clockOf
    BY <1>4 DEF Settle
  <2>2. hz \in Nat /\ clockOf[p] \in Nat \ {0}
    BY <2>1 DEF TypeOK
  <2>3. SetClock(hz, clockOf[p]) \in Nat \ {0}
    BY <2>2, SetClockInNat
  <2>4. clockOf' \in [Probe -> Nat \ {0}]
    BY <2>1, <2>3 DEF TypeOK
  <2>5. owing' \in [Probe -> SUBSET Nat]
    BY <2>1 DEF TypeOK
  <2> QED
    BY <1>4, <2>4, <2>5 DEF Settle, TypeOK, DeviceType
<1>5. CASE Restart
  <2>1. \A khz \in Khz : HzOf(khz) \in Nat
    BY HzInNat
  <2>2. \A q \in Probe : \A cmd \in Nat : Owes(q, cmd) \subseteq Nat
    BY OwesType DEF TypeOK
  <2>3. \A e \in owned : e[1] \in Probe
    BY DEF Ports, TypeOK
  <2>4. owing' \in [Probe -> SUBSET Nat]
    BY <1>5, <2>1, <2>2, <2>3 DEF Restart, TypeOK
  <2> QED
    BY <1>5, <2>4 DEF Restart, TypeOK, DeviceType
<1>6. CASE Find
  BY <1>6, DetectsType DEF TypeOK, DeviceType, device, Find
<1>7. CASE GetVersion
  <2>1. hCOM \in Probe
    BY <1>7 DEF GetVersion, Handles, TypeOK, Handle
  <2>2. owing' \in [Probe -> SUBSET Nat]
    BY <1>7, <2>1, FailsType DEF GetVersion, TypeOK
  <2> QED
    BY <1>7, <2>2 DEF GetVersion, TypeOK, DeviceType
<1>8. CASE Diagnose
  <2>1. hCOM \in Probe
    BY <1>8 DEF Diagnose, Handles, TypeOK, Handle
  <2>2. owing' \in [Probe -> SUBSET Nat]
    BY <1>8, <2>1, FailsType DEF Diagnose, TypeOK
  <2> QED
    BY <1>8, <2>2 DEF Diagnose, TypeOK, DeviceType
<1>9. CASE Search
  BY <1>9, DetectsType DEF TypeOK, DeviceType, device, Search
<1>10. CASE ReadSerial
  <2>1. port \in Probe
    BY <1>10 DEF ReadSerial, PortInv
  <2>2. owing' \in [Probe -> SUBSET Nat]
    BY <1>10, <2>1, FailsType DEF ReadSerial, TypeOK
  <2> QED
    BY <1>10, <2>2 DEF ReadSerial, TypeOK, DeviceType
<1>11. ASSUME NEW khz \in Khz, SetSpeed(khz) PROVE DeviceType'
  <2>1. hCOM \in Probe
    BY <1>11 DEF SetSpeed, Handles, TypeOK, Handle
  <2>2. HzOf(khz) \in Nat
    BY HzInNat
  <2>3. SetClock(HzOf(khz), clockOf[hCOM]) \in Nat \ {0}
    BY <2>1, <2>2, SetClockInNat DEF TypeOK
  <2>4. owing' \in [Probe -> SUBSET Nat]
    BY <1>11, <2>1, <2>2, FailsType DEF SetSpeed, TypeOK
  <2>5. clockOf' \in [Probe -> Nat \ {0}]
    BY <1>11, <2>1, <2>3 DEF SetSpeed, TypeOK
  <2> QED
    BY <1>11, <2>4, <2>5 DEF SetSpeed, TypeOK, DeviceType
<1>12. CASE GetSpeed
  <2>1. is_open => hCOM \in Probe
    BY DEF Handles, TypeOK, Handle
  <2>2. owing' \in [Probe -> SUBSET Nat]
    BY <1>12, <2>1, FailsType DEF GetSpeed, TypeOK
  <2> QED
    BY <1>12, <2>2 DEF GetSpeed, TypeOK, DeviceType
<1>13. CASE CallFails
  <2>1. hCOM \in Probe
    BY <1>13 DEF CallFails, Handles, TypeOK, Handle
  <2>2. owing' \in [Probe -> SUBSET Nat]
    BY <1>13, <2>1, FailsType DEF CallFails, TypeOK
  <2> QED
    BY <1>13, <2>2 DEF CallFails, TypeOK, DeviceType
<1>14. ASSUME NEW array \in BOOLEAN, GetList(array) PROVE DeviceType'
  <2>1. UNCHANGED device
    BY <1>14 DEF GetList, device, handles, call, session, history
  <2> QED
    BY <1>1, <2>1
<1>15. ASSUME NEW p \in Probe, SelectByUSBSN(Version[p]) PROVE DeviceType'
  <2>1. UNCHANGED device
    BY <1>15 DEF SelectByUSBSN, device, handles, call, session, history
  <2> QED
    BY <1>1, <2>1
<1>16. CASE Tick \/ OpenEx \/ OpenCom \/ OpenUart \/ Close \/ OpenForSerial
  <2>1. UNCHANGED device
    BY <1>16 DEF Tick, OpenEx, OpenCom, OpenUart, Close, OpenForSerial, device,
       handles, call, session, history
  <2> QED
    BY <1>1, <2>1
<1>17. CASE UNCHANGED vars
  <2>1. UNCHANGED device
    BY <1>17 DEF vars, device, handles, call, session, history
  <2> QED
    BY <1>1, <2>1
<1> QED
  BY <1>1, <1>2, <1>3, <1>4, <1>5, <1>6, <1>7, <1>8, <1>9, <1>10, <1>11, <1>12,
     <1>13, <1>14, <1>15, <1>16, <1>17 DEF Next

\* The handles are of the probes' ports.
LEMMA HandleTypeStep == TypeOK /\ Handles /\ PortInv /\ [Next]_vars => HandleType'
<1> SUFFICES ASSUME TypeOK, Handles, PortInv, [Next]_vars PROVE HandleType'
  OBVIOUS
<1>1. CASE UNCHANGED handles
  BY <1>1 DEF TypeOK, HandleType, handles
<1>2. ASSUME NEW p \in Probe, Unplug(p) PROVE HandleType'
  BY <1>2 DEF TypeOK, HandleType, handles, Unplug
<1>3. CASE Restart
  BY <1>3 DEF TypeOK, HandleType, handles, Restart, Handle
<1>4. CASE OpenCom
  BY <1>4 DEF TypeOK, HandleType, handles, OpenCom, Free, Ports, Handle, PortInv
<1>5. CASE OpenUart
  <2>1. owned' \subseteq Ports
    <3>1. \A p \in Probe : <<p, "uart">> \in Ports
      BY DEF Ports
    <3>2. owned \subseteq Ports
      BY DEF TypeOK
    <3>3. \/ owned' = owned
          \/ \E p \in Probe : owned' = owned \union {<<p, "uart">>}
      BY <1>5 DEF OpenUart
    <3> QED
      BY <3>1, <3>2, <3>3
  <2>2. gone' \subseteq owned' /\ hCOM' \in Handle /\ is_open' \in BOOLEAN
    BY <1>5 DEF OpenUart, TypeOK
  <2>3. hUART' \in Handle
    BY <1>5 DEF OpenUart, TypeOK, Handle
  <2> QED
    BY <2>1, <2>2, <2>3 DEF HandleType
<1>6. CASE Close
  BY <1>6 DEF TypeOK, HandleType, handles, Close, Handle
<1>7. CASE OpenForSerial
  BY <1>7 DEF TypeOK, HandleType, handles, OpenForSerial, PortInv, Ports
<1>8. CASE ReadSerial
  BY <1>8 DEF TypeOK, HandleType, handles, ReadSerial
<1>9. ASSUME NEW p \in Probe, Plug(p) \/ Settle(p) PROVE HandleType'
  <2>1. UNCHANGED handles
    BY <1>9 DEF Plug, Settle, device, handles, call, session, history
  <2> QED
    BY <1>1, <2>1
<1>10. ASSUME NEW array \in BOOLEAN, GetList(array) PROVE HandleType'
  <2>1. UNCHANGED handles
    BY <1>10 DEF GetList, device, handles, call, session, history
  <2> QED
    BY <1>1, <2>1
<1>11. ASSUME NEW p \in Probe, SelectByUSBSN(Version[p]) PROVE HandleType'
  <2>1. UNCHANGED handles
    BY <1>11 DEF SelectByUSBSN, device, handles, call, session, history
  <2> QED
    BY <1>1, <2>1
<1>12. ASSUME NEW khz \in Khz, SetSpeed(khz) PROVE HandleType'
  <2>1. UNCHANGED handles
    BY <1>12 DEF SetSpeed, device, handles, call, session, history
  <2> QED
    BY <1>1, <2>1
<1>13. CASE Tick \/ OpenEx \/ Find \/ GetVersion \/ Diagnose \/ Search \/
           GetSpeed \/ CallFails
  <2>1. UNCHANGED handles
    BY <1>13 DEF Tick, OpenEx, Find, GetVersion, Diagnose, Search, GetSpeed,
       CallFails, device, handles, call, session, history
  <2> QED
    BY <1>1, <2>1
<1>14. CASE UNCHANGED vars
  <2>1. UNCHANGED handles
    BY <1>14 DEF vars, device, handles, call, session, history
  <2> QED
    BY <1>1, <2>1
<1> QED
  BY <1>1, <1>2, <1>3, <1>4, <1>5, <1>6, <1>7, <1>8, <1>9, <1>10, <1>11, <1>12,
     <1>13, <1>14 DEF Next

\* What the calls return and start from has its type.
LEMMA Values == /\ 0 \in 0..TickWrap - 1 /\ 0 \in 0..Ttl /\ Ttl \in 0..Ttl
                /\ BootKhz \in Nat
                /\ \A p \in Probe : Version[p] \in Nat
                /\ Khz \subseteq Nat
  BY SessionAssumption DEF BootKhz

\* So does the call in hand.
LEMMA CallTypeStep == TypeOK /\ Handles /\ PortInv /\ [Next]_vars => CallType'
<1> SUFFICES ASSUME TypeOK, Handles, PortInv, [Next]_vars PROVE CallType'
  OBVIOUS
<1>1. CASE UNCHANGED call
  BY <1>1 DEF TypeOK, CallType, call
<1>2. CASE Tick
  BY <1>2, SessionAssumption DEF TypeOK, CallType, call, Tick
<1>3. CASE Restart
  BY <1>3, Values DEF TypeOK, CallType, call, Restart, Returns, PortInv, Handle
<1>4. CASE OpenEx
  BY <1>4, Values DEF TypeOK, CallType, call, OpenEx, PortInv, Handle
<1>5. CASE Find
  BY <1>5, Values, DetectsType DEF TypeOK, CallType, call, Find, OpenFails, Returns, Handle
<1>6. CASE OpenCom
  BY <1>6, Values DEF TypeOK, CallType, call, OpenCom, OpenFails, Returns, Free,
     PortInv, Handle
<1>7. CASE GetVersion
  BY <1>7, Values DEF TypeOK, CallType, call, GetVersion, Alive, PortInv, Handle
<1>8. CASE Diagnose
  BY <1>8, Values DEF TypeOK, CallType, call, Diagnose, Alive, PortInv, Handle
<1>9. CASE OpenUart
  BY <1>9, Values DEF TypeOK, CallType, call, OpenUart, Returns, Free, PortInv, Handle
<1>10. ASSUME NEW array \in BOOLEAN, GetList(array) PROVE CallType'
  BY <1>10, Values DEF TypeOK, CallType, call, GetList, Lists, CacheValid, PortInv, Handle
<1>11. CASE Search
  BY <1>11, Values, DetectsType DEF TypeOK, CallType, call, Search, Fills, Returns, Handle
<1>12. CASE OpenForSerial
  BY <1>12, Values DEF TypeOK, CallType, call, OpenForSerial, Fills, Lists, Returns,
     Free, PortInv, Handle
<1>13. CASE ReadSerial
  BY <1>13, Values DEF TypeOK, CallType, call, ReadSerial, Fills, Lists, Returns,
     PortInv, Handle
<1>14. ASSUME NEW p \in Probe, Plug(p) \/ Unplug(p) \/ Settle(p) PROVE CallType'
  <2>1. UNCHANGED call
    BY <1>14 DEF Plug, Unplug, Settle, device, handles, call, session, history
  <2> QED
    BY <1>1, <2>1
<1>15. ASSUME NEW p \in Probe, SelectByUSBSN(Version[p]) PROVE CallType'
  <2>1. UNCHANGED call
    BY <1>15 DEF SelectByUSBSN, device, handles, call, session, history
  <2> QED
    BY <1>1, <2>1
<1>16. ASSUME NEW khz \in Khz, SetSpeed(khz) PROVE CallType'
  <2>1. UNCHANGED call
    BY <1>16 DEF SetSpeed, device, handles, call, session, history
  <2> QED
    BY <1>1, <2>1
<1>17. CASE Close \/ GetSpeed \/ CallFails
  <2>1. UNCHANGED call
    BY <1>17 DEF Close, GetSpeed, CallFails, device, handles, call, session, history
  <2> QED
    BY <1>1, <2>1
<1>18. CASE UNCHANGED vars
  <2>1. UNCHANGED call
    BY <1>18 DEF vars, device, handles, call, session, history
  <2> QED
    BY <1>1, <2>1
<1> QED
  BY <1>1, <1>2, <1>3, <1>4, <1>5, <1>6, <1>7, <1>8, <1>9, <1>10, <1>11, <1>12,
     <1>13, <1>14, <1>15, <1>16, <1>17, <1>18 DEF Next

\* The session's variables keep their types.
LEMMA SessionTypeStep == TypeOK /\ Handles /\ PortInv /\ [Next]_vars => SessionType'
<1> SUFFICES ASSUME TypeOK, Handles, PortInv, [Next]_vars PROVE SessionType'
  OBVIOUS
<1>1. CASE UNCHANGED session
  BY <1>1 DEF TypeOK, SessionType, session
<1>2. CASE Tick
  BY <1>2, SessionAssumption DEF TypeOK, SessionType, session, Tick
<1>3. CASE Restart
  BY <1>3, Values DEF TypeOK, SessionType, session, Restart
<1>4. CASE GetVersion
  <2>1. hCOM \in Probe
    BY <1>4 DEF GetVersion, Handles, TypeOK, Handle
  <2>2. serial' \in Nat
    BY <1>4, <2>1, Values DEF GetVersion, Answer, TypeOK
  <2> QED
    BY <1>4, <2>2 DEF GetVersion, TypeOK, SessionType
<1>5. ASSUME NEW array \in BOOLEAN, GetList(array) PROVE SessionType'
  BY <1>5 DEF TypeOK, SessionType, session, GetList, Lists, CacheValid
<1>6. CASE Search
  BY <1>6 DEF TypeOK, SessionType, session, Search, Fills, Lists
<1>7. CASE OpenForSerial
  BY <1>7 DEF TypeOK, SessionType, session, OpenForSerial, Fills, Lists
<1>8. CASE ReadSerial
  BY <1>8, Values DEF TypeOK, SessionType, session, ReadSerial, Fills, Lists, PortInv
<1>9. ASSUME NEW p \in Probe, SelectByUSBSN(Version[p]) PROVE SessionType'
  BY <1>9, Values DEF TypeOK, SessionType, session, SelectByUSBSN
<1>10. ASSUME NEW khz \in Khz, SetSpeed(khz) PROVE SessionType'
  BY <1>10, Values DEF TypeOK, SessionType, session, SetSpeed
<1>11. ASSUME NEW p \in Probe, Plug(p) \/ Unplug(p) \/ Settle(p) PROVE SessionType'
  <2>1. UNCHANGED session
    BY <1>11 DEF Plug, Unplug, Settle, device, handles, call, session, history
  <2> QED
    BY <1>1, <2>1
<1>12. CASE OpenEx \/ Find \/ OpenCom \/ Diagnose \/ OpenUart \/ Close \/
           GetSpeed \/ CallFails
  <2>1. UNCHANGED session
    BY <1>12 DEF OpenEx, Find, OpenCom, Diagnose, OpenUart, Close, GetSpeed,
       CallFails, device, handles, call, session, history
  <2> QED
    BY <1>1, <2>1
<1>13. CASE UNCHANGED vars
  <2>1. UNCHANGED session
    BY <1>13 DEF vars, device, handles, call, session, history
  <2> QED
    BY <1>1, <2>1
<1> QED
  BY <1>1, <1>2, <1>3, <1>4, <1>5, <1>6, <1>7, <1>8, <1>9, <1>10, <1>11, <1>12, <1>13
     DEF Next

\* A call returns a number.
LEMMA RetTypeStep == TypeOK /\ Handles /\ PortInv /\ [Next]_vars => RetType'
<1> SUFFICES ASSUME TypeOK, Handles, PortInv, [Next]_vars PROVE RetType'
  OBVIOUS
<1>1. CASE UNCHANGED ret
  BY <1>1 DEF TypeOK, RetType
<1>2. ASSUME NEW p \in Probe, Plug(p) PROVE RetType'
  BY <1>2 DEF TypeOK, RetType, Plug, Silent
<1>3. ASSUME NEW p \in Probe, Unplug(p) PROVE RetType'
  BY <1>3 DEF TypeOK, RetType, Unplug, Started, Silent
<1>4. ASSUME NEW p \in Probe, Settle(p) PROVE RetType'
  BY <1>4 DEF TypeOK, RetType, Settle, Silent
<1>5. CASE Tick
  BY <1>5 DEF TypeOK, RetType, Tick, Silent
<1>6. CASE Restart
  BY <1>6 DEF TypeOK, RetType, Restart, Returns, Silent
<1>7. CASE OpenEx
  BY <1>7 DEF TypeOK, RetType, OpenEx, Silent
<1>8. CASE Find
  BY <1>8 DEF TypeOK, RetType, Find, OpenFails, Returns, Silent
<1>9. CASE OpenCom
  BY <1>9 DEF TypeOK, RetType, OpenCom, OpenFails, Returns, Free, Silent
<1>10. CASE GetVersion
  BY <1>10 DEF TypeOK, RetType, GetVersion, Alive, Silent
<1>11. CASE Diagnose
  BY <1>11 DEF TypeOK, RetType, Diagnose, Alive, Silent
<1>12. CASE OpenUart
  BY <1>12 DEF TypeOK, RetType, OpenUart, Returns, Free, Silent
<1>13. CASE Close
  BY <1>13 DEF TypeOK, RetType, Close, Closed, Silent
<1>14. ASSUME NEW array \in BOOLEAN, GetList(array) PROVE RetType'
  BY <1>14 DEF TypeOK, RetType, GetList, Lists, CacheValid, Silent
<1>15. CASE Search
  BY <1>15 DEF TypeOK, RetType, Search, Fills, Lists, Silent
<1>16. CASE OpenForSerial
  BY <1>16 DEF TypeOK, RetType, OpenForSerial, Fills, Lists, Returns, Free, Silent
<1>17. CASE ReadSerial
  BY <1>17 DEF TypeOK, RetType, ReadSerial, Fills, Lists, Returns, Silent
<1>18. ASSUME NEW p \in Probe, SelectByUSBSN(Version[p]) PROVE RetType'
  BY <1>18 DEF TypeOK, RetType, SelectByUSBSN, Silent
<1>19. ASSUME NEW khz \in Khz, SetSpeed(khz) PROVE RetType'
  BY <1>19 DEF TypeOK, RetType, SetSpeed, Alive, Silent
<1>20. CASE GetSpeed
  <2>1. is_open => hCOM \in Probe
    BY DEF Handles, TypeOK, Handle
  <2>2. PICK v \in Nat : ret' = [fn |-> "GetSpeed", val |-> v]
    BY <1>20, <2>1, Values DEF GetSpeed, Answer, TypeOK
  <2> QED
    BY <2>2 DEF RetType
<1>21. CASE CallFails
  BY <1>21 DEF TypeOK, RetType, CallFails, Silent
<1>22. CASE UNCHANGED vars
  <2>1. UNCHANGED ret
    BY <1>22 DEF vars, device, handles, call, session, history
  <2> QED
    BY <1>1, <2>1
<1> QED
  BY <1>1, <1>2, <1>3, <1>4, <1>5, <1>6, <1>7, <1>8, <1>9, <1>10, <1>11, <1>12,
     <1>13, <1>14, <1>15, <1>16, <1>17, <1>18, <1>19, <1>20, <1>21, <1>22 DEF Next

\* A comparison is true or false.
LEMMA OneAtMost == (Cardinality(plugged) <= 1) \in BOOLEAN
  OBVIOUS

\* History keeps its types.
LEMMA HistoryTypeStep == TypeOK /\ Handles /\ PortInv /\ [Next]_vars => HistoryType'
<1> SUFFICES ASSUME TypeOK, Handles, PortInv, [Next]_vars PROVE HistoryType'
  OBVIOUS
<1>1. CASE UNCHANGED history
  BY <1>1 DEF TypeOK, HistoryType, history
<1>2. ASSUME NEW p \in Probe, Plug(p) PROVE HistoryType'
  BY <1>2, Values DEF TypeOK, HistoryType, history, Plug
<1>3. CASE Tick
  BY <1>3, SessionAssumption DEF TypeOK, HistoryType, history, Tick
<1>4. CASE Restart
  BY <1>4, Values DEF TypeOK, HistoryType, history, Restart, Returns
<1>5. CASE OpenEx
  BY <1>5, OneAtMost DEF TypeOK, HistoryType, history, OpenEx
<1>6. CASE Find
  BY <1>6, Values DEF TypeOK, HistoryType, history, Find, OpenFails, Returns
<1>7. CASE OpenCom
  BY <1>7, Values DEF TypeOK, HistoryType, history, OpenCom, OpenFails, Returns, Free
<1>8. CASE GetVersion
  BY <1>8 DEF TypeOK, HistoryType, history, GetVersion, Fails
<1>9. CASE Diagnose
  BY <1>9 DEF TypeOK, HistoryType, history, Diagnose, Fails
<1>10. CASE Close
  BY <1>10, Values DEF TypeOK, HistoryType, history, Close, Closed
<1>11. CASE Search
  BY <1>11, Values DEF TypeOK, HistoryType, history, Search, Fills, Lists, Returns
<1>12. CASE OpenForSerial
  BY <1>12, Values DEF TypeOK, HistoryType, history, OpenForSerial, Fills, Lists,
     Returns, Free
<1>13. CASE ReadSerial
  BY <1>13 DEF TypeOK, HistoryType, history, ReadSerial, Fails, Fills
<1>14. ASSUME NEW khz \in Khz, SetSpeed(khz) PROVE HistoryType'
  BY <1>14 DEF TypeOK, HistoryType, history, SetSpeed, Fails
<1>15. CASE GetSpeed
  BY <1>15 DEF TypeOK, HistoryType, history, GetSpeed, Fails
<1>16. CASE CallFails
  BY <1>16 DEF TypeOK, HistoryType, history, CallFails, Fails
<1>17. ASSUME NEW p \in Probe, Unplug(p) \/ Settle(p) PROVE HistoryType'
  <2>1. UNCHANGED history
    BY <1>17 DEF Unplug, Settle, device, handles, call, session, history
  <2> QED
    BY <1>1, <2>1
<1>18. ASSUME NEW array \in BOOLEAN, GetList(array) PROVE HistoryType'
  <2>1. UNCHANGED history
    BY <1>18 DEF GetList, device, handles, call, session, history
  <2> QED
    BY <1>1, <2>1
<1>19. ASSUME NEW p \in Probe, SelectByUSBSN(Version[p]) PROVE HistoryType'
  <2>1. UNCHANGED history
    BY <1>19 DEF SelectByUSBSN, device, handles, call, session, history
  <2> QED
    BY <1>1, <2>1
<1>20. CASE OpenUart
  <2>1. UNCHANGED history
    BY <1>20 DEF OpenUart, device, handles, call, session, history
  <2> QED
    BY <1>1, <2>1
<1>21. CASE UNCHANGED vars
  <2>1. UNCHANGED history
    BY <1>21 DEF vars, device, handles, call, session, history
  <2> QED
    BY <1>1, <2>1
<1> QED
  BY <1>1, <1>2, <1>3, <1>4, <1>5, <1>6, <1>7, <1>8, <1>9, <1>10, <1>11, <1>12,
     <1>13, <1>14, <1>15, <1>16, <1>17, <1>18, <1>19, <1>20, <1>21 DEF Next

\* A probe is in hand exactly while it was found by the call under way.
LEMMA PortStep == TypeOK /\ Handles /\ PortInv /\ [Next]_vars => PortInv'
<1> SUFFICES ASSUME TypeOK, Handles, PortInv, [Next]_vars PROVE PortInv'
  OBVIOUS
<1>1. CASE UNCHANGED <<pc, port, hCOM>>
  BY <1>1 DEF PortInv
<1>2. CASE Restart
  BY <1>2 DEF PortInv, Restart, Returns, PortInv
<1>3. CASE OpenEx
  BY <1>3 DEF PortInv, OpenEx, PortInv, Handle
<1>4. CASE Find
  BY <1>4 DEF PortInv, Find, OpenFails, Returns, PortInv, Handle
<1>5. CASE OpenCom
  BY <1>5, SessionAssumption DEF PortInv, OpenCom, OpenFails, Returns, PortInv
<1>6. CASE GetVersion
  BY <1>6 DEF PortInv, GetVersion, handles, PortInv
<1>7. CASE Diagnose
  BY <1>7 DEF PortInv, Diagnose, handles, PortInv
<1>8. CASE OpenUart
  BY <1>8 DEF PortInv, OpenUart, Returns, PortInv
<1>9. CASE Close
  BY <1>9 DEF PortInv, Close, call, PortInv
<1>10. ASSUME NEW array \in BOOLEAN, GetList(array) PROVE PortInv'
  BY <1>10 DEF PortInv, GetList, call, handles
<1>11. CASE Search
  BY <1>11 DEF PortInv, Search, Fills, Returns, PortInv
<1>12. CASE OpenForSerial
  BY <1>12 DEF PortInv, OpenForSerial, Fills, Returns, PortInv
<1>13. CASE ReadSerial
  BY <1>13 DEF PortInv, ReadSerial, Fills, Returns, PortInv
<1>14. ASSUME NEW p \in Probe, Plug(p) \/ Unplug(p) \/ Settle(p) PROVE PortInv'
  <2>1. UNCHANGED <<pc, port, hCOM>>
    BY <1>14 DEF Plug, Unplug, Settle, device, handles, call, session, history
  <2> QED
    BY <1>1, <2>1
<1>15. ASSUME NEW p \in Probe, SelectByUSBSN(Version[p]) PROVE PortInv'
  <2>1. UNCHANGED <<pc, port, hCOM>>
    BY <1>15 DEF SelectByUSBSN, device, handles, call, session, history
  <2> QED
    BY <1>1, <2>1
<1>16. ASSUME NEW khz \in Khz, SetSpeed(khz) PROVE PortInv'
  <2>1. UNCHANGED <<pc, port, hCOM>>
    BY <1>16 DEF SetSpeed, device, handles, call, session, history
  <2> QED
    BY <1>1, <2>1
<1>17. CASE Tick \/ GetSpeed \/ CallFails
  <2>1. UNCHANGED <<pc, port, hCOM>>
    BY <1>17 DEF Tick, GetSpeed, CallFails, device, handles, call, session, history
  <2> QED
    BY <1>1, <2>1
<1>18. CASE UNCHANGED vars
  <2>1. UNCHANGED <<pc, port, hCOM>>
    BY <1>18 DEF vars, device, handles, call, session, history
  <2> QED
    BY <1>1, <2>1
<1> QED
  BY <1>1, <1>2, <1>3, <1>4, <1>5, <1>6, <1>7, <1>8, <1>9, <1>10, <1>11, <1>12,
     <1>13, <1>14, <1>15, <1>16, <1>17, <1>18 DEF Next

\* The probes connected are finitely many.
LEMMA FiniteStep == Finite /\ [Next]_vars => Finite'
<1> SUFFICES ASSUME Finite, [Next]_vars PROVE Finite'
  OBVIOUS
<1>1. ASSUME NEW p \in Probe, Plug(p) PROVE Finite'
  <2>1. IsFiniteSet(plugged \union {p})
    BY FS_AddElement DEF Finite
  <2> QED
    BY <1>1, <2>1 DEF Plug, Finite
<1>2. ASSUME NEW p \in Probe, Unplug(p) PROVE Finite'
  <2>1. IsFiniteSet(plugged \ {p})
    BY FS_RemoveElement DEF Finite
  <2> QED
    BY <1>2, <2>1 DEF Unplug, Finite
<1>3. CASE UNCHANGED plugged
  BY <1>3 DEF Finite
<1>4. ASSUME NEW p \in Probe, Settle(p) PROVE Finite'
  BY <1>3, <1>4 DEF Settle
<1>5. CASE Tick \/ Restart \/ OpenEx \/ Find \/ OpenCom \/ GetVersion \/
           Diagnose \/ OpenUart \/ Close
  BY <1>3, <1>5 DEF Tick, Restart, OpenEx, Find, OpenCom, GetVersion, Diagnose,
     OpenUart, Close, device
<1>6. CASE Search \/ OpenForSerial \/ ReadSerial \/ GetSpeed \/ CallFails
  BY <1>3, <1>6 DEF Search, OpenForSerial, ReadSerial, GetSpeed, CallFails, device
<1>7. ASSUME NEW array \in BOOLEAN, GetList(array) PROVE Finite'
  BY <1>3, <1>7 DEF GetList, device
<1>8. ASSUME NEW p \in Probe, SelectByUSBSN(Version[p]) PROVE Finite'
  BY <1>3, <1>8 DEF SelectByUSBSN, device
<1>9. ASSUME NEW khz \in Khz, SetSpeed(khz) PROVE Finite'
  BY <1>3, <1>9 DEF SetSpeed
<1>10. CASE UNCHANGED vars
  BY <1>3, <1>10 DEF vars, device
<1> QED
  BY <1>1, <1>2, <1>4, <1>5, <1>6, <1>7, <1>8, <1>9, <1>10 DEF Next

\* Of one probe at most, any two are the same.
LEMMA OneProbe == ASSUME Finite, Cardinality(plugged) <= 1 PROVE \A p, q \in plugged : p = q
<1>1. Cardinality(plugged) \in Nat
  BY FS_CardinalityType DEF Finite
<1>2. CASE Cardinality(plugged) = 0
  BY <1>2, FS_EmptySet DEF Finite
<1>3. CASE Cardinality(plugged) = 1
  BY <1>3, FS_Singleton DEF Finite
<1> QED
  BY <1>1, <1>2, <1>3

\* While a session is being opened, the one probe about stays the one.
LEMMA AloneStep == TypeOK /\ Handles /\ PortInv /\ Finite /\ AloneInv /\ [Next]_vars => AloneInv'
<1> SUFFICES ASSUME TypeOK, Handles, PortInv, Finite, AloneInv, [Next]_vars PROVE AloneInv'
  OBVIOUS
<1>1. CASE UNCHANGED <<plugged, pc, port, hCOM, alone>>
  BY <1>1 DEF AloneInv
<1>2. ASSUME NEW p \in Probe, Plug(p) PROVE AloneInv'
  <2>1. pc' = pc /\ port' = port /\ hCOM' = hCOM /\ plugged' = plugged \union {p}
    BY <1>2 DEF Plug, call, handles
  <2>2. CASE ~Opening
    BY <2>1, <2>2 DEF AloneInv, Opening
  <2>3. CASE Opening
    <3>1. alone' => alone /\ plugged \union {hCOM, port} \subseteq {p, none}
      BY <1>2, <2>3 DEF Plug
    <3> QED
      BY <2>1, <3>1, SessionAssumption DEF AloneInv, PortInv, TypeOK
  <2> QED
    BY <2>2, <2>3
<1>3. ASSUME NEW p \in Probe, Unplug(p) PROVE AloneInv'
  BY <1>3 DEF AloneInv, Unplug, call, history
<1>4. CASE Restart
  BY <1>4 DEF AloneInv, Restart, Returns
<1>5. CASE OpenEx
  <2>1. CASE is_open
    BY <1>5, <2>1 DEF OpenEx, AloneInv, handles, device
  <2>2. CASE ~is_open
    <3>1. pc' = "find" /\ plugged' = plugged /\ (alone' => Cardinality(plugged) <= 1)
      BY <1>5, <2>2 DEF OpenEx, device
    <3> QED
      BY <3>1, OneProbe DEF AloneInv
  <2> QED
    BY <2>1, <2>2
<1>6. CASE Find
  <2>1. CASE OpenFails
    BY <2>1 DEF OpenFails, Returns, AloneInv
  <2>2. CASE \E p \in Probe : Detects(p) /\ pc' = "open" /\ port' = p /\ alone' = alone
    <3>1. PICK p \in Probe : Detects(p) /\ pc' = "open" /\ port' = p /\ alone' = alone
      BY <2>2
    <3>2. p \in plugged
      BY <3>1, DetectsType, SessionAssumption
    <3>3. plugged' = plugged /\ pc = "find"
      BY <1>6 DEF Find
    <3> QED
      BY <3>1, <3>2, <3>3 DEF AloneInv
  <2> QED
    BY <1>6, <2>1, <2>2 DEF Find
<1>7. CASE OpenCom
  BY <1>7 DEF AloneInv, OpenCom, OpenFails, Returns, device
<1>8. CASE GetVersion
  BY <1>8 DEF AloneInv, GetVersion, handles
<1>9. CASE Diagnose
  BY <1>9 DEF AloneInv, Diagnose, handles
<1>10. CASE OpenUart
  BY <1>10 DEF AloneInv, OpenUart, Returns, history
<1>11. CASE Close
  BY <1>11 DEF AloneInv, Close, call, device, PortInv
<1>12. ASSUME NEW array \in BOOLEAN, GetList(array) PROVE AloneInv'
  BY <1>12 DEF AloneInv, GetList, call, device, handles, history
<1>13. CASE Search
  BY <1>13 DEF AloneInv, Search, Fills, Returns, handles
<1>14. CASE OpenForSerial
  BY <1>14 DEF AloneInv, OpenForSerial, Fills, Returns, device
<1>15. CASE ReadSerial
  BY <1>15 DEF AloneInv, ReadSerial, Fills, Returns
<1>16. ASSUME NEW p \in Probe, Settle(p) PROVE AloneInv'
  <2>1. UNCHANGED <<plugged, pc, port, hCOM, alone>>
    BY <1>16 DEF Settle, device, handles, call, session, history
  <2> QED
    BY <1>1, <2>1
<1>17. ASSUME NEW p \in Probe, SelectByUSBSN(Version[p]) PROVE AloneInv'
  <2>1. UNCHANGED <<plugged, pc, port, hCOM, alone>>
    BY <1>17 DEF SelectByUSBSN, device, handles, call, session, history
  <2> QED
    BY <1>1, <2>1
<1>18. ASSUME NEW khz \in Khz, SetSpeed(khz) PROVE AloneInv'
  <2>1. UNCHANGED <<plugged, pc, port, hCOM, alone>>
    BY <1>18 DEF SetSpeed, device, handles, call, session, history
  <2> QED
    BY <1>1, <2>1
<1>19. CASE Tick \/ GetSpeed \/ CallFails
  <2>1. UNCHANGED <<plugged, pc, port, hCOM, alone>>
    BY <1>19 DEF Tick, GetSpeed, CallFails, device, handles, call, session, history
  <2> QED
    BY <1>1, <2>1
<1>20. CASE UNCHANGED vars
  <2>1. UNCHANGED <<plugged, pc, port, hCOM, alone>>
    BY <1>20 DEF vars, device, handles, call, session, history
  <2> QED
    BY <1>1, <2>1
<1> QED
  BY <1>1, <1>2, <1>3, <1>4, <1>5, <1>6, <1>7, <1>8, <1>9, <1>10, <1>11, <1>12,
     <1>13, <1>14, <1>15, <1>16, <1>17, <1>18, <1>19, <1>20 DEF Next

\* The process holds the ports of its handles.
LEMMA HandlesStep == TypeOK /\ Handles /\ PortInv /\ AloneInv /\ [Next]_vars => Handles'
<1> SUFFICES ASSUME TypeOK, Handles, PortInv, AloneInv, [Next]_vars PROVE Handles'
  OBVIOUS
<1>1. CASE UNCHANGED <<pc, port, hCOM, hUART, is_open, owned, alone>>
  BY <1>1 DEF Handles, Held, TypeOK
<1>2. ASSUME NEW p \in Probe, Plug(p) PROVE Handles'
  BY <1>2 DEF Handles, Held, TypeOK, Plug, Opening, handles, call, PortInv
<1>3. ASSUME NEW p \in Probe, Unplug(p) PROVE Handles'
  BY <1>3 DEF Handles, Held, TypeOK, Unplug, call, history
<1>4. CASE Restart
  BY <1>4 DEF Handles, Held, TypeOK, Restart, Returns
<1>5. CASE OpenEx
  BY <1>5 DEF Handles, Held, TypeOK, OpenEx, handles
<1>6. CASE Find
  BY <1>6 DEF Handles, Held, TypeOK, Find, OpenFails, Returns, handles
<1>7. CASE OpenCom
  <2>1. ~is_open /\ hCOM = none /\ hUART = none /\ owned = {}
    BY <1>7 DEF OpenCom, Handles, Held, TypeOK
  <2>2. is_open' = FALSE /\ hUART' = none
    BY <1>7, <2>1 DEF OpenCom
  <2>3. CASE /\ hCOM' = port /\ owned' = owned \union {<<port, "com">>} /\ pc' = "version"
    <3>1. port # none
      BY <1>7, SessionAssumption DEF OpenCom, PortInv
    <3> QED
      BY <2>1, <2>2, <2>3, <3>1 DEF Handles, Held
  <2>4. CASE hCOM' = none /\ pc' = "idle" /\ owned' = owned
    BY <2>1, <2>2, <2>4 DEF Handles, Held
  <2> QED
    BY <1>7, <2>3, <2>4 DEF OpenCom, OpenFails, Returns
<1>8. CASE GetVersion
  BY <1>8 DEF Handles, Held, TypeOK, GetVersion, handles, PortInv
<1>9. CASE Diagnose
  BY <1>9 DEF Handles, Held, TypeOK, Diagnose, handles, PortInv
<1>10. CASE OpenUart
  <2>1. hCOM \in Probe /\ hCOM # none /\ hUART = none /\ owned = {<<hCOM, "com">>}
    BY <1>10, SessionAssumption DEF OpenUart, Handles, Held, PortInv, TypeOK
  <2>2. is_open' = TRUE /\ pc' = "idle" /\ hCOM' = hCOM /\ alone' = alone
    BY <1>10 DEF OpenUart, Returns, history
  <2>3. ASSUME NEW p \in Probe, Free(<<p, "uart">>),
               hUART' = p, owned' = owned \union {<<p, "uart">>}
        PROVE  Handles'
    <3>1. p \in plugged /\ p # none
      BY <2>3, SessionAssumption DEF Free
    <3>2. alone => p = hCOM
      BY <1>10, <3>1 DEF OpenUart, AloneInv
    <3>3. owned' = Held'
      BY <2>1, <2>2, <2>3, <3>1 DEF Held
    <3> QED
      BY <2>1, <2>2, <2>3, <3>2, <3>3 DEF Handles
  <2>4. CASE UNCHANGED <<hUART, owned>>
    BY <2>1, <2>2, <2>4 DEF Handles, Held
  <2> QED
    BY <1>10, <2>3, <2>4 DEF OpenUart
<1>11. CASE Close
  BY <1>11 DEF Handles, Held, TypeOK, Close, Closed, call
<1>12. ASSUME NEW array \in BOOLEAN, GetList(array) PROVE Handles'
  BY <1>12 DEF Handles, Held, TypeOK, GetList, call, handles, history, PortInv
<1>13. CASE Search
  BY <1>13 DEF Handles, Held, TypeOK, Search, Fills, Returns, handles
<1>14. CASE OpenForSerial
  BY <1>14 DEF Handles, Held, TypeOK, OpenForSerial, Fills, Returns, Free, PortInv
<1>15. CASE ReadSerial
  BY <1>15 DEF Handles, Held, TypeOK, ReadSerial, Fills, Returns, PortInv
<1>16. ASSUME NEW p \in Probe, Settle(p) PROVE Handles'
  <2>1. UNCHANGED <<pc, port, hCOM, hUART, is_open, owned, alone>>
    BY <1>16 DEF Settle, device, handles, call, session, history
  <2> QED
    BY <1>1, <2>1
<1>17. ASSUME NEW p \in Probe, SelectByUSBSN(Version[p]) PROVE Handles'
  <2>1. UNCHANGED <<pc, port, hCOM, hUART, is_open, owned, alone>>
    BY <1>17 DEF SelectByUSBSN, device, handles, call, session, history
  <2> QED
    BY <1>1, <2>1
<1>18. ASSUME NEW khz \in Khz, SetSpeed(khz) PROVE Handles'
  <2>1. UNCHANGED <<pc, port, hCOM, hUART, is_open, owned, alone>>
    BY <1>18 DEF SetSpeed, device, handles, call, session, history
  <2> QED
    BY <1>1, <2>1
<1>19. CASE Tick \/ GetSpeed \/ CallFails
  <2>1. UNCHANGED <<pc, port, hCOM, hUART, is_open, owned, alone>>
    BY <1>19 DEF Tick, GetSpeed, CallFails, device, handles, call, session, history
  <2> QED
    BY <1>1, <2>1
<1>20. CASE UNCHANGED vars
  <2>1. UNCHANGED <<pc, port, hCOM, hUART, is_open, owned, alone>>
    BY <1>20 DEF vars, device, handles, call, session, history
  <2> QED
    BY <1>1, <2>1
<1> QED
  BY <1>1, <1>2, <1>3, <1>4, <1>5, <1>6, <1>7, <1>8, <1>9, <1>10, <1>11, <1>12,
     <1>13, <1>14, <1>15, <1>16, <1>17, <1>18, <1>19, <1>20 DEF Next

\* Every variable keeps its type.
LEMMA TypeStep == TypeOK /\ Handles /\ PortInv /\ [Next]_vars => TypeOK'
<1> SUFFICES ASSUME TypeOK, Handles, PortInv, [Next]_vars PROVE TypeOK'
  OBVIOUS
<1>1. DeviceType' /\ HandleType' /\ CallType' /\ SessionType' /\ RetType' /\ HistoryType'
  BY DeviceTypeStep, HandleTypeStep, CallTypeStep, SessionTypeStep, RetTypeStep,
     HistoryTypeStep
<1> QED
  BY <1>1 DEF TypeOK, DeviceType, HandleType, CallType, SessionType, RetType, HistoryType

\* Types, handles, the probe in hand and the one probe about hold together.
LEMMA SessionStep == SessionInv /\ [Next]_vars => SessionInv'
  BY TypeStep, HandlesStep, PortStep, FiniteStep, AloneStep DEF SessionInv

\* A fresh process holds nothing.
LEMMA SessionInit == Init => SessionInv
<1> SUFFICES ASSUME Init PROVE SessionInv
  OBVIOUS
<1>1. TypeOK
  <2>1. DeviceType
    BY DEF Init, DeviceType, BootKhz
  <2>4. HandleType
    BY DEF Init, HandleType, Handle
  <2>2. CallType /\ SessionType
    BY Values DEF Init, CallType, SessionType, Handle
  <2>3. RetType /\ HistoryType
    BY Values DEF Init, RetType, HistoryType, Silent
  <2> QED
    BY <2>1, <2>2, <2>3, <2>4, TypeParts
<1>2. Handles
  BY DEF Init, Handles, Held
<1>3. PortInv /\ Finite /\ AloneInv
  BY FS_EmptySet DEF Init, PortInv, Finite, AloneInv
<1> QED
  BY <1>1, <1>2, <1>3 DEF SessionInv

\* So the session's invariant always holds.
LEMMA SessionInvariant == Spec => []SessionInv
  BY SessionInit, SessionStep, PTL DEF Spec

\* Whatever fails and whenever a probe goes, the process holds the ports of its handles
\* and no others (JLINKARM_OpenEx, JLINKARM_Close, the search of JLINKARM_EMU_GetList).
THEOREM HandlesHold == Spec => []HandlesInv
<1>1. SessionInv => HandlesInv
  BY DEF SessionInv, Handles, HandlesInv
<1> QED
  BY <1>1, SessionInvariant, PTL

-------------------------------------------------------------------------------
(* The list of probes.                                                     *)

\* The cache takes the time its call began, and answers age with the clock.
LEMMA FreshStep == TypeOK /\ FreshInv /\ [Next]_vars => FreshInv'
<1> SUFFICES ASSUME TypeOK, FreshInv, [Next]_vars PROVE FreshInv'
  OBVIOUS
<1>1. CASE Tick
  <2>1. heard \in Int /\ age \in Int /\ took \in Int /\ Ttl \in Int /\ TickWrap \in Nat \ {0}
    BY SessionAssumption DEF TypeOK
  <2>2. heard' \in Int /\ heard' <= heard + 1
    BY <1>1, <2>1 DEF Tick
  <2>3. ASSUME cache'.found = 1, ~round' PROVE heard' <= age'
    <3>1. cache.found = 1 /\ ~round /\ age + 1 # TickWrap /\ age' = (age + 1) % TickWrap
      <4>1. cache' = cache /\ round' = (round \/ age + 1 = TickWrap)
        BY <1>1 DEF Tick
      <4>2. age' = IF cache.found = -1 THEN 0 ELSE (age + 1) % TickWrap
        BY <1>1 DEF Tick
      <4>3. cache.found = 1 /\ ~round /\ age + 1 # TickWrap
        BY <2>3, <4>1
      <4> QED
        BY <4>2, <4>3
    <3>2. age + 1 \in 0..TickWrap - 1
      BY <2>1, <3>1 DEF TypeOK
    <3>3. age' = age + 1
      BY <2>1, <3>1, <3>2
    <3>4. heard <= age
      BY <3>1 DEF FreshInv
    <3> QED
      BY <2>1, <2>2, <3>3, <3>4
  <2>4. ASSUME pc' \in {"serial", "read"} PROVE heard' <= took'
    <3>1. pc \in {"serial", "read"} /\ took' = took + 1
      BY <1>1, <2>4 DEF Tick
    <3>2. heard <= took
      BY <3>1 DEF FreshInv
    <3> QED
      BY <2>1, <2>2, <3>1, <3>2
  <2> QED
    BY <2>3, <2>4 DEF FreshInv
<1>2. CASE Restart
  BY <1>2 DEF Restart, Returns, FreshInv
<1>3. CASE Search
  <2>1. took >= 0
    BY SessionAssumption DEF TypeOK
  <2>2. CASE Fills(0, cache.serial)
    BY <2>2 DEF Fills, Returns, FreshInv
  <2>3. CASE heard' = 0 /\ Fills(1, cache.serial)
    BY <2>1, <2>3 DEF Fills, Returns, FreshInv
  <2>4. CASE heard' = 0 /\ UNCHANGED <<took, cache, age, round>>
    BY <2>1, <2>4 DEF TypeOK, FreshInv
  <2> QED
    BY <1>3, <2>2, <2>3, <2>4 DEF Search
<1>4. CASE OpenForSerial
  BY <1>4 DEF OpenForSerial, Fills, Returns, FreshInv
<1>5. CASE ReadSerial
  BY <1>5 DEF ReadSerial, Fills, Returns, FreshInv
<1>6. CASE /\ UNCHANGED <<cache, age, heard, round>>
           /\ pc' \in {"serial", "read"} => UNCHANGED <<pc, took>>
  BY <1>6 DEF FreshInv
<1>7. ASSUME NEW p \in Probe, Plug(p) \/ Unplug(p) \/ Settle(p) PROVE FreshInv'
  BY <1>6, <1>7 DEF Plug, Unplug, Settle, call, session, history
<1>8. CASE OpenEx \/ Find \/ OpenCom \/ OpenUart
  BY <1>6, <1>8 DEF OpenEx, Find, OpenCom, OpenUart, OpenFails, Returns, session, history
<1>9. CASE GetVersion \/ Diagnose \/ Close \/ GetSpeed \/ CallFails
  BY <1>6, <1>9 DEF GetVersion, Diagnose, Close, GetSpeed, CallFails, call, session
<1>10. ASSUME NEW array \in BOOLEAN, GetList(array) PROVE FreshInv'
  BY <1>6, <1>10 DEF GetList, call, history
<1>11. ASSUME NEW p \in Probe, SelectByUSBSN(Version[p]) PROVE FreshInv'
  BY <1>6, <1>11 DEF SelectByUSBSN, call, history
<1>12. ASSUME NEW khz \in Khz, SetSpeed(khz) PROVE FreshInv'
  BY <1>6, <1>12 DEF SetSpeed, call
<1>13. CASE UNCHANGED vars
  BY <1>6, <1>13 DEF vars, call, session, history
<1> QED
  BY <1>1, <1>2, <1>3, <1>4, <1>5, <1>7, <1>8, <1>9, <1>10, <1>11, <1>12, <1>13 DEF Next

\* An answer of the idle DLL comes from the cache or from an open session.
LEMMA ListFreshStep == ASSUME TypeOK, FreshInv, [Next]_vars,
                              ret'.fn = "GetList", ret'.val = 1, pc = "idle", ~is_open,
                              vars' # vars
                       PROVE  heard < Ttl \/ round
<1>1. ASSUME NEW array \in BOOLEAN, GetList(array) PROVE heard < Ttl \/ round
  <2>1. CacheValid /\ cache.found = 1
    BY <1>1 DEF GetList, Lists, Silent
  <2>2. heard \in Int /\ age \in Int /\ Ttl \in Int /\ age < Ttl
    BY <2>1, SessionAssumption DEF TypeOK, CacheValid
  <2> QED
    BY <2>1, <2>2 DEF FreshInv
<1>2. ASSUME NEW p \in Probe PROVE ~(Plug(p) \/ Unplug(p) \/ Settle(p))
  BY DEF Plug, Unplug, Settle, Silent
<1>3. ~(Tick \/ Restart \/ OpenEx \/ Find \/ OpenCom)
  BY DEF Tick, Restart, OpenEx, Find, OpenCom, Silent
<1>4. ~(GetVersion \/ Diagnose \/ OpenUart \/ Close \/ Search \/ OpenForSerial \/ ReadSerial)
  BY DEF GetVersion, Diagnose, OpenUart, Close, Search, OpenForSerial, ReadSerial, Silent
<1>5. ~GetSpeed /\ ~CallFails
  BY DEF GetSpeed, CallFails, Silent
<1>6. ASSUME NEW p \in Probe PROVE ~SelectByUSBSN(Version[p])
  BY DEF SelectByUSBSN, Silent
<1>7. ASSUME NEW khz \in Khz PROVE ~SetSpeed(khz)
  BY DEF SetSpeed, Silent
<1> QED
  BY <1>1, <1>2, <1>3, <1>4, <1>5, <1>6, <1>7 DEF Next

\* JLINKARM_EMU_GetList lists no probe from a cache older than CACHE_TTL_MS, unless
\* GetTickCount has come round to the cache's time.
THEOREM ListFreshHolds == Spec => ListFresh
<1>1. Init => FreshInv
  BY DEF Init, FreshInv
<1>2. TypeOK /\ FreshInv /\ [Next]_vars =>
        [/\ ret'.fn = "GetList" /\ ret'.val = 1
         /\ pc = "idle" /\ ~is_open
         => heard < Ttl \/ round]_vars
  BY ListFreshStep
<1>3. SessionInv => TypeOK
  BY DEF SessionInv
<1> QED
  BY <1>1, <1>2, <1>3, FreshStep, SessionInvariant, PTL DEF Spec, ListFresh

-------------------------------------------------------------------------------
(* The clock.                                                              *)

\* A call that fails ends the calm.
LEMMA FailsStep == ASSUME ClockInv, NEW p, NEW cmd, Fails(p, cmd),
                          UNCHANGED <<is_open, set>>
                   PROVE  ClockInv'
  BY DEF Fails, ClockInv

\* No step but SetSpeed changes what a calm session's probe has for a clock.
LEMMA ClockStep == SessionInv /\ ClockInv /\ [Next]_vars => ClockInv'
<1> SUFFICES ASSUME SessionInv, ClockInv, [Next]_vars PROVE ClockInv'
  OBVIOUS
<1> USE DEF SessionInv
<1>1. CASE UNCHANGED <<owing, clockOf, hCOM, gone, is_open, set, calm, speed>>
  BY <1>1 DEF ClockInv
<1>2. ASSUME NEW p \in Probe, Plug(p) PROVE ClockInv'
  BY <1>1, <1>2 DEF Plug, handles, session
<1>3. ASSUME NEW p \in Probe, Unplug(p) PROVE ClockInv'
  <2>1. CASE hCOM = p
    <3>1. <<p, "com">> \in gone'
      <4>1. <<p, "com">> \in owned
        BY <2>1, SessionAssumption DEF Handles, Held
      <4> QED
        BY <1>3, <4>1 DEF Unplug
    <3>2. hCOM' = p /\ UNCHANGED <<is_open, set, calm>>
      BY <1>3, <2>1 DEF Unplug, history
    <3> QED
      BY <2>1, <3>1, <3>2 DEF ClockInv
  <2>2. CASE hCOM # p
    <3>1. /\ clockOf' = [clockOf EXCEPT ![p] = BootKhz]
          /\ owing' = [owing EXCEPT ![p] = {}]
          /\ gone \subseteq gone'
          /\ UNCHANGED <<hCOM, is_open, set, calm, speed>>
      BY <1>3 DEF Unplug, Started, session, history
    <3>2. calm => hCOM \in Probe
      BY DEF ClockInv, TypeOK, Handle
    <3>3. calm => clockOf'[hCOM] = clockOf[hCOM] /\ owing'[hCOM] = owing[hCOM]
      BY <2>2, <3>1, <3>2 DEF TypeOK
    <3> QED
      BY <3>1, <3>3 DEF ClockInv
  <2> QED
    BY <2>1, <2>2
<1>4. ASSUME NEW p \in Probe, Settle(p) PROVE ClockInv'
  <2>1. PICK hz \in owing[p] :
          /\ owing' = [owing EXCEPT ![p] = owing[p] \ {hz}]
          /\ \/ clockOf' = [clockOf EXCEPT ![p] = SetClock(hz, clockOf[p])]
             \/ clockOf' = clockOf
    BY <1>4 DEF Settle
  <2>2. UNCHANGED <<hCOM, gone, is_open, set, calm, speed>>
    BY <1>4 DEF Settle, handles, session, history
  <2>3. ASSUME calm, <<hCOM, "com">> \notin gone
        PROVE  clockOf'[hCOM] = clockOf[hCOM] /\ owing'[hCOM] = owing[hCOM]
    <3>1. hCOM \in Probe /\ hCOM # p
      BY <2>1, <2>3 DEF ClockInv, TypeOK, Handle
    <3> QED
      BY <2>1, <3>1 DEF TypeOK
  <2> QED
    BY <2>2, <2>3 DEF ClockInv
<1>5. CASE Tick
  BY <1>1, <1>5 DEF Tick, device, handles
<1>6. CASE Restart
  BY <1>6 DEF Restart, ClockInv
<1>7. CASE OpenEx
  BY <1>1, <1>7 DEF OpenEx, device, handles, session
<1>8. CASE Find \/ Search \/ ReadSerial
  <2>1. hCOM = none
    BY <1>8 DEF Find, Search, ReadSerial, Handles, TypeOK
  <2>2. hCOM' = hCOM /\ UNCHANGED <<is_open, set>>
    BY <1>8 DEF Find, Search, ReadSerial, handles
  <2>3. ~calm
    BY <2>1 DEF ClockInv
  <2>4. ~calm'
    BY <1>8, <2>3 DEF Find, Search, ReadSerial, Fails
  <2> QED
    BY <2>2, <2>4 DEF ClockInv
<1>9. CASE OpenCom
  <2>1. hCOM = none /\ ~is_open
    BY <1>9 DEF OpenCom, Handles, TypeOK
  <2>2. UNCHANGED <<is_open, set, owing>>
    BY <1>9 DEF OpenCom, device
  <2>3. ~calm /\ ~set
    BY <2>1 DEF ClockInv
  <2>4. CASE hCOM' = port /\ calm' = (owing[port] = {})
    <3>1. port # none
      BY <1>9, SessionAssumption DEF OpenCom, PortInv
    <3> QED
      BY <2>2, <2>3, <2>4, <3>1 DEF ClockInv
  <2>5. CASE calm' = calm
    BY <2>2, <2>3, <2>5 DEF ClockInv
  <2> QED
    BY <1>9, <2>4, <2>5 DEF OpenCom
<1>10. CASE GetVersion \/ Diagnose
  <2>1. UNCHANGED <<clockOf, hCOM, gone, is_open, set, speed>>
    BY <1>10 DEF GetVersion, Diagnose, handles, session
  <2>2. (owing' = owing /\ calm' = calm) \/ Fails(hCOM, 0)
    BY <1>10 DEF GetVersion, Diagnose
  <2> QED
    BY <1>1, <2>1, <2>2, FailsStep
<1>11. CASE OpenUart
  <2>1. UNCHANGED <<owing, clockOf, hCOM, gone, set, calm, speed>> /\ is_open'
    BY <1>11 DEF OpenUart, session, history
  <2> QED
    BY <2>1 DEF ClockInv
<1>12. CASE Close
  BY <1>12 DEF Close, ClockInv
<1>13. ASSUME NEW array \in BOOLEAN, GetList(array) PROVE ClockInv'
  BY <1>1, <1>13 DEF GetList, device, handles, history
<1>14. CASE OpenForSerial
  BY <1>1, <1>14 DEF OpenForSerial, device
<1>15. ASSUME NEW p \in Probe, SelectByUSBSN(Version[p]) PROVE ClockInv'
  BY <1>1, <1>15 DEF SelectByUSBSN, device, handles, history
<1>16. ASSUME NEW khz \in Khz, SetSpeed(khz) PROVE ClockInv'
  <2>1. is_open /\ UNCHANGED <<hCOM, gone, is_open>> /\ speed' = khz
    BY <1>16 DEF SetSpeed, handles
  <2>2. CASE Fails(hCOM, HzOf(khz))
    BY <2>1, <2>2 DEF Fails, ClockInv
  <2>3. CASE /\ clockOf' = [clockOf EXCEPT ![hCOM] = SetClock(HzOf(khz), clockOf[hCOM])]
             /\ UNCHANGED <<owing, calm>>
    <3>1. hCOM \in Probe
      BY <2>1 DEF Handles, TypeOK, Handle
    <3>2. clockOf'[hCOM] = SetClock(HzOf(khz), clockOf[hCOM]) /\ clockOf[hCOM] \in Nat \ {0}
      BY <2>3, <3>1 DEF TypeOK
    <3>3. khz > 0 /\ khz * Thousand < Wrap => clockOf'[hCOM] = khz
      BY <3>2, ClockThere
    <3> QED
      BY <2>1, <2>3, <3>3 DEF ClockInv
  <2> QED
    BY <1>16, <2>2, <2>3 DEF SetSpeed
<1>17. CASE GetSpeed \/ CallFails
  <2>1. UNCHANGED <<clockOf, hCOM, gone, is_open, set, speed>>
    BY <1>17 DEF GetSpeed, CallFails, handles, session
  <2>2. (owing' = owing /\ calm' = calm) \/ Fails(hCOM, 0)
    BY <1>17 DEF GetSpeed, CallFails
  <2> QED
    BY <1>1, <2>1, <2>2, FailsStep
<1>18. CASE UNCHANGED vars
  BY <1>1, <1>18 DEF vars, device, handles, session, history
<1> QED
  BY <1>2, <1>3, <1>4, <1>5, <1>6, <1>7, <1>8, <1>9, <1>10, <1>11, <1>12, <1>13, <1>14,
     <1>15, <1>16, <1>17, <1>18 DEF Next

\* What GetSpeed of a calm session returns is the probe's clock.
LEMMA ClockAsSetStep == ASSUME ClockInv, [Next]_vars, vars' # vars,
                               ret'.fn = "GetSpeed", calm', set,
                               speed > 0, speed * Thousand < Wrap
                        PROVE  ret'.val = speed
<1>1. CASE GetSpeed
  <2>1. PICK khz \in Answer(clockOf[hCOM], Khz) :
           ret' = [fn |-> "GetSpeed", val |-> khz] /\ Alive /\ calm' = calm
    BY <1>1 DEF GetSpeed, Fails, ClockInv
  <2> QED
    BY <2>1 DEF Answer, Alive, ClockInv
<1>2. /\ ret' # Silent
      /\ \A v : ret' # [fn |-> "OpenEx", val |-> v] /\ ret' # [fn |-> "GetList", val |-> v]
  BY DEF Silent
<1>3. ASSUME NEW p \in Probe PROVE ~(Plug(p) \/ Unplug(p) \/ Settle(p))
  BY <1>2 DEF Plug, Unplug, Settle
<1>4. ~(Tick \/ Restart \/ OpenEx \/ OpenCom \/ Find)
  BY <1>2 DEF Tick, Restart, OpenEx, Find, OpenCom, OpenFails
<1>5. ~(GetVersion \/ Diagnose \/ OpenUart \/ Close \/ CallFails)
  BY <1>2 DEF GetVersion, Diagnose, OpenUart, Close, CallFails
<1>6. ~(Search \/ OpenForSerial \/ ReadSerial)
  BY <1>2 DEF Search, OpenForSerial, ReadSerial, Fills, Lists
<1>7. ASSUME NEW p \in Probe PROVE ~SelectByUSBSN(Version[p])
  BY <1>2 DEF SelectByUSBSN
<1>8. ASSUME NEW khz \in Khz PROVE ~SetSpeed(khz)
  BY <1>2 DEF SetSpeed
<1>9. ASSUME NEW array \in BOOLEAN PROVE ~GetList(array)
  BY <1>2 DEF GetList, Lists
<1> QED
  BY <1>1, <1>2, <1>3, <1>4, <1>5, <1>6, <1>7, <1>8, <1>9 DEF Next

\* JLINKARM_GetSpeed returns what JLINKARM_SetSpeed was last given, in a session opened on
\* a quiet probe in which no call has failed.
THEOREM ClockAsSetHolds == Spec => ClockAsSet
<1>1. Init => ClockInv
  BY DEF Init, ClockInv
<1>2. ClockInv /\ [Next]_vars =>
        [/\ ret'.fn = "GetSpeed" /\ calm' /\ set
         /\ speed > 0 /\ speed * Thousand < Wrap
         => ret'.val = speed]_vars
  BY ClockAsSetStep
<1> QED
  BY <1>1, <1>2, ClockStep, SessionInvariant, PTL DEF Spec, ClockAsSet

----------------------------------------------------------------------------
(* Words *)

Bits == Seq({0, 1})

\* The words of n bits.
LEMMA WordIs == ASSUME NEW n \in Nat, NEW w
                PROVE  w \in Words(n) <=> w \in Bits /\ Len(w) = n
  BY DEF Words, Bits

\* The word of n times the same bit.
LEMMA ConstIs == ASSUME NEW n \in Nat, NEW b \in {0, 1}
                 PROVE  /\ Const(n, b) \in Words(n) /\ Const(n, b) \in Bits
                        /\ Len(Const(n, b)) = n /\ \A i \in 1..n : Const(n, b)[i] = b
  BY DEF Const, Words, Bits

\* Two words are the same if they have the same bits.
LEMMA SameWord == ASSUME NEW n \in Nat, NEW v \in Words(n), NEW w \in Words(n),
                         \A i \in 1..n : v[i] = w[i]
                  PROVE  v = w
  BY DEF Words

\* A word turned round.
LEMMA ReverseIs == ASSUME NEW w \in Bits
                   PROVE  /\ Reverse(w) \in Bits /\ Len(Reverse(w)) = Len(w)
                          /\ \A i \in 1..Len(w) : Reverse(w)[i] = w[(Len(w) - i) + 1]
<1>1. PICK n \in Nat : n = Len(w)
  BY DEF Bits
<1>2. \A i \in 1..n : (n - i) + 1 \in 1..n
  OBVIOUS
<1>3. w \in [1..n -> {0, 1}]
  BY <1>1 DEF Bits
<1>4. Reverse(w) = [i \in 1..n |-> w[(n - i) + 1]]
  BY <1>1 DEF Reverse
<1>5. Reverse(w) \in [1..n -> {0, 1}]
  BY <1>2, <1>3, <1>4
<1>6. Reverse(w) \in Bits /\ Len(Reverse(w)) = n
  BY <1>5 DEF Bits
<1> QED
  BY <1>1, <1>4, <1>6

\* Two words, one after the other.
LEMMA JoinIs == ASSUME NEW v \in Bits, NEW w \in Bits
                PROVE  /\ v \o w \in Bits /\ Len(v \o w) = Len(v) + Len(w)
                       /\ \A i \in 1..(Len(v) + Len(w)) :
                             (v \o w)[i] = IF i <= Len(v) THEN v[i] ELSE w[i - Len(v)]
                       /\ Len(v) \in Nat /\ Len(w) \in Nat
  BY ConcatProperties DEF Bits

\* A part of a word.
LEMMA CutIs == ASSUME NEW w \in Bits, NEW a \in Nat, NEW n \in Nat, a + n <= Len(w)
               PROVE  /\ SubSeq(w, a + 1, a + n) \in Words(n)
                      /\ \A i \in 1..n : SubSeq(w, a + 1, a + n)[i] = w[a + i]
<1>1. Len(w) \in Nat /\ a + 1 \in Int /\ a + n \in Int
  BY DEF Bits
<1>2. \A i \in (a + 1)..(a + n) : w[i] \in {0, 1}
  <2> TAKE i \in (a + 1)..(a + n)
  <2>1. i \in 1..Len(w)
    BY <1>1
  <2> QED
    BY <2>1 DEF Bits
<1>3. /\ SubSeq(w, a + 1, a + n) \in Bits
      /\ Len(SubSeq(w, a + 1, a + n)) = IF a + 1 <= a + n THEN (a + n) - (a + 1) + 1 ELSE 0
      /\ \A i \in 1..((a + n) - (a + 1) + 1) : SubSeq(w, a + 1, a + n)[i] = w[(a + 1) + i - 1]
  BY <1>1, <1>2, SubSeqProperties DEF Bits
<1>4. /\ (a + n) - (a + 1) + 1 = n
      /\ Len(SubSeq(w, a + 1, a + n)) = n
  BY <1>3
<1>5. \A i \in 1..n : (a + 1) + i - 1 = a + i
  OBVIOUS
<1>6. \A i \in 1..n : SubSeq(w, a + 1, a + n)[i] = w[a + i]
  BY <1>3, <1>4, <1>5
<1> QED
  BY <1>3, <1>4, <1>6, WordIs

\* What is in a chain after a word has been shifted in.
LEMMA ShiftedIs ==
  ASSUME NEW chain \in Bits, NEW word \in Bits
  PROVE  /\ Shifted(chain, word) \in Words(Len(chain))
         /\ \A i \in 1..Len(chain) :
               Shifted(chain, word)[i] = IF i <= Len(word) THEN word[(Len(word) - i) + 1]
                                         ELSE chain[i - Len(word)]
<1> DEFINE r == Reverse(word)
           n == Len(chain)
<1>1. r \in Bits /\ Len(r) = Len(word) /\ \A i \in 1..Len(word) : r[i] = word[(Len(word) - i) + 1]
  BY ReverseIs
<1>2. /\ r \o chain \in Bits /\ Len(r \o chain) = Len(r) + n
      /\ \A i \in 1..(Len(r) + n) : (r \o chain)[i] = IF i <= Len(r) THEN r[i] ELSE chain[i - Len(r)]
      /\ Len(r) \in Nat /\ n \in Nat
  BY <1>1, JoinIs
<1>3. Shifted(chain, word) = SubSeq(r \o chain, 0 + 1, 0 + n)
  BY <1>2 DEF Shifted
<1> HIDE DEF r, n
<1>4. 0 \in Nat /\ 0 + n <= Len(r \o chain) /\ \A i \in 1..n : 0 + i = i
  BY <1>2
<1>5. /\ SubSeq(r \o chain, 0 + 1, 0 + n) \in Words(n)
      /\ \A i \in 1..n : SubSeq(r \o chain, 0 + 1, 0 + n)[i] = (r \o chain)[0 + i]
  BY <1>2, <1>4, CutIs
<1>6. ASSUME NEW i \in 1..n
      PROVE  Shifted(chain, word)[i] = IF i <= Len(word) THEN word[(Len(word) - i) + 1]
                                       ELSE chain[i - Len(word)]
  <2>1. Shifted(chain, word)[i] = (r \o chain)[i]
    BY <1>3, <1>4, <1>5
  <2>2. i \in 1..(Len(r) + n)
    BY <1>2
  <2>3. i <= Len(word) => i \in 1..Len(word)
    BY <1>1, <1>2
  <2> QED
    BY <1>1, <1>2, <2>1, <2>2, <2>3
<1> QED
  BY <1>3, <1>5, <1>6 DEF n

\* What comes out of a chain while a word is shifted in.
LEMMA OutIs ==
  ASSUME NEW chain \in Bits, NEW word \in Bits
  PROVE  /\ Out(chain, word) \in Words(Len(word))
         /\ \A i \in 1..Len(word) :
               Out(chain, word)[i] = IF i <= Len(chain) THEN chain[(Len(chain) - i) + 1]
                                     ELSE word[i - Len(chain)]
<1> DEFINE r == Reverse(chain)
           n == Len(word)
<1>1. r \in Bits /\ Len(r) = Len(chain)
      /\ \A i \in 1..Len(chain) : r[i] = chain[(Len(chain) - i) + 1]
  BY ReverseIs
<1>2. /\ r \o word \in Bits /\ Len(r \o word) = Len(r) + n
      /\ \A i \in 1..(Len(r) + n) : (r \o word)[i] = IF i <= Len(r) THEN r[i] ELSE word[i - Len(r)]
      /\ Len(r) \in Nat /\ n \in Nat
  BY <1>1, JoinIs
<1>3. Out(chain, word) = SubSeq(r \o word, 0 + 1, 0 + n)
  BY <1>2 DEF Out
<1> HIDE DEF r, n
<1>4. 0 \in Nat /\ 0 + n <= Len(r \o word) /\ \A i \in 1..n : 0 + i = i
  BY <1>2
<1>5. /\ SubSeq(r \o word, 0 + 1, 0 + n) \in Words(n)
      /\ \A i \in 1..n : SubSeq(r \o word, 0 + 1, 0 + n)[i] = (r \o word)[0 + i]
  BY <1>2, <1>4, CutIs
<1>6. ASSUME NEW i \in 1..n
      PROVE  Out(chain, word)[i] = IF i <= Len(chain) THEN chain[(Len(chain) - i) + 1]
                                   ELSE word[i - Len(chain)]
  <2>1. Out(chain, word)[i] = (r \o word)[i]
    BY <1>3, <1>4, <1>5
  <2>2. i \in 1..(Len(r) + n)
    BY <1>2
  <2>3. i <= Len(chain) => i \in 1..Len(chain)
    BY <1>1, <1>2
  <2> QED
    BY <1>1, <1>2, <2>1, <2>2, <2>3
<1> QED
  BY <1>3, <1>5, <1>6 DEF n

----------------------------------------------------------------------------
(* The chain *)

\* The devices are numbered from one.
LEMMA DevicesAre == /\ N \in Nat /\ N > 0 /\ Device = 1..N
                    /\ \A d \in Device : IRLen[d] \in Nat \ {0}
                    /\ \A d \in Device : IdCode[d] \in Bits
<1>1. N \in Nat /\ N > 0 /\ Device = 1..N /\ \A d \in 1..N : IRLen[d] \in Nat \ {0}
  BY ChainAssumption DEF N, Device
<1>2. IdCode \in Seq(Seq({0, 1})) /\ Len(IdCode) = N
  BY ChainAssumption
<1>3. \A d \in 1..N : IdCode[d] \in Seq({0, 1})
  BY <1>2
<1> QED
  BY <1>1, <1>3 DEF Bits

\* The place of a device from TDI.
Place(d) == (N + 1) - d

\* Order and Place undo each other.
LEMMA PlaceIs ==
  /\ Order \in [Device -> Device]
  /\ \A d \in Device : Place(d) \in Device /\ Order[Place(d)] = d
  /\ \A i \in Device : Place(Order[i]) = i
<1> USE DevicesAre
<1>1. Order = [i \in Device |-> (N + 1) - i] /\ \A d \in Device : Place(d) = (N + 1) - d
  BY DEF Order, Place
<1>2. \A d \in Device : (N + 1) - d \in Device /\ (N + 1) - ((N + 1) - d) = d
  OBVIOUS
<1> QED
  BY <1>1, <1>2

\* It is a number from one to N.
LEMMA PlaceBounds == ASSUME NEW d \in Device
                     PROVE  /\ Place(d) \in 1..N /\ Place(d) \in 0..N /\ N \in 0..N
                            /\ Place(d) - 1 \in 0..N /\ Place(d) - 1 \in Nat
<1>1. Place(d) \in Device
  BY PlaceIs
<1>2. PICK k : k = Place(d)
  OBVIOUS
<1>3. k \in 1..N /\ N \in Nat
  BY <1>1, <1>2, DevicesAre
<1>4. k \in 0..N /\ N \in 0..N /\ k - 1 \in 0..N /\ k - 1 \in Nat
  BY <1>3
<1> QED
  BY <1>2, <1>3, <1>4

\* The registers of the devices, and the same from TDI to TDO.
Registers == [Device -> Bits]
Laid(reg) == [i \in Device |-> reg[Order[i]]]

\* They are a sequence of words.
LEMMA LaidIs == ASSUME NEW reg \in Registers
                PROVE  /\ Laid(reg) \in Seq(Bits) /\ Len(Laid(reg)) = N
                       /\ \A i \in Device : Laid(reg)[i] = reg[Order[i]]
                       /\ \A d \in Device : Laid(reg)[Place(d)] = reg[d]
<1>1. Laid(reg) \in [1..N -> Bits]
  BY DevicesAre, PlaceIs DEF Laid, Registers
<1>2. \A i \in Device : Laid(reg)[i] = reg[Order[i]]
  BY DEF Laid
<1>3. \A d \in Device : Laid(reg)[Place(d)] = reg[d]
  BY <1>2, PlaceIs
<1> QED
  BY <1>1, <1>2, <1>3, DevicesAre

\* The registers of a chain are its parts, one after the other.
LEMMA JoinedIs ==
  ASSUME NEW reg \in Registers, NEW off, Offsets(off, Laid(reg))
  PROVE  /\ Joined(reg) \in Bits /\ Len(Joined(reg)) = off[N]
         /\ \A d \in Device : \A j \in 1..Len(reg[d]) : Joined(reg)[off[Place(d) - 1] + j] = reg[d][j]
<1>1. Joined(reg) = FlattenSeq(Laid(reg))
  BY DEF Joined, Laid
<1>2. Laid(reg) \in Seq(Seq({0, 1}))
  BY LaidIs DEF Bits
<1>3. Flat(FlattenSeq(Laid(reg)), Laid(reg), Len(Laid(reg)), off, {0, 1})
  BY <1>2, Flattened
<1>4. Flat(Joined(reg), Laid(reg), N, off, {0, 1})
  BY <1>1, <1>3, LaidIs
<1>5. ASSUME NEW d \in Device, NEW j \in 1..Len(reg[d])
      PROVE  Joined(reg)[off[Place(d) - 1] + j] = reg[d][j]
  <2>1. Place(d) \in 1..N /\ Laid(reg)[Place(d)] = reg[d]
    BY PlaceIs, DevicesAre, LaidIs
  <2> QED
    BY <1>4, <2>1 DEF Flat
<1> QED
  BY <1>4, <1>5 DEF Flat, Bits

\* Where the part of a device begins and ends.
LEMMA PlacesAre ==
  ASSUME NEW reg \in Registers, NEW off, Offsets(off, Laid(reg)), NEW d \in Device
  PROVE  /\ off[Place(d) - 1] \in Nat /\ off[Place(d)] \in Nat /\ off[N] \in Nat /\ Len(reg[d]) \in Nat
         /\ off[Place(d)] = off[Place(d) - 1] + Len(reg[d])
         /\ off[Place(d)] <= off[N]
<1>1. Place(d) \in 1..N /\ Place(d) - 1 \in 0..N /\ Place(d) \in 0..N /\ N \in 0..N
  BY PlaceBounds
<1>2. Laid(reg) \in Seq(Seq({0, 1})) /\ Len(Laid(reg)) = N /\ Laid(reg)[Place(d)] = reg[d]
  BY LaidIs DEF Bits
<1>3. off[Place(d)] <= off[N]
  BY <1>1, <1>2, OffsetsGrow
<1>4. Len(reg[d]) \in Nat
  BY DEF Registers, Bits
<1> QED
  BY <1>1, <1>2, <1>3, <1>4 DEF Offsets

\* The part of a device in a chain.
LEMMA PartIs ==
  ASSUME NEW reg \in Registers, NEW off, Offsets(off, Laid(reg)), NEW d \in Device,
         NEW chain \in Bits, Len(chain) = off[N]
  PROVE  /\ Part(chain, reg, d) \in Words(Len(reg[d]))
         /\ \A j \in 1..Len(reg[d]) : Part(chain, reg, d)[j] = chain[off[Place(d) - 1] + j]
<1>1. Place(d) \in Device /\ Place(d) - 1 \in Nat /\ Place(d) - 1 \in 0..N
  BY PlaceIs, PlaceBounds
<1>2. (CHOOSE i \in Device : Order[i] = d) = Place(d)
  <2>1. \A i \in Device : Order[i] = d => i = Place(d)
    BY PlaceIs
  <2>2. Order[Place(d)] = d
    BY PlaceIs
  <2> QED
    BY <1>1, <2>1, <2>2
<1>k. PICK k : k = Place(d) - 1
  OBVIOUS
<1>n. k \in Nat /\ k \in 0..N /\ N \in Nat /\ \A i \in 0..k : i \in 0..N
  <2>1. k \in Nat /\ k \in 0..N /\ N \in Nat
    BY <1>1, <1>k, DevicesAre
  <2> QED
    BY <2>1
<1> DEFINE s == [i \in 1..k |-> reg[Order[i]]]
           o == [i \in 0..k |-> off[i]]
<1>3. /\ Laid(reg) \in Seq(Seq({0, 1})) /\ Len(Laid(reg)) = N
      /\ \A i \in 1..N : Laid(reg)[i] = reg[Order[i]]
  BY LaidIs, DevicesAre DEF Bits
<1>4. /\ s \in Seq(Seq({0, 1})) /\ Len(s) = k
      /\ \A i \in 1..k : i \in 1..N /\ s[i] = Laid(reg)[i]
  <2>1. \A i \in 1..k : i \in 1..N
    BY <1>n
  <2>2. \A i \in 1..k : s[i] = Laid(reg)[i] /\ s[i] \in Seq({0, 1})
    BY <1>3, <2>1
  <2>3. s \in [1..k -> Seq({0, 1})]
    BY <2>2
  <2> HIDE DEF s
  <2> QED
    BY <1>n, <2>1, <2>2, <2>3
<1>5. Offsets(o, s)
  <2>1. \A i \in 0..k : i \in 0..N /\ o[i] = off[i] /\ off[i] \in Nat
    BY <1>n, <1>3 DEF Offsets
  <2>2. o \in [0..k -> Nat] /\ o[0] = 0
    BY <1>n, <2>1 DEF Offsets
  <2>3. ASSUME NEW i \in 1..k PROVE o[i] = o[i - 1] + Len(s[i])
    <3>1. i \in 0..k /\ i - 1 \in 0..k /\ i \in 1..N
      BY <1>n
    <3>2. off[i] = off[i - 1] + Len(Laid(reg)[i])
      BY <1>3, <3>1 DEF Offsets
    <3> QED
      BY <1>4, <2>1, <3>1, <3>2
  <2> HIDE DEF o, s
  <2> QED
    BY <1>4, <2>2, <2>3 DEF Offsets
<1>6. Len(FlattenSeq(s)) = off[k]
  <2>1. o[k] = off[k]
    BY <1>n
  <2> HIDE DEF o, s
  <2>2. Flat(FlattenSeq(s), s, Len(s), o, {0, 1})
    BY <1>4, <1>5, Flattened
  <2> QED
    BY <1>4, <2>1, <2>2 DEF Flat
<1>7. Part(chain, reg, d) = SubSeq(chain, off[k] + 1, off[k] + Len(reg[d]))
  BY <1>2, <1>6, <1>k, Zenon DEF Part
<1>8. off[k] \in Nat /\ Len(reg[d]) \in Nat /\ off[k] + Len(reg[d]) <= Len(chain)
  BY <1>k, PlacesAre
<1> HIDE DEF s, o
<1>9. /\ SubSeq(chain, off[k] + 1, off[k] + Len(reg[d])) \in Words(Len(reg[d]))
      /\ \A j \in 1..Len(reg[d]) :
            SubSeq(chain, off[k] + 1, off[k] + Len(reg[d]))[j] = chain[off[k] + j]
  BY <1>8, CutIs
<1> QED
  BY <1>7, <1>9, <1>k

\* Every chain has its offsets.
LEMMA ChainOffsets == ASSUME NEW reg \in Registers PROVE \E off : Offsets(off, Laid(reg))
<1>1. Laid(reg) \in Seq(Seq({0, 1}))
  BY LaidIs DEF Bits
<1> QED
  BY <1>1, OffsetsExist

----------------------------------------------------------------------------
(* Sums *)

\* The sums of the first numbers of s.
Sums(p, s) == /\ p \in [0..Len(s) -> Nat] /\ p[0] = 0
              /\ \A i \in 1..Len(s) : p[i] = p[i - 1] + s[i]

\* Every sequence of numbers has its sums.
LEMMA SumsExist == ASSUME NEW s \in Seq(Nat) PROVE \E p : Sums(p, s)
<1> DEFINE step == [k \in 1..Len(s) |-> [x \in Nat |-> x + s[k]]]
<1>1. \A k \in 1..Len(s) : s[k] \in Nat
  OBVIOUS
<1>2. step \in [1..Len(s) -> [Nat -> Nat]]
  BY <1>1
<1>3. Len(s) \in Nat /\ 0 \in Nat
  OBVIOUS
<1>4. PICK p : Recursive(p, Len(s), Nat, 0, step)
  <2> HIDE DEF step
  <2> QED
    BY <1>2, <1>3, Recursion
<1>5. \A i \in 1..Len(s) : p[i] = p[i - 1] + s[i]
  <2> TAKE i \in 1..Len(s)
  <2>1. i - 1 \in 0..Len(s)
    OBVIOUS
  <2>2. p[i - 1] \in Nat /\ p[i] = step[i][p[i - 1]]
    <3> HIDE DEF step
    <3> QED
      BY <1>4, <2>1 DEF Recursive
  <2> QED
    BY <2>2
<1> QED
  BY <1>4, <1>5 DEF Sums, Recursive

\* SumOf is the last of them.
LEMMA SumIs == ASSUME NEW s \in Seq(Nat), NEW p, Sums(p, s)
               PROVE  SumOf(s) = p[Len(s)] /\ SumOf(s) \in Nat
<1>1. PICK n \in Nat : n = Len(s) /\ DOMAIN s = 1..n
  OBVIOUS
<1> DEFINE iter[t \in SUBSET DOMAIN s] == IF t = {} THEN 0
                                          ELSE LET x == Max(t) IN iter[t \ {x}] + s[x]
           step == [k \in 1..n |-> [x \in Nat |-> x + s[k]]]
<1>2. SumOf(s) = iter[DOMAIN s]
  BY Zenon DEF SumOf, FoldLeft, MapThenFoldSet
<1>3. \A k \in 1..n : s[k] \in Nat
  BY <1>1
<1>4. step \in [1..n -> [Nat -> Nat]]
  BY <1>3
<1>5. PICK f \in [SUBSET (1..n) -> Nat] : Fold(f, SUBSET (1..n), 0, step)
  <2> HIDE DEF step
  <2>1. 0 \in Nat
    OBVIOUS
  <2> QED
    BY <1>4, <2>1, FoldExists
<1>6. ASSUME NEW t \in SUBSET (1..n)
      PROVE  f[t] = IF t = {} THEN 0 ELSE LET x == Max(t) IN f[t \ {x}] + s[x]
  <2>1. CASE t = {}
    BY <1>5, <2>1 DEF Fold
  <2>2. CASE t # {}
    <3>1. Max(t) \in 1..n
      BY <2>2, MaxIn
    <3>2. PICK x \in 1..n : x = Max(t)
      BY <3>1
    <3>3. f[t] = step[x][f[t \ {x}]]
      <4> HIDE DEF step
      <4> QED
        BY <1>5, <2>2, <3>2 DEF Fold
    <3>4. f[t \ {x}] \in Nat
      BY <1>5
    <3>5. f[t] = f[t \ {x}] + s[x]
      BY <3>3, <3>4
    <3> QED
      BY <2>2, <3>2, <3>5
  <2> QED
    BY <2>1, <2>2
<1>7. f = [t \in SUBSET DOMAIN s |-> IF t = {} THEN 0 ELSE LET x == Max(t) IN f[t \ {x}] + s[x]]
  <2>1. f = [t \in SUBSET (1..n) |-> f[t]]
    BY <1>5
  <2> QED
    BY <1>1, <1>6, <2>1
<1>8. iter = [t \in SUBSET DOMAIN s |-> IF t = {} THEN 0
                                         ELSE LET x == Max(t) IN iter[t \ {x}] + s[x]]
  <2>1. \E h : h = [t \in SUBSET DOMAIN s |-> IF t = {} THEN 0
                                               ELSE LET x == Max(t) IN h[t \ {x}] + s[x]]
    BY <1>7
  <2> QED
    BY <2>1, Zenon
<1> HIDE DEF iter, step
<1> DEFINE G == {k \in 0..n : iter[1..k] = p[k]}
<1>9. 0 \in G
  <2>1. 1..0 = {} /\ {} \in SUBSET DOMAIN s
    OBVIOUS
  <2> QED
    BY <1>8, <2>1 DEF Sums
<1>10. ASSUME NEW k \in 0..(n - 1), k \in G PROVE k + 1 \in G
  <2>1. PICK m \in 1..n : m = k + 1
    OBVIOUS
  <2>2. m \in Nat \ {0} /\ 1..m \in SUBSET (1..n) /\ m \in 1..m /\ m - 1 = k
    BY <1>1, <2>1
  <2>e. 1..m # {} /\ 1..m \in SUBSET DOMAIN s
    BY <1>1, <2>2
  <2>3. Max(1..m) = m /\ (1..m) \ {m} = 1..k
    BY <2>2, MaxTo
  <2>4. iter[1..m] = iter[1..k] + s[m]
    BY <1>8, <2>e, <2>3
  <2>5. p[m] = p[k] + s[m]
    BY <1>1, <2>2 DEF Sums
  <2> QED
    BY <1>10, <2>1, <2>4, <2>5
<1>11. 0..n \subseteq G
  <2> HIDE DEF G
  <2> QED
    BY <1>9, <1>10, UpTo
<1>12. n \in 0..n /\ p[n] \in Nat
  BY <1>1 DEF Sums
<1> QED
  BY <1>1, <1>2, <1>11, <1>12

\* The sums do not decrease.
LEMMA SumsGrow == ASSUME NEW s \in Seq(Nat), NEW p, Sums(p, s), NEW k \in 0..Len(s), NEW i \in 0..k
                  PROVE  p[i] <= p[k]
<1> DEFINE G == {j \in 0..(k - i) : p[i] <= p[i + j]}
<1>0. /\ Len(s) \in Nat /\ k - i \in Nat /\ i \in 0..Len(s)
  OBVIOUS
<1>1. /\ Len(s) \in Nat /\ k - i \in Nat /\ i \in 0..Len(s)
      /\ \A j \in 0..Len(s) : p[j] \in Nat
  BY <1>0 DEF Sums
<1>2. 0 \in G
  <2>1. i + 0 = i /\ p[i] <= p[i] /\ 0 \in 0..(k - i)
    BY <1>1
  <2> QED
    BY <2>1
<1>3. ASSUME NEW j \in 0..((k - i) - 1), j \in G PROVE j + 1 \in G
  <2>1. PICK n \in 1..Len(s) : n = i + (j + 1)
    BY <1>1
  <2>2. n - 1 = i + j /\ n - 1 \in 0..Len(s) /\ n \in 0..Len(s)
    BY <1>1, <2>1
  <2>3. p[n] = p[n - 1] + s[n] /\ s[n] \in Nat
    BY DEF Sums
  <2>4. p[i] <= p[n]
    BY <1>1, <1>3, <2>2, <2>3
  <2> QED
    BY <2>1, <2>4
<1>4. 0..(k - i) \subseteq G
  <2> HIDE DEF G
  <2> QED
    BY <1>1, <1>2, <1>3, UpTo
<1>5. k - i \in 0..(k - i) /\ i + (k - i) = k
  BY <1>1
<1>6. p[i] <= p[i + (k - i)]
  BY <1>4, <1>5
<1> QED
  BY <1>5, <1>6

\* The sum of a part of s.
LEMMA SumOfPart ==
  ASSUME NEW s \in Seq(Nat), NEW p, Sums(p, s), NEW a \in Nat, NEW b \in a..Len(s)
  PROVE  SumOf(SubSeq(s, a + 1, b)) = p[b] - p[a] /\ p[b] - p[a] \in Nat
<1>1. /\ Len(s) \in Nat /\ a + 1 \in Int /\ b \in Int /\ b - a \in Nat /\ a \in 0..b /\ b \in 0..Len(s)
      /\ \A i \in (a + 1)..b : i \in 1..Len(s)
  OBVIOUS
<1>2. \A i \in (a + 1)..b : s[i] \in Nat
  BY <1>1
<1>3. /\ SubSeq(s, a + 1, b) \in Seq(Nat)
      /\ Len(SubSeq(s, a + 1, b)) = IF a + 1 <= b THEN b - (a + 1) + 1 ELSE 0
      /\ \A i \in 1..(b - (a + 1) + 1) : SubSeq(s, a + 1, b)[i] = s[(a + 1) + i - 1]
  BY <1>1, <1>2, SubSeqProperties
<1> DEFINE t == SubSeq(s, a + 1, b)
           q == [i \in 0..(b - a) |-> p[a + i] - p[a]]
<1>4. /\ t \in Seq(Nat) /\ Len(t) = b - a
      /\ \A i \in 1..(b - a) : t[i] = s[a + i]
  <2>1. b - (a + 1) + 1 = b - a /\ (a + 1 > b => b - a = 0) /\ \A i \in 1..(b - a) : (a + 1) + i - 1 = a + i
    BY <1>1
  <2>2. Len(SubSeq(s, a + 1, b)) = b - a
    BY <1>1, <1>3, <2>1
  <2>3. \A i \in 1..(b - a) : SubSeq(s, a + 1, b)[i] = s[a + i]
    BY <1>3, <2>1
  <2> QED
    BY <1>3, <2>2, <2>3
<1> HIDE DEF t
<1>5. \A i \in 0..(b - a) : p[a] \in Nat /\ p[a + i] \in Nat /\ p[a + i] - p[a] \in Nat
  <2> TAKE i \in 0..(b - a)
  <2>1. PICK k \in 0..Len(s) : k = a + i
    BY <1>1
  <2>2. a \in 0..k /\ a \in 0..Len(s)
    BY <1>1, <2>1
  <2>3. p[a] <= p[k] /\ p[a] \in Nat /\ p[k] \in Nat
    BY <2>2, SumsGrow DEF Sums
  <2> QED
    BY <2>1, <2>3
<1>6. Sums(q, t)
  <2>1. q \in [0..(b - a) -> Nat]
    BY <1>5
  <2>2. q[0] = 0
    <3>1. 0 \in 0..(b - a) /\ a + 0 = a
      BY <1>1
    <3>2. q[0] = p[a + 0] - p[a] /\ p[a] \in Nat
      BY <1>5, <3>1
    <3> HIDE DEF q
    <3>3. p[a + 0] = p[a]
      BY <3>1
    <3> QED
      BY <3>2, <3>3
  <2>3. ASSUME NEW i \in 1..(b - a) PROVE q[i] = q[i - 1] + t[i]
    <3>1. PICK k \in 1..Len(s) : k = a + i
      BY <1>1
    <3>2. p[k] = p[k - 1] + s[k] /\ k - 1 = a + (i - 1)
      BY <3>1 DEF Sums
    <3>3. i \in 0..(b - a) /\ i - 1 \in 0..(b - a)
      BY <1>1
    <3>4. q[i] = p[a + i] - p[a] /\ q[i - 1] = p[a + (i - 1)] - p[a]
      BY <3>3
    <3>5. p[a] \in Nat /\ p[a + i] \in Nat /\ p[a + (i - 1)] \in Nat /\ s[k] \in Nat
      <4>1. s[k] \in Nat
        BY <3>1
      <4> HIDE DEF q
      <4> QED
        BY <1>5, <3>3, <4>1
    <3>6. p[a + i] = p[a + (i - 1)] + s[k] /\ t[i] = s[k]
      BY <1>4, <3>1, <3>2
    <3> HIDE DEF q
    <3>7. PICK x \in Nat, y \in Nat, z \in Nat : x = p[a + (i - 1)] /\ y = s[k] /\ z = p[a]
      BY <3>5
    <3>8. q[i] = (x + y) - z /\ q[i - 1] = x - z /\ t[i] = y
      BY <3>4, <3>6, <3>7
    <3>9. (x + y) - z = (x - z) + y
      OBVIOUS
    <3> QED
      BY <3>8, <3>9
  <2> HIDE DEF q
  <2> QED
    BY <1>4, <2>1, <2>2, <2>3 DEF Sums
<1>7. q[b - a] = p[b] - p[a]
  <2>1. b - a \in 0..(b - a) /\ a + (b - a) = b
    BY <1>1
  <2> QED
    BY <2>1
<1> HIDE DEF q
<1>8. SumOf(t) = q[Len(t)] /\ SumOf(t) \in Nat
  BY <1>4, <1>6, SumIs
<1> QED
  BY <1>4, <1>7, <1>8 DEF t

----------------------------------------------------------------------------
(* The registers that are captured *)

\* The words a type-correct state captures, with the lengths of the registers.
LEMMA Captured ==
  ASSUME ChainTypeOK
  PROVE  /\ CaptureIR \in Registers /\ CaptureDR \in Registers
         /\ \A d \in Device : CaptureIR[d] \in Words(IRLen[d])
         /\ \A d \in Device : CaptureDR[d] = IF Bypassed(d) THEN <<0>>
                                             ELSE IF ir[d] = Reset(d) THEN IdCode[d]
                                             ELSE data[d]
         /\ \A d \in Device : ~Bypassed(d) /\ ir[d] # Reset(d) => CaptureDR[d] \in Words(DRLen)
<1>1. DRLen \in Nat
  BY ChainAssumption
<1>2. \A d \in Device : CaptureIR[d] \in Words(IRLen[d]) /\ CaptureIR[d] \in Bits
  <2> TAKE d \in Device
  <2>1. IRLen[d] \in Nat
    BY DevicesAre
  <2>2. CaptureIR[d] = [Const(IRLen[d], 0) EXCEPT ![IRLen[d]] = 1]
    BY DEF CaptureIR
  <2>3. CaptureIR[d] \in Words(IRLen[d])
    BY <2>1, <2>2 DEF Const, Words
  <2> QED
    BY <2>1, <2>3, WordIs
<1>3. CaptureIR \in Registers
  BY <1>2 DEF CaptureIR, Registers
<1>4. \A d \in Device : CaptureDR[d] = IF Bypassed(d) THEN <<0>>
                                       ELSE IF ir[d] = Reset(d) THEN IdCode[d]
                                       ELSE data[d]
  BY DEF CaptureDR
<1>5. \A d \in Device : data[d] \in Words(DRLen) /\ data[d] \in Bits
  BY <1>1, WordIs DEF ChainTypeOK
<1>6. <<0>> \in Bits
  BY DEF Bits
<1>7. \A d \in Device : CaptureDR[d] \in Bits
  BY <1>4, <1>5, <1>6, DevicesAre
<1>8. CaptureDR \in Registers
  BY <1>7 DEF CaptureDR, Registers
<1> QED
  BY <1>2, <1>3, <1>4, <1>5, <1>8

\* Every register has a bit: the chain is not empty.
LEMMA ChainLength ==
  ASSUME NEW reg \in Registers, NEW d \in Device, Len(reg[d]) > 0
  PROVE  Joined(reg) \in Bits /\ Len(Joined(reg)) \in Nat \ {0}
<1>1. PICK off : Offsets(off, Laid(reg))
  BY ChainOffsets
<1>2. Joined(reg) \in Bits /\ Len(Joined(reg)) = off[N]
  BY <1>1, JoinedIs
<1>3. /\ off[Place(d) - 1] \in Nat /\ off[Place(d)] \in Nat /\ off[N] \in Nat /\ Len(reg[d]) \in Nat
      /\ off[Place(d)] = off[Place(d) - 1] + Len(reg[d])
      /\ off[Place(d)] <= off[N]
  BY <1>1, PlacesAre
<1> QED
  BY <1>2, <1>3

\* The part of a device in what is shifted into a chain is as long as its register.
LEMMA PartsAre ==
  ASSUME NEW reg \in Registers, NEW chain \in Words(Len(Joined(reg))), NEW d \in Device
  PROVE  Part(chain, reg, d) \in Words(Len(reg[d]))
<1>1. PICK off : Offsets(off, Laid(reg))
  BY ChainOffsets
<1>2. Joined(reg) \in Bits /\ Len(Joined(reg)) = off[N]
  BY <1>1, JoinedIs
<1>3. Len(Joined(reg)) \in Nat
  BY <1>2 DEF Bits
<1>4. chain \in Bits /\ Len(chain) = off[N]
  BY <1>2, <1>3, WordIs
<1> QED
  BY <1>1, <1>4, PartIs

----------------------------------------------------------------------------
(* The padding *)

IRPad == PadBits(TRUE)
DRPad == PadBits(FALSE)
IRScan(word) == StoreGetRaw(CaptureIR, word, TRUE)
DRScan(word) == StoreGetRaw(CaptureDR, word, FALSE)
IRWord(word) == Const(IRPad[1], 1) \o word \o Const(IRPad[2], 1)
DRWord(word) == Const(DRPad[1], 0) \o word \o Const(DRPad[2], 0)

\* The two ways to pad.
LEMMA Paddings ==
  /\ IRPad = IF g_dev_list = <<>> THEN <<0, 0>>
             ELSE IF \E i \in Device : g_dev_list[i] = 0 THEN <<0, 0>>
             ELSE <<SumOf(SubSeq(g_dev_list, 1, Target - 1)), SumOf(SubSeq(g_dev_list, Target + 1, N))>>
  /\ DRPad = IF g_dev_list = <<>> THEN <<0, 0>> ELSE <<Target - 1, N - Target>>
  BY Zenon DEF IRPad, DRPad, PadBits

\* The two scans.
LEMMA Scans ==
  ASSUME NEW word
  PROVE  /\ IRScan(word).chain = Shifted(Joined(CaptureIR), IRWord(word))
         /\ DRScan(word).chain = Shifted(Joined(CaptureDR), DRWord(word))
         /\ DRScan(word).tdo = SubSeq(Out(Joined(CaptureDR), DRWord(word)),
                                      DRPad[1] + 1, DRPad[1] + Len(word))
<1>1. Padded(word, TRUE) = IRWord(word)
  BY Zenon DEF Padded, IRWord, IRPad
<1>2. Padded(word, FALSE) = DRWord(word)
  BY Zenon DEF Padded, DRWord, DRPad
<1>3. IRScan(word) = [chain |-> Shifted(Joined(CaptureIR), IRWord(word)),
                      tdo |-> Extracted(Out(Joined(CaptureIR), IRWord(word)), word, TRUE)]
  BY <1>1, Zenon DEF IRScan, StoreGetRaw
<1>4. DRScan(word) = [chain |-> Shifted(Joined(CaptureDR), DRWord(word)),
                      tdo |-> Extracted(Out(Joined(CaptureDR), DRWord(word)), word, FALSE)]
  BY <1>2, Zenon DEF DRScan, StoreGetRaw
<1>5. Extracted(Out(Joined(CaptureDR), DRWord(word)), word, FALSE)
        = SubSeq(Out(Joined(CaptureDR), DRWord(word)), DRPad[1] + 1, DRPad[1] + Len(word))
  BY Zenon DEF Extracted, DRPad
<1>f. \A a, b : [chain |-> a, tdo |-> b].chain = a /\ [chain |-> a, tdo |-> b].tdo = b
  OBVIOUS
<1>6. IRScan(word).chain = Shifted(Joined(CaptureIR), IRWord(word))
  BY <1>3, <1>f, Zenon
<1>7. DRScan(word).chain = Shifted(Joined(CaptureDR), DRWord(word))
  BY <1>4, <1>f, Zenon
<1>8. DRScan(word).tdo = Extracted(Out(Joined(CaptureDR), DRWord(word)), word, FALSE)
  BY <1>4, <1>f, Zenon
<1> QED
  BY <1>5, <1>6, <1>7, <1>8, Zenon

\* The addressed device is one of the list.
LEMMA TargetIs == ASSUME ChainTypeOK
                  PROVE  Target \in Device /\ Target \in 1..N /\ Target - 1 \in 0..N /\ N - Target \in Nat
<1>1. N \in Nat /\ N > 0 /\ Device = 1..N
  BY DevicesAre
<1>2. g_jtag_dev_pos \in -1..N
  BY DEF ChainTypeOK
<1>3. PICK t : t = Target
  OBVIOUS
<1>4. t \in 1..N
  BY <1>1, <1>2, <1>3 DEF Target
<1>5. t - 1 \in 0..N /\ N - t \in Nat
  BY <1>1, <1>4
<1> QED
  BY <1>1, <1>3, <1>4, <1>5

\* The list is empty or has a number for every device.
LEMMA ListIs == ASSUME ChainTypeOK
                PROVE  g_dev_list # <<>> => g_dev_list \in Seq(Nat) /\ Len(g_dev_list) = N
<1>1. N \in Nat /\ IRLen \in Seq(Nat) /\ Len(IRLen) = N
  <2>1. IRLen \in Seq(Nat \ {0})
    BY ChainAssumption
  <2>2. IRLen \in Seq(Nat)
    BY <2>1
  <2> QED
    BY <2>2, DevicesAre DEF N
<1>2. Const(N, 0) \in Seq(Nat) /\ Len(Const(N, 0)) = N
  BY <1>1 DEF Const
<1>3. Reverse(IRLen) \in Seq(Nat) /\ Len(Reverse(IRLen)) = N
  BY <1>1 DEF Reverse
<1> QED
  BY <1>1, <1>2, <1>3 DEF ChainTypeOK

\* The paddings are numbers.
LEMMA PadsAre == ASSUME ChainTypeOK
                 PROVE  IRPad[1] \in Nat /\ IRPad[2] \in Nat /\ DRPad[1] \in Nat /\ DRPad[2] \in Nat
<1>1. Target \in 1..N /\ Target - 1 \in 0..N /\ N - Target \in Nat /\ N \in Nat
  BY TargetIs, DevicesAre
<1>2. DRPad[1] \in Nat /\ DRPad[2] \in Nat
  <2>1. Target - 1 \in Nat
    BY <1>1
  <2> QED
    BY <1>1, <2>1, Paddings
<1>3. ASSUME g_dev_list # <<>>
      PROVE  /\ SumOf(SubSeq(g_dev_list, 1, Target - 1)) \in Nat
             /\ SumOf(SubSeq(g_dev_list, Target + 1, N)) \in Nat
  <2>1. g_dev_list \in Seq(Nat) /\ Len(g_dev_list) = N
    BY <1>3, ListIs
  <2>2. PICK p : Sums(p, g_dev_list)
    BY <2>1, SumsExist
  <2>3. PICK t \in 1..N : t = Target
    BY <1>1
  <2>4. t - 1 \in 0..Len(g_dev_list) /\ 0 \in Nat /\ t \in Nat /\ N \in t..Len(g_dev_list) /\ 0 + 1 = 1
    BY <1>1, <2>1
  <2>5. SumOf(SubSeq(g_dev_list, 0 + 1, t - 1)) \in Nat
    <3>1. /\ SumOf(SubSeq(g_dev_list, 0 + 1, t - 1)) = p[t - 1] - p[0]
          /\ p[t - 1] - p[0] \in Nat
      BY <2>1, <2>2, <2>4, SumOfPart
    <3> QED
      BY <3>1
  <2>6. SumOf(SubSeq(g_dev_list, t + 1, N)) \in Nat
    <3>1. /\ SumOf(SubSeq(g_dev_list, t + 1, N)) = p[N] - p[t]
          /\ p[N] - p[t] \in Nat
      BY <2>1, <2>2, <2>4, SumOfPart
    <3> QED
      BY <3>1
  <2> QED
    BY <2>3, <2>4, <2>5, <2>6
<1>4. IRPad[1] \in Nat /\ IRPad[2] \in Nat
  BY <1>3, Paddings
<1> QED
  BY <1>2, <1>4

\* The bits that are shifted.
LEMMA ScanWords ==
  ASSUME ChainTypeOK, NEW word \in Bits
  PROVE  IRWord(word) \in Bits /\ DRWord(word) \in Bits
<1>1. /\ Const(IRPad[1], 1) \in Bits /\ Const(IRPad[2], 1) \in Bits
      /\ Const(DRPad[1], 0) \in Bits /\ Const(DRPad[2], 0) \in Bits
  BY PadsAre, ConstIs
<1>2. Const(IRPad[1], 1) \o word \in Bits /\ Const(DRPad[1], 0) \o word \in Bits
  BY <1>1, JoinIs
<1> QED
  BY <1>1, <1>2, JoinIs DEF IRWord, DRWord

\* The caller's words are words.
LEMMA CallersWords ==
  ASSUME ChainTypeOK, NEW reg \in Registers, NEW word \in WordsFor(reg)
  PROVE  word \in Bits
<1>1. PICK off : Offsets(off, Laid(reg))
  BY ChainOffsets
<1>2. Joined(reg) \in Bits
  BY <1>1, JoinedIs
<1>3. Len(Joined(reg)) \in Nat
  BY <1>2 DEF Bits
<1>4. \A d \in Device : Len(reg[d]) \in Nat
  BY DEF Registers, Bits
<1>5. Target \in Device /\ N + 1 - Target \in Device
  <2>1. Target \in 1..N /\ N \in Nat /\ Device = 1..N
    BY TargetIs, DevicesAre
  <2> QED
    BY <2>1
<1>6. \/ word \in Words(Len(Joined(reg)))
      \/ \E d \in Device : word \in Words(Len(reg[d]))
  BY <1>5 DEF WordsFor
<1> QED
  BY <1>3, <1>4, <1>6, WordIs

----------------------------------------------------------------------------
(* The measure of the instruction registers *)

\* The first zero is where it is.
LEMMA FirstZeroIs ==
  ASSUME NEW n \in Nat, NEW out \in Words(n), NEW k \in 1..n, out[k] = 0,
         \A i \in 1..(k - 1) : out[i] = 1
  PROVE  FirstZero(out) = k
<1>1. DOMAIN out = 1..n
  BY DEF Words
<1>2. \A j \in 1..n : out[j] = 0 /\ (\A i \in 1..(j - 1) : out[i] = 1) => j = k
  <2> TAKE j \in 1..n
  <2> HAVE out[j] = 0 /\ (\A i \in 1..(j - 1) : out[i] = 1)
  <2>1. ~(j < k)
    <3>1. j < k => j \in 1..(k - 1)
      OBVIOUS
    <3> QED
      BY <3>1
  <2>2. ~(k < j)
    <3>1. k < j => k \in 1..(j - 1)
      OBVIOUS
    <3> QED
      BY <3>1
  <2> QED
    BY <2>1, <2>2
<1>3. k \in DOMAIN out /\ \A j \in DOMAIN out :
         out[j] = 0 /\ (\A i \in 1..(j - 1) : out[i] = 1) => j = k
  BY <1>1, <1>2
<1>4. \A j : j = k <=> j \in DOMAIN out /\ out[j] = 0 /\ \A i \in 1..(j - 1) : out[i] = 1
  BY <1>3
<1> QED
  BY <1>4, Zenon DEF FirstZero

\* A word with a zero has a first one.
LEMMA FirstZeroExists ==
  ASSUME NEW n \in Nat, NEW out \in Words(n), NEW z \in 1..n, out[z] = 0
  PROVE  FirstZero(out) \in 1..n
<1> DEFINE G == {m \in 0..n : \A i \in 1..m : out[i] = 1}
<1>1. 0 \in G
  OBVIOUS
<1>2. PICK k \in 1..n : out[k] = 0 /\ \A i \in 1..(k - 1) : out[i] = 1
  <2>1. SUFFICES ASSUME ~\E k \in 1..n : out[k] = 0 /\ \A i \in 1..(k - 1) : out[i] = 1
                 PROVE  FALSE
    OBVIOUS
  <2>2. ASSUME NEW m \in 0..(n - 1), m \in G PROVE m + 1 \in G
    <3>1. PICK j \in 1..n : j = m + 1
      OBVIOUS
    <3>2. out[j] \in {0, 1} /\ \A i \in 1..(j - 1) : out[i] = 1
      BY <2>2, <3>1 DEF Words
    <3>3. out[j] = 1
      BY <2>1, <3>2
    <3>4. \A i \in 1..j : i = j \/ i \in 1..(j - 1)
      OBVIOUS
    <3>5. \A i \in 1..j : out[i] = 1
      BY <3>2, <3>3, <3>4
    <3>6. j \in 0..n
      OBVIOUS
    <3> QED
      BY <3>1, <3>5, <3>6
  <2>3. 0..n \subseteq G
    <3> HIDE DEF G
    <3> QED
      BY <1>1, <2>2, UpTo
  <2>4. n \in 0..n
    OBVIOUS
  <2>5. \A i \in 1..n : out[i] = 1
    BY <2>3, <2>4
  <2> QED
    BY <2>5
<1>3. FirstZero(out) = k
  BY <1>2, FirstZeroIs
<1> QED
  BY <1>3

\* The chain after the preload of ones and the zero: the zero is next to TDI.
LEMMA ProbedIs ==
  ASSUME ChainTypeOK
  PROVE  /\ Len(Joined(CaptureIR)) \in Nat \ {0} /\ Joined(CaptureIR) \in Bits
         /\ Probed \in Words(Len(Joined(CaptureIR))) /\ Probed \in Bits
         /\ Probed[1] = 0
         /\ \A i \in 2..Len(Joined(CaptureIR)) :
               Probed[i] = Shifted(Joined(CaptureIR), Const(Preload, 1))[i - 1]
<1> DEFINE chain == Joined(CaptureIR)
           full == Shifted(chain, Const(Preload, 1))
<1>1. PICK d \in Device : d = 1
  BY DevicesAre
<1>2. CaptureIR \in Registers /\ CaptureIR[d] \in Words(IRLen[d]) /\ IRLen[d] \in Nat \ {0}
  BY Captured, DevicesAre
<1>3. Len(CaptureIR[d]) > 0
  BY <1>2, WordIs
<1>4. chain \in Bits /\ Len(chain) \in Nat \ {0}
  BY <1>2, <1>3, ChainLength
<1>5. Preload \in Nat /\ Const(Preload, 1) \in Bits
  BY ChainAssumption, ConstIs
<1> HIDE DEF chain
<1>6. full \in Words(Len(chain))
  BY <1>4, <1>5, ShiftedIs
<1>7. full \in Bits /\ Len(full) = Len(chain)
  BY <1>4, <1>6, WordIs
<1> HIDE DEF full
<1>8. << 0 >> \in Bits /\ Len(<< 0 >>) = 1 /\ << 0 >>[1] = 0
  BY DEF Bits
<1>9. Probed = Shifted(full, << 0 >>)
  BY DEF Probed, full, chain
<1>10. /\ Shifted(full, << 0 >>) \in Words(Len(full))
       /\ \A i \in 1..Len(full) : Shifted(full, << 0 >>)[i] =
             IF i <= Len(<< 0 >>) THEN << 0 >>[(Len(<< 0 >>) - i) + 1] ELSE full[i - Len(<< 0 >>)]
  BY <1>7, <1>8, ShiftedIs
<1>11. Probed[1] = 0
  <2>1. 1 \in 1..Len(full) /\ 1 <= Len(<< 0 >>) /\ (Len(<< 0 >>) - 1) + 1 = 1
    BY <1>4, <1>7, <1>8
  <2>2. Probed[1] = << 0 >>[1]
    BY <1>9, <1>10, <2>1
  <2> QED
    BY <1>8, <2>2
<1>12. \A i \in 2..Len(chain) : Probed[i] = full[i - 1]
  <2> TAKE i \in 2..Len(chain)
  <2>1. i \in 1..Len(full) /\ ~(i <= Len(<< 0 >>))
    BY <1>4, <1>7, <1>8
  <2>2. Probed[i] = full[i - Len(<< 0 >>)]
    BY <1>9, <1>10, <2>1
  <2> QED
    BY <1>8, <2>2
<1>13. Probed \in Words(Len(chain)) /\ Probed \in Bits
  BY <1>4, <1>7, <1>9, <1>10, WordIs
<1> QED
  BY <1>4, <1>11, <1>12, <1>13 DEF chain, full

\* The measure comes to an end within the length of the chain.
LEMMA MeasureEnds ==
  ASSUME ChainTypeOK
  PROVE  total_ir_len(Probed) \in Nat
<1>1. PICK n \in Nat \ {0} : n = Len(Joined(CaptureIR))
  BY ProbedIs
<1>2. Probed \in Words(n) /\ Probed \in Bits /\ Len(Probed) = n /\ Probed[1] = 0
  BY <1>1, ProbedIs, WordIs
<1>3. Const(n, 1) \in Bits /\ Len(Const(n, 1)) = n
  BY ConstIs
<1>4. /\ Out(Probed, Const(n, 1)) \in Words(n)
      /\ \A i \in 1..n : i <= n => Out(Probed, Const(n, 1))[i] = Probed[(n - i) + 1]
  BY <1>2, <1>3, OutIs
<1>5. n \in 1..n /\ n <= n /\ (n - n) + 1 = 1
  OBVIOUS
<1>6. Out(Probed, Const(n, 1))[n] = 0
  BY <1>2, <1>4, <1>5
<1>7. FirstZero(Out(Probed, Const(n, 1))) \in 1..n
  BY <1>4, <1>5, <1>6, FirstZeroExists
<1> QED
  BY <1>2, <1>7 DEF total_ir_len

----------------------------------------------------------------------------
(* The type invariant *)

\* A scan of the instruction registers, in one way or another, leaves words in them.
LEMMA InstructionsAre ==
  ASSUME ChainTypeOK, NEW chain \in Words(Len(Joined(CaptureIR))), NEW d \in Device
  PROVE  Part(chain, CaptureIR, d) \in Words(IRLen[d])
<1>1. CaptureIR \in Registers /\ CaptureIR[d] \in Words(IRLen[d]) /\ IRLen[d] \in Nat
  BY Captured, DevicesAre
<1>2. Len(CaptureIR[d]) = IRLen[d]
  BY <1>1, WordIs
<1>3. Part(chain, CaptureIR, d) \in Words(Len(CaptureIR[d]))
  BY <1>1, PartsAre
<1> QED
  BY <1>2, <1>3

\* The devices start with registers of their lengths.
LEMMA ChainTypeInit == ChainInit => ChainTypeOK
<1> HAVE ChainInit
<1>1. \A d \in Device : IRLen[d] \in Nat
  BY DevicesAre
<1>2. DRLen \in Nat /\ N \in Nat
  BY ChainAssumption, DevicesAre
<1>3. \A d \in Device : ir[d] = Const(IRLen[d], 0) /\ data[d] = Const(DRLen, 0)
  BY DEF ChainInit, Reset
<1>4. \A d \in Device : ir[d] \in Words(IRLen[d]) /\ data[d] \in Words(DRLen)
  BY <1>1, <1>2, <1>3, ConstIs
<1>5. 0 \in -1..N
  BY <1>2
<1> QED
  BY <1>4, <1>5 DEF ChainInit, ChainTypeOK

\* A StoreGetRaw in Shift-IR gives every device a word for its instruction.
LEMMA ScanIRTypes == ChainTypeOK /\ ScanIR => ChainTypeOK'
<1> HAVE ChainTypeOK /\ ScanIR
<1>1. PICK word \in WordsFor(CaptureIR) :
         /\ ir' = [d \in Device |-> Part(IRScan(word).chain, CaptureIR, d)]
         /\ UNCHANGED <<data, g_dev_list, g_jtag_dev_pos>>
  BY Zenon DEF ScanIR, IRScan
<1>2. CaptureIR \in Registers
  BY Captured
<1>3. word \in Bits
  BY <1>2, CallersWords
<1>4. IRScan(word).chain \in Words(Len(Joined(CaptureIR)))
  <2>1. IRWord(word) \in Bits
    BY <1>3, ScanWords
  <2>2. Joined(CaptureIR) \in Bits
    BY ProbedIs
  <2>3. Shifted(Joined(CaptureIR), IRWord(word)) \in Words(Len(Joined(CaptureIR)))
    BY <2>1, <2>2, ShiftedIs
  <2> QED
    BY <2>3, Scans
<1>5. \A d \in Device : ir'[d] = Part(IRScan(word).chain, CaptureIR, d)
  BY <1>1
<1>6. \A d \in Device : ir'[d] \in Words(IRLen[d])
  BY <1>4, <1>5, InstructionsAre
<1> QED
  BY <1>1, <1>6 DEF ChainTypeOK

\* A StoreGetRaw in Shift-DR writes data registers of the same length.
LEMMA ScanDRTypes == ChainTypeOK /\ ScanDR => ChainTypeOK'
<1> HAVE ChainTypeOK /\ ScanDR
<1>1. PICK word \in WordsFor(CaptureDR) :
         /\ data' = [d \in Device |-> IF Bypassed(d) \/ ir[d] = Reset(d) THEN data[d]
                                      ELSE Part(DRScan(word).chain, CaptureDR, d)]
         /\ UNCHANGED <<ir, g_dev_list, g_jtag_dev_pos>>
  BY Zenon DEF ScanDR, DRScan
<1>2. CaptureDR \in Registers
  BY Captured
<1>3. word \in Bits
  BY <1>2, CallersWords
<1>4. DRScan(word).chain \in Words(Len(Joined(CaptureDR)))
  <2>1. DRWord(word) \in Bits
    BY <1>3, ScanWords
  <2>2. PICK off : Offsets(off, Laid(CaptureDR))
    BY <1>2, ChainOffsets
  <2>3. Joined(CaptureDR) \in Bits
    BY <1>2, <2>2, JoinedIs
  <2>4. Shifted(Joined(CaptureDR), DRWord(word)) \in Words(Len(Joined(CaptureDR)))
    BY <2>1, <2>3, ShiftedIs
  <2> QED
    BY <2>4, Scans
<1>5. ASSUME NEW d \in Device PROVE data'[d] \in Words(DRLen)
  <2>1. CASE Bypassed(d) \/ ir[d] = Reset(d)
    BY <1>1, <2>1 DEF ChainTypeOK
  <2>2. CASE ~(Bypassed(d) \/ ir[d] = Reset(d))
    <3>1. CaptureDR[d] \in Words(DRLen) /\ DRLen \in Nat
      BY <2>2, Captured, ChainAssumption
    <3>2. Len(CaptureDR[d]) = DRLen
      BY <3>1, WordIs
    <3>3. data'[d] = Part(DRScan(word).chain, CaptureDR, d)
      BY <1>1, <2>2
    <3>4. Part(DRScan(word).chain, CaptureDR, d) \in Words(Len(CaptureDR[d]))
      BY <1>2, <1>4, PartsAre
    <3> QED
      BY <3>2, <3>3, <3>4
  <2> QED
    BY <2>1, <2>2
<1> QED
  BY <1>1, <1>5 DEF ChainTypeOK

\* GetIdChain leaves what was shifted in for the measure, or a reset chain.
LEMMA jtag_scan_chainTypes ==
  ASSUME ChainTypeOK, NEW maxDev, jtag_scan_chain(maxDev) PROVE ChainTypeOK'
<1> DEFINE after == Shifted(Probed, Const(total_ir_len(Probed), 1))
<1>1. /\ ir' = [d \in Device |-> IF Counted(maxDev) = 0 THEN Reset(d) ELSE Part(after, CaptureIR, d)]
      /\ UNCHANGED <<data, g_dev_list, g_jtag_dev_pos>>
  BY Zenon DEF jtag_scan_chain
<1>2. Probed \in Bits /\ Len(Probed) = Len(Joined(CaptureIR))
  BY ProbedIs, WordIs
<1>3. Const(total_ir_len(Probed), 1) \in Bits
  BY MeasureEnds, ConstIs
<1>4. after \in Words(Len(Joined(CaptureIR)))
  BY <1>2, <1>3, ShiftedIs
<1> HIDE DEF after
<1>5. ASSUME NEW d \in Device PROVE ir'[d] \in Words(IRLen[d])
  <2>1. Part(after, CaptureIR, d) \in Words(IRLen[d])
    BY <1>4, InstructionsAre
  <2>2. Reset(d) \in Words(IRLen[d])
    BY DevicesAre, ConstIs DEF Reset
  <2> QED
    BY <1>1, <2>1, <2>2
<1> QED
  BY <1>1, <1>5 DEF ChainTypeOK

\* A reset leaves IDCODE in every instruction register.
LEMMA ResetTapTypes == ChainTypeOK /\ ResetTap => ChainTypeOK'
<1> HAVE ChainTypeOK /\ ResetTap
<1>1. \A d \in Device : ir'[d] \in Words(IRLen[d])
  BY DevicesAre, ConstIs DEF ResetTap, Reset
<1> QED
  BY <1>1 DEF ResetTap, ChainTypeOK

\* The registers of the devices keep their lengths, and the list is that of the
\* chain, with its lengths or without.
THEOREM ChainTypeCorrect == ChainSpec => []ChainTypeOK
<1>1. ChainInit => ChainTypeOK
  BY ChainTypeInit
<1>2. ChainTypeOK /\ [ChainNext]_chainVars => ChainTypeOK'
  <2> SUFFICES ASSUME ChainTypeOK, [ChainNext]_chainVars PROVE ChainTypeOK'
    OBVIOUS
  <2>1. CASE ScanIR
    BY <2>1, ScanIRTypes
  <2>2. CASE ScanDR
    BY <2>2, ScanDRTypes
  <2>3. CASE SetDeviceList
    BY <2>3 DEF SetDeviceList, ChainTypeOK
  <2>4. CASE ResetTap
    BY <2>4, ResetTapTypes
  <2>5. ASSUME NEW maxDev \in 0..(N + 1), jtag_scan_chain(maxDev) PROVE ChainTypeOK'
    BY <2>5, jtag_scan_chainTypes
  <2>6. ASSUME NEW devPos \in -1..N, ConfigJTAG(SumOf(IRLen), devPos) PROVE ChainTypeOK'
    BY <2>6 DEF ConfigJTAG, ChainTypeOK
  <2>7. CASE UNCHANGED chainVars
    BY <2>7 DEF chainVars, ChainTypeOK
  <2> QED
    BY <2>1, <2>2, <2>3, <2>4, <2>5, <2>6, <2>7 DEF ChainNext
<1> QED
  BY <1>1, <1>2, PTL DEF ChainSpec

----------------------------------------------------------------------------
(* The padding addresses one device *)

\* The word with so many bits before it and after it.
Framed(word, pre, post, b) == Const(pre, b) \o word \o Const(post, b)

\* The chain has the framed word in it, and tdo what was in the chain.
InPlace(chain, tdi, word, post, b) ==
  /\ Shifted(chain, tdi) \in Words(Len(chain)) /\ Out(chain, tdi) \in Words(Len(chain))
  /\ \A i \in 1..post : Shifted(chain, tdi)[i] = b
  /\ \A i \in 1..Len(word) : Shifted(chain, tdi)[post + i] = word[(Len(word) - i) + 1]
  /\ \A i \in ((post + Len(word)) + 1)..Len(chain) : Shifted(chain, tdi)[i] = b
  /\ \A i \in 1..Len(chain) : Out(chain, tdi)[i] = chain[(Len(chain) - i) + 1]

\* A framed word as long as the chain is in its place after it has been shifted
\* in, and what was in the chain has come out.
LEMMA Placed ==
  ASSUME NEW chain \in Bits, NEW word \in Bits, NEW pre \in Nat, NEW post \in Nat, NEW b \in {0, 1},
         Len(chain) = (pre + Len(word)) + post
  PROVE  InPlace(chain, Framed(word, pre, post, b), word, post, b)
<1>0. PICK tdi : tdi = Framed(word, pre, post, b)
  OBVIOUS
<1> DEFINE x == Const(pre, b)
           z == Const(post, b)
           n == Len(word)
<1>1. /\ x \in Bits /\ Len(x) = pre /\ \A i \in 1..pre : x[i] = b
      /\ z \in Bits /\ Len(z) = post /\ \A i \in 1..post : z[i] = b
      /\ n \in Nat
  <2>1. n \in Nat
    BY DEF Bits
  <2> QED
    BY <2>1, ConstIs
<1>t. tdi = (x \o word) \o z
  BY <1>0, Zenon DEF Framed
<1> HIDE DEF x, z
<1>2. /\ x \o word \in Bits /\ Len(x \o word) = pre + n
      /\ \A i \in 1..(pre + n) : (x \o word)[i] = IF i <= pre THEN x[i] ELSE word[i - pre]
  BY <1>1, JoinIs
<1>3. /\ tdi \in Bits /\ Len(tdi) = (pre + n) + post
      /\ \A i \in 1..((pre + n) + post) :
            tdi[i] = IF i <= pre + n THEN (x \o word)[i] ELSE z[i - (pre + n)]
  <2> HIDE DEF n
  <2>1. PICK u : u = x \o word
    OBVIOUS
  <2>2. /\ u \o z \in Bits /\ Len(u \o z) = Len(u) + Len(z)
        /\ \A i \in 1..(Len(u) + Len(z)) : (u \o z)[i] = IF i <= Len(u) THEN u[i] ELSE z[i - Len(u)]
    BY <1>1, <1>2, <2>1, JoinIs
  <2> QED
    BY <1>1, <1>2, <1>t, <2>1, <2>2
<1>4. Len(tdi) = Len(chain)
  BY <1>3
<1>5. /\ Shifted(chain, tdi) \in Words(Len(chain))
      /\ \A i \in 1..Len(chain) : i <= Len(chain) =>
            Shifted(chain, tdi)[i] = tdi[(Len(chain) - i) + 1]
  BY <1>3, <1>4, ShiftedIs
<1>6. /\ Out(chain, tdi) \in Words(Len(chain))
      /\ \A i \in 1..Len(chain) : i <= Len(chain) =>
            Out(chain, tdi)[i] = chain[(Len(chain) - i) + 1]
  BY <1>3, <1>4, OutIs
<1> HIDE DEF n
<1>7. PICK m \in Nat : m = Len(chain)
  BY DEF Bits
<1>8. m = (pre + n) + post
  BY <1>7 DEF n
<1>9. \A i \in 1..m : Shifted(chain, tdi)[i] = tdi[(m - i) + 1]
  <2> TAKE i \in 1..m
  <2>1. i \in 1..Len(chain) /\ i <= Len(chain)
    BY <1>7
  <2> QED
    BY <1>5, <1>7, <2>1
<1>10. ASSUME NEW i \in 1..post PROVE Shifted(chain, tdi)[i] = b
  <2>1. PICK k : k = (m - i) + 1
    OBVIOUS
  <2>2. i \in 1..m /\ k \in 1..((pre + n) + post) /\ ~(k <= pre + n) /\ k - (pre + n) \in 1..post
    BY <1>1, <1>8, <2>1
  <2>3. tdi[k] = z[k - (pre + n)]
    BY <1>3, <2>2
  <2> QED
    BY <1>1, <1>9, <2>1, <2>2, <2>3
<1>11. ASSUME NEW i \in 1..n PROVE Shifted(chain, tdi)[post + i] = word[(n - i) + 1]
  <2>1. PICK k : k = (m - (post + i)) + 1
    OBVIOUS
  <2>2. /\ post + i \in 1..m /\ k \in 1..((pre + n) + post) /\ k <= pre + n /\ k \in 1..(pre + n)
        /\ ~(k <= pre) /\ k - pre = (n - i) + 1
    BY <1>1, <1>8, <2>1
  <2>3. tdi[k] = (x \o word)[k]
    BY <1>3, <2>2
  <2>4. (x \o word)[k] = word[k - pre]
    BY <1>2, <2>2
  <2> QED
    BY <1>9, <2>1, <2>2, <2>3, <2>4
<1>12. ASSUME NEW i \in ((post + n) + 1)..m PROVE Shifted(chain, tdi)[i] = b
  <2>1. PICK k : k = (m - i) + 1
    OBVIOUS
  <2>2. /\ i \in 1..m /\ k \in 1..((pre + n) + post) /\ k <= pre + n /\ k \in 1..(pre + n)
        /\ k <= pre /\ k \in 1..pre
    BY <1>1, <1>8, <2>1
  <2>3. tdi[k] = (x \o word)[k]
    BY <1>3, <2>2
  <2>4. (x \o word)[k] = x[k]
    BY <1>2, <2>2
  <2> QED
    BY <1>1, <1>9, <2>1, <2>2, <2>3, <2>4
<1> QED
  <2>1. /\ \A i \in 1..post : Shifted(chain, tdi)[i] = b
        /\ \A i \in 1..n : Shifted(chain, tdi)[post + i] = word[(n - i) + 1]
        /\ \A i \in ((post + n) + 1)..Len(chain) : Shifted(chain, tdi)[i] = b
        /\ \A i \in 1..Len(chain) : Out(chain, tdi)[i] = chain[(Len(chain) - i) + 1]
    <3>1. \A i \in 1..Len(chain) : i <= Len(chain)
      BY <1>7
    <3> QED
      BY <1>6, <1>7, <1>10, <1>11, <1>12, <3>1
  <2>2. InPlace(chain, tdi, word, post, b)
    BY <1>5, <1>6, <2>1, Zenon DEF InPlace, n
  <2> QED
    BY <1>0, <2>2, Zenon

\* Of the registers, t gets the word and the others the padding; what comes out
\* between the paddings is what t had.
OnlyFor(reg, t, word, pre, post, b) ==
  LET after == Shifted(Joined(reg), Framed(word, pre, post, b))
      out == Out(Joined(reg), Framed(word, pre, post, b))
  IN  /\ Part(after, reg, t) = Reverse(word)
      /\ \A d \in Device \ {t} : Part(after, reg, d) = Const(Len(reg[d]), b)
      /\ SubSeq(out, pre + 1, pre + Len(word)) = Reverse(reg[t])

\* With the paddings of a device, the whole chain is addressed: the device gets the
\* word, every other one the padding, and what comes out between the paddings is
\* what the device had.
LEMMA Addressed ==
  ASSUME NEW reg \in Registers, NEW off, Offsets(off, Laid(reg)), NEW t \in Device,
         NEW word \in Bits, Len(word) = Len(reg[t]), NEW b \in {0, 1},
         NEW pre \in Nat, NEW post \in Nat,
         off[Place(t) - 1] = post, off[N] = off[Place(t)] + pre
  PROVE  OnlyFor(reg, t, word, pre, post, b)
<1>0. PICK tdi : tdi = Framed(word, pre, post, b)
  OBVIOUS
<1> DEFINE chain == Joined(reg)
           after == Shifted(chain, tdi)
           out == Out(chain, tdi)
<1>1. PICK n \in Nat : n = Len(word)
  BY DEF Bits
<1>2. /\ off[Place(t) - 1] \in Nat /\ off[Place(t)] \in Nat /\ off[N] \in Nat
      /\ off[Place(t)] = off[Place(t) - 1] + n /\ off[Place(t)] <= off[N]
  BY <1>1, PlacesAre
<1>3. PICK m \in Nat : m = off[N]
  BY <1>2
<1>4. m = (pre + n) + post /\ off[Place(t)] = post + n
  <2>1. off[Place(t)] = post + n
    BY <1>2
  <2>2. m = (post + n) + pre
    BY <1>3, <2>1
  <2> QED
    BY <2>1, <2>2
<1>5. /\ chain \in Bits /\ Len(chain) = m
      /\ \A d \in Device : \A j \in 1..Len(reg[d]) : chain[off[Place(d) - 1] + j] = reg[d][j]
  BY <1>3, JoinedIs
<1> HIDE DEF chain
<1>6. /\ after \in Words(m) /\ out \in Words(m)
      /\ \A i \in 1..post : after[i] = b
      /\ \A i \in 1..n : after[post + i] = word[(n - i) + 1]
      /\ \A i \in ((post + n) + 1)..m : after[i] = b
      /\ \A i \in 1..m : out[i] = chain[(m - i) + 1]
  <2>1. Len(chain) = (pre + Len(word)) + post
    BY <1>1, <1>4, <1>5
  <2>z. InPlace(chain, tdi, word, post, b)
    <3>0. PICK c \in Bits : c = chain
      BY <1>5
    <3>2. Len(c) = (pre + Len(word)) + post
      BY <2>1, <3>0
    <3>3. InPlace(c, Framed(word, pre, post, b), word, post, b)
      BY <3>2, Placed
    <3>1. InPlace(chain, Framed(word, pre, post, b), word, post, b)
      BY <3>0, <3>3
    <3> QED
      BY <1>0, <3>1, Zenon
  <2>2. /\ after \in Words(Len(chain)) /\ out \in Words(Len(chain))
        /\ \A i \in 1..post : after[i] = b
        /\ \A i \in 1..Len(word) : after[post + i] = word[(Len(word) - i) + 1]
        /\ \A i \in ((post + Len(word)) + 1)..Len(chain) : after[i] = b
        /\ \A i \in 1..Len(chain) : out[i] = chain[(Len(chain) - i) + 1]
    BY <2>z, Zenon DEF InPlace
  <2> HIDE DEF after, out
  <2> QED
    BY <1>1, <1>5, <2>2, Zenon
<1> HIDE DEF after, out
<1>7. after \in Bits /\ Len(after) = m /\ out \in Bits /\ Len(out) = m
  BY <1>6, WordIs
<1>8. reg[t] \in Bits /\ Len(reg[t]) = n
  BY <1>1 DEF Registers
<1>9. Part(after, reg, t) = Reverse(word)
  <2>1. /\ Part(after, reg, t) \in Words(n)
        /\ \A j \in 1..n : Part(after, reg, t)[j] = after[post + j]
    <3>1. Len(after) = off[N]
      BY <1>3, <1>7
    <3>2. /\ Part(after, reg, t) \in Words(Len(reg[t]))
          /\ \A j \in 1..Len(reg[t]) : Part(after, reg, t)[j] = after[off[Place(t) - 1] + j]
      BY <1>7, <3>1, PartIs
    <3> QED
      BY <1>8, <3>2
  <2>2. Reverse(word) \in Words(n) /\ \A j \in 1..n : Reverse(word)[j] = word[(n - j) + 1]
    BY <1>1, ReverseIs, WordIs
  <2>3. \A j \in 1..n : Part(after, reg, t)[j] = Reverse(word)[j]
    BY <1>6, <2>1, <2>2
  <2> QED
    BY <2>1, <2>2, <2>3, SameWord
<1>10. ASSUME NEW d \in Device \ {t} PROVE Part(after, reg, d) = Const(Len(reg[d]), b)
  <2>1. /\ off[Place(d) - 1] \in Nat /\ off[Place(d)] \in Nat /\ Len(reg[d]) \in Nat
        /\ off[Place(d)] = off[Place(d) - 1] + Len(reg[d]) /\ off[Place(d)] <= m
    BY <1>3, PlacesAre
  <2>2. PICK l \in Nat, a \in Nat : l = Len(reg[d]) /\ a = off[Place(d) - 1]
    BY <2>1
  <2>3. off[Place(d)] = a + l /\ a + l <= m
    BY <2>1, <2>2
  <2>4. /\ Part(after, reg, d) \in Words(l)
        /\ \A j \in 1..l : Part(after, reg, d)[j] = after[a + j]
    BY <1>3, <1>7, <2>2, PartIs
  <2>5. a + l <= post \/ a >= post + n
    <3>1. Place(d) \in 1..N /\ Place(t) \in 1..N /\ N \in Nat
      BY PlaceBounds, DevicesAre
    <3>2. Place(d) # Place(t)
      BY PlaceIs
    <3>3. PICK i \in 1..N, k \in 1..N : i = Place(d) /\ k = Place(t)
      BY <3>1
    <3>4. Laid(reg) \in Seq(Seq({0, 1})) /\ Len(Laid(reg)) = N
      BY LaidIs DEF Bits
    <3>5. CASE i < k
      <4>1. i \in 0..(k - 1) /\ k - 1 \in 0..Len(Laid(reg))
        BY <3>1, <3>4, <3>5
      <4>2. off[i] <= off[k - 1]
        BY <3>4, <4>1, OffsetsGrow
      <4> QED
        BY <2>3, <3>3, <4>2
    <3>6. CASE i > k
      <4>1. k \in 0..(i - 1) /\ i - 1 \in 0..Len(Laid(reg))
        BY <3>1, <3>4, <3>6
      <4>2. off[k] <= off[i - 1]
        BY <3>4, <4>1, OffsetsGrow
      <4> QED
        BY <1>4, <2>2, <3>3, <4>2
    <3> QED
      BY <3>2, <3>3, <3>5, <3>6
  <2>6. \A j \in 1..l : after[a + j] = b
    <3> TAKE j \in 1..l
    <3>1. PICK i : i = a + j
      OBVIOUS
    <3>2. i \in Nat /\ i > a /\ i <= a + l /\ i >= 1
      BY <3>1
    <3>3. i \in 1..post \/ i \in ((post + n) + 1)..m
      <4>1. CASE a + l <= post
        BY <1>4, <3>2, <4>1
      <4>2. CASE a >= post + n
        BY <1>4, <2>3, <3>2, <4>2
      <4> QED
        BY <2>5, <4>1, <4>2
    <3> QED
      BY <1>6, <3>1, <3>3
  <2>7. Const(l, b) \in Words(l) /\ \A j \in 1..l : Const(l, b)[j] = b
    BY ConstIs
  <2>8. \A j \in 1..l : Part(after, reg, d)[j] = Const(l, b)[j]
    BY <2>4, <2>6, <2>7
  <2>9. Part(after, reg, d) = Const(l, b)
    BY <2>4, <2>7, <2>8, SameWord
  <2> QED
    BY <2>2, <2>9
<1>11. SubSeq(out, pre + 1, pre + n) = Reverse(reg[t])
  <2>1. /\ SubSeq(out, pre + 1, pre + n) \in Words(n)
        /\ \A i \in 1..n : SubSeq(out, pre + 1, pre + n)[i] = out[pre + i]
    <3>1. pre + n <= Len(out)
      BY <1>4, <1>7
    <3> QED
      BY <1>4, <1>7, <3>1, CutIs
  <2>2. Reverse(reg[t]) \in Words(n) /\ \A j \in 1..n : Reverse(reg[t])[j] = reg[t][(n - j) + 1]
    BY <1>8, ReverseIs, WordIs
  <2>3. ASSUME NEW i \in 1..n PROVE out[pre + i] = reg[t][(n - i) + 1]
    <3>1. PICK j \in 1..n : j = (n - i) + 1
      OBVIOUS
    <3>2. pre + i \in 1..m /\ (m - (pre + i)) + 1 = post + j
      BY <1>4, <3>1
    <3>3. out[pre + i] = chain[post + j]
      BY <1>6, <3>2
    <3>4. chain[post + j] = reg[t][j]
      BY <1>5, <1>8
    <3> QED
      BY <3>1, <3>3, <3>4
  <2>4. \A i \in 1..n : SubSeq(out, pre + 1, pre + n)[i] = Reverse(reg[t])[i]
    BY <2>1, <2>2, <2>3
  <2> QED
    BY <2>1, <2>2, <2>4, SameWord
<1> QED
  BY <1>0, <1>1, <1>9, <1>10, <1>11, Zenon DEF chain, after, out, OnlyFor

\* The instruction registers before a place are those of the devices farthest from TDO.
LEMMA InstructionOffsets ==
  ASSUME NEW reg \in Registers, \A d \in Device : Len(reg[d]) = IRLen[d],
         NEW off, Offsets(off, Laid(reg)), NEW p, Sums(p, IRLen)
  PROVE  \A i \in 0..N : off[i] = p[N] - p[N - i]
<1>1. /\ N \in Nat /\ Len(IRLen) = N /\ Device = 1..N
      /\ \A d \in 1..N : IRLen[d] \in Nat /\ Len(reg[d]) = IRLen[d]
  <2>1. N \in Nat /\ Device = 1..N /\ \A d \in Device : IRLen[d] \in Nat
    BY DevicesAre
  <2> QED
    BY <2>1 DEF N
<1>2. Len(Laid(reg)) = N /\ \A i \in 1..N : Laid(reg)[i] = reg[(N + 1) - i]
  <2>1. \A i \in 1..N : Order[i] = (N + 1) - i
    BY <1>1 DEF Order
  <2>2. Len(Laid(reg)) = N /\ \A i \in Device : Laid(reg)[i] = reg[Order[i]]
    BY LaidIs
  <2> QED
    BY <1>1, <2>1, <2>2
<1>3. p \in [0..N -> Nat] /\ \A i \in 1..N : p[i] = p[i - 1] + IRLen[i]
  BY <1>1 DEF Sums
<1>4. off \in [0..N -> Nat] /\ off[0] = 0 /\ \A i \in 1..N : off[i] = off[i - 1] + Len(Laid(reg)[i])
  BY <1>2 DEF Offsets
<1> DEFINE g == [i \in 0..N |-> p[N] - p[N - i]]
<1>5. off[0] = g[0]
  <2>1. 0 \in 0..N /\ N \in 0..N /\ N - 0 = N
    BY <1>1
  <2>2. p[N] \in Nat /\ p[N - 0] = p[N]
    BY <1>3, <2>1
  <2> QED
    BY <1>4, <2>1, <2>2
<1>6. ASSUME NEW k \in 1..N, off[k - 1] = g[k - 1] PROVE off[k] = g[k]
  <2>1. PICK d \in 1..N : d = (N + 1) - k
    BY <1>1
  <2>2. /\ k \in 0..N /\ k - 1 \in 0..N /\ d \in 0..N /\ d - 1 \in 0..N /\ N \in 0..N
        /\ N - k = d - 1 /\ N - (k - 1) = d
    BY <1>1, <2>1
  <2>3. g[k] = p[N] - p[d - 1] /\ g[k - 1] = p[N] - p[d]
    BY <2>2
  <2>4. Len(Laid(reg)[k]) = IRLen[d] /\ IRLen[d] \in Nat
    BY <1>1, <1>2, <2>1
  <2>5. p[d] = p[d - 1] + IRLen[d] /\ off[k] = off[k - 1] + IRLen[d]
    BY <1>3, <1>4, <2>4
  <2>6. p[N] \in Nat /\ p[d] \in Nat /\ p[d - 1] \in Nat
    BY <1>3, <2>2
  <2> HIDE DEF g
  <2>7. off[k] = (p[N] - p[d]) + IRLen[d] /\ g[k] = p[N] - p[d - 1]
    BY <1>6, <2>3, <2>5
  <2> QED
    BY <2>4, <2>5, <2>6, <2>7
<1>7. \A i \in 0..N : off[i] = g[i]
  <2> HIDE DEF g
  <2> DEFINE G == {i \in 0..N : off[i] = g[i]}
  <2>1. 0 \in G
    BY <1>1, <1>5
  <2>2. ASSUME NEW i \in 0..(N - 1), i \in G PROVE i + 1 \in G
    <3>1. i + 1 \in 1..N /\ (i + 1) - 1 = i /\ i + 1 \in 0..N
      BY <1>1
    <3>2. off[(i + 1) - 1] = g[(i + 1) - 1]
      BY <2>2, <3>1
    <3>3. off[i + 1] = g[i + 1]
      BY <1>6, <3>1, <3>2
    <3> QED
      BY <3>1, <3>3
  <2> HIDE DEF G
  <2>3. 0..N \subseteq G
    BY <1>1, <2>1, <2>2, UpTo
  <2> QED
    BY <2>3 DEF G
<1> QED
  BY <1>7

\* With every other device in BYPASS, the bits before and after a data register are
\* as many as the devices.
LEMMA BypassOffsets ==
  ASSUME NEW reg \in Registers, NEW off, Offsets(off, Laid(reg)), NEW t \in Device,
         \A d \in Device \ {t} : Len(reg[d]) = 1
  PROVE  off[Place(t) - 1] = Place(t) - 1 /\ off[N] = off[Place(t)] + (N - Place(t))
<1>1. N \in Nat /\ Device = 1..N
  BY DevicesAre
<1>2. PICK k \in 1..N : k = Place(t)
  BY PlaceBounds
<1>3. \A i \in 1..N : i # k => Len(Laid(reg)[i]) = 1
  <2> TAKE i \in 1..N
  <2> HAVE i # k
  <2>1. i \in Device /\ Laid(reg)[i] = reg[Order[i]]
    BY <1>1, LaidIs
  <2>2. Order[i] \in Device /\ Place(Order[i]) = i
    BY <2>1, PlaceIs
  <2>3. Order[i] # t
    BY <1>2, <2>2
  <2> QED
    BY <2>1, <2>2, <2>3
<1>4. off \in [0..N -> Nat] /\ off[0] = 0 /\ \A i \in 1..N : off[i] = off[i - 1] + Len(Laid(reg)[i])
  BY LaidIs DEF Offsets
<1>5. \A i \in 1..N : i # k => off[i] = off[i - 1] + 1
  BY <1>3, <1>4
<1> DEFINE G == {i \in 0..(k - 1) : off[i] = i}
<1>6. 0..(k - 1) \subseteq G
  <2>1. 0 \in G /\ k - 1 \in Nat
    BY <1>4
  <2>2. ASSUME NEW i \in 0..((k - 1) - 1), i \in G PROVE i + 1 \in G
    <3>1. i + 1 \in 1..N /\ i + 1 # k /\ (i + 1) - 1 = i /\ i + 1 \in 0..(k - 1)
      BY <1>1
    <3>2. off[i + 1] = off[i] + 1
      BY <1>5, <3>1
    <3> QED
      BY <2>2, <3>1, <3>2
  <2> HIDE DEF G
  <2> QED
    BY <2>1, <2>2, UpTo
<1>7. k - 1 \in 0..(k - 1)
  OBVIOUS
<1>8. off[k - 1] = k - 1
  BY <1>6, <1>7
<1> DEFINE H == {i \in 0..(N - k) : off[k + i] = off[k] + i}
<1>9. 0..(N - k) \subseteq H
  <2>1. 0 \in H /\ N - k \in Nat
    <3>1. k \in 0..N /\ k + 0 = k /\ N - k \in Nat /\ 0 \in 0..(N - k)
      BY <1>1
    <3>2. off[k] \in Nat
      BY <1>4, <3>1
    <3>3. off[k + 0] = off[k] + 0
      BY <3>1, <3>2
    <3> QED
      BY <3>1, <3>3
  <2>2. ASSUME NEW i \in 0..((N - k) - 1), i \in H PROVE i + 1 \in H
    <3>1. PICK j \in 1..N : j = k + (i + 1)
      BY <1>1
    <3>2. j # k /\ j - 1 = k + i /\ i + 1 \in 0..(N - k) /\ k \in 0..N
      BY <1>1, <3>1
    <3>3. off[j] = off[j - 1] + 1 /\ off[k] \in Nat
      BY <1>4, <1>5, <3>2
    <3>4. off[k + (i + 1)] = off[k] + (i + 1)
      BY <2>2, <3>1, <3>2, <3>3
    <3> QED
      BY <3>2, <3>4
  <2> HIDE DEF H
  <2> QED
    BY <2>1, <2>2, UpTo
<1>10. N - k \in 0..(N - k) /\ k + (N - k) = N
  BY <1>1
<1>11. off[k + (N - k)] = off[k] + (N - k)
  BY <1>9, <1>10
<1> QED
  BY <1>2, <1>8, <1>10, <1>11

\* An instruction for one device.
LEMMA InstructionForOne ==
  ASSUME ChainTypeOK, g_dev_list = IRLen, NEW word \in Words(IRLen[Target]), NEW d \in Device
  PROVE  Part(IRScan(word).chain, CaptureIR, d)
           = IF d = Target THEN Reverse(word) ELSE Const(IRLen[d], 1)
<1>1. /\ CaptureIR \in Registers /\ \A e \in Device : CaptureIR[e] \in Words(IRLen[e])
      /\ N \in Nat /\ Device = 1..N /\ \A e \in Device : IRLen[e] \in Nat \ {0}
  BY Captured, DevicesAre
<1>2. \A e \in Device : Len(CaptureIR[e]) = IRLen[e]
  <2> TAKE e \in Device
  <2>1. IRLen[e] \in Nat /\ CaptureIR[e] \in Words(IRLen[e])
    BY <1>1
  <2> QED
    BY <2>1, WordIs
<1>3. PICK off : Offsets(off, Laid(CaptureIR))
  BY <1>1, ChainOffsets
<1>4. IRLen \in Seq(Nat) /\ Len(IRLen) = N /\ g_dev_list # <<>>
  <2>1. IRLen \in Seq(Nat \ {0}) /\ N > 0
    BY ChainAssumption
  <2>2. IRLen \in Seq(Nat) /\ Len(IRLen) = N
    BY <2>1 DEF N
  <2> QED
    BY <2>1, <2>2
<1>5. PICK p : Sums(p, IRLen)
  BY <1>4, SumsExist
<1>6. PICK t \in 1..N : t = Target
  BY TargetIs
<1>7. \A i \in 0..N : off[i] = p[N] - p[N - i]
  BY <1>1, <1>2, <1>3, <1>5, InstructionOffsets
<1>8. /\ t - 1 \in 0..N /\ N - t \in 0..N /\ (N - t) + 1 \in 0..N /\ N \in 0..N /\ 0 \in 0..N
      /\ N - (N - t) = t /\ N - ((N - t) + 1) = t - 1 /\ N - N = 0 /\ t \in 0..N
  BY <1>1
<1>9. p[0] = 0 /\ p[t - 1] \in Nat /\ p[t] \in Nat /\ p[N] \in Nat
  BY <1>4, <1>5, <1>8 DEF Sums
<1>10. /\ off[N - t] = p[N] - p[t] /\ off[(N - t) + 1] = p[N] - p[t - 1] /\ off[N] = p[N]
  <2>1. off[N] = p[N] - p[0]
    BY <1>7, <1>8
  <2> QED
    BY <1>7, <1>8, <1>9, <2>1
<1>11. Place(t) = (N - t) + 1 /\ Place(t) - 1 = N - t
  <2>1. Place(t) = (N + 1) - t
    BY DEF Place
  <2> QED
    BY <1>1, <2>1
<1>12. IRPad = <<p[t - 1], p[N] - p[t]>> /\ p[N] - p[t] \in Nat
  <2>1. t - 1 \in 0..Len(IRLen) /\ t \in Nat /\ N \in t..Len(IRLen) /\ 0 + 1 = 1 /\ 0 \in Nat
    BY <1>1, <1>4
  <2>2. SumOf(SubSeq(IRLen, 0 + 1, t - 1)) = p[t - 1] - p[0]
    BY <1>4, <1>5, <2>1, SumOfPart
  <2>3. SumOf(SubSeq(IRLen, t + 1, N)) = p[N] - p[t] /\ p[N] - p[t] \in Nat
    BY <1>4, <1>5, <2>1, SumOfPart
  <2>4. ~\E i \in Device : g_dev_list[i] = 0
    BY <1>1
  <2>5. IRPad = <<SumOf(SubSeq(IRLen, 1, t - 1)), SumOf(SubSeq(IRLen, t + 1, N))>>
    BY <1>4, <1>6, <2>4, Paddings
  <2>6. SumOf(SubSeq(IRLen, 1, t - 1)) = p[t - 1]
    BY <1>9, <2>1, <2>2
  <2> QED
    BY <2>3, <2>5, <2>6
<1>13. word \in Bits /\ Len(word) = Len(CaptureIR[t])
  <2>1. IRLen[t] \in Nat /\ word \in Words(IRLen[t])
    BY <1>1, <1>6
  <2> QED
    BY <1>1, <1>2, <2>1, WordIs
<1> DEFINE pre == p[t - 1]
           post == p[N] - p[t]
<1>14. IRWord(word) = Framed(word, pre, post, 1)
  <2>1. IRPad[1] = pre /\ IRPad[2] = post
    BY <1>12
  <2> QED
    BY <2>1, Zenon DEF IRWord, Framed
<1>15. off[Place(t) - 1] = post /\ off[N] = off[Place(t)] + pre
  BY <1>9, <1>10, <1>11
<1>16. pre \in Nat /\ post \in Nat /\ 1 \in {0, 1} /\ t \in Device
  BY <1>1, <1>9, <1>12
<1> HIDE DEF pre, post
<1>17. OnlyFor(CaptureIR, t, word, pre, post, 1)
  BY <1>1, <1>3, <1>13, <1>15, <1>16, Addressed
<1>18. IRScan(word).chain = Shifted(Joined(CaptureIR), Framed(word, pre, post, 1))
  BY <1>14, Scans
<1>19. /\ Part(IRScan(word).chain, CaptureIR, t) = Reverse(word)
       /\ \A e \in Device \ {t} : Part(IRScan(word).chain, CaptureIR, e) = Const(Len(CaptureIR[e]), 1)
  BY <1>17, <1>18, Zenon DEF OnlyFor
<1> QED
  BY <1>2, <1>6, <1>19

\* Data for one device.
LEMMA DataForOne ==
  ASSUME ChainTypeOK, g_dev_list # <<>>,
         \A d \in Device \ {Target} : Bypassed(d), NEW word \in Words(Len(CaptureDR[Target]))
  PROVE  /\ Part(DRScan(word).chain, CaptureDR, Target) = Reverse(word)
         /\ DRScan(word).tdo = Reverse(CaptureDR[Target])
<1>1. CaptureDR \in Registers /\ N \in Nat /\ Device = 1..N
  BY Captured, DevicesAre
<1>2. PICK off : Offsets(off, Laid(CaptureDR))
  BY <1>1, ChainOffsets
<1>3. PICK t \in 1..N : t = Target
  BY TargetIs
<1>4. \A d \in Device \ {t} : Len(CaptureDR[d]) = 1
  <2> TAKE d \in Device \ {t}
  <2>1. CaptureDR[d] = << 0 >>
    BY <1>3, Captured
  <2> QED
    BY <2>1
<1>5. Place(t) = (N - t) + 1 /\ Place(t) - 1 = N - t /\ N - Place(t) = t - 1
  <2>1. Place(t) = (N + 1) - t
    BY DEF Place
  <2> QED
    BY <1>1, <2>1
<1>6. off[Place(t) - 1] = N - t /\ off[N] = off[Place(t)] + (t - 1)
  BY <1>1, <1>2, <1>4, <1>5, BypassOffsets
<1>7. word \in Bits /\ Len(word) = Len(CaptureDR[t])
  <2>1. Len(CaptureDR[t]) \in Nat /\ word \in Words(Len(CaptureDR[t]))
    BY <1>1, <1>3 DEF Registers, Bits
  <2> QED
    BY <2>1, WordIs
<1>8. DRPad[1] = t - 1 /\ DRPad[2] = N - t
  BY <1>3, Paddings
<1> DEFINE pre == t - 1
           post == N - t
<1>9. DRWord(word) = Framed(word, pre, post, 0)
  BY <1>8, Zenon DEF DRWord, Framed
<1>10. pre \in Nat /\ post \in Nat /\ 0 \in {0, 1} /\ t \in Device
  BY <1>1
<1>11. off[Place(t) - 1] = post /\ off[N] = off[Place(t)] + pre /\ DRPad[1] = pre
  BY <1>6, <1>8
<1> HIDE DEF pre, post
<1>12. OnlyFor(CaptureDR, t, word, pre, post, 0)
  BY <1>1, <1>2, <1>7, <1>10, <1>11, Addressed
<1>13. /\ DRScan(word).chain = Shifted(Joined(CaptureDR), Framed(word, pre, post, 0))
       /\ DRScan(word).tdo = SubSeq(Out(Joined(CaptureDR), Framed(word, pre, post, 0)),
                                    pre + 1, pre + Len(word))
  BY <1>9, <1>11, Scans
<1> QED
  BY <1>3, <1>12, <1>13, Zenon DEF OnlyFor

\* To a caller who counts the devices from TDO a StoreGetRaw is transparent: the addressed
\* device gets the caller's bits, the others BYPASS, and the caller what the device had.
\* The comment over that code has the caller count from TDI, and of that it is not true.
THEOREM PaddingIsTransparent == ChainSpec => []TransparentPadding
<1>1. ASSUME ChainTypeOK PROVE TransparentPadding
  <2>1. ASSUME g_dev_list = IRLen, NEW word \in Words(IRLen[Target]), NEW d \in Device
        PROVE  Part(StoreGetRaw(CaptureIR, word, TRUE).chain, CaptureIR, d)
                 = IF d = Target THEN Reverse(word) ELSE Const(IRLen[d], 1)
    BY <1>1, <2>1, InstructionForOne, Zenon DEF IRScan
  <2>2. ASSUME g_dev_list # <<>>, \A d \in Device \ {Target} : Bypassed(d),
               NEW word \in Words(Len(CaptureDR[Target]))
        PROVE  /\ Part(StoreGetRaw(CaptureDR, word, FALSE).chain, CaptureDR, Target) = Reverse(word)
               /\ StoreGetRaw(CaptureDR, word, FALSE).tdo = Reverse(CaptureDR[Target])
    BY <1>1, <2>2, DataForOne, Zenon DEF DRScan
  <2> QED
    BY <2>1, <2>2, Zenon DEF TransparentPadding, PaddedFor
<1>2. ChainTypeOK => TransparentPadding
  BY <1>1
<1> QED
  BY <1>2, ChainTypeCorrect, PTL

----------------------------------------------------------------------------
(* The identification registers that are read *)

\* Every device of the chain has an IDCODE.
AllIdentified == \A d \in Device : IdCode[d] # <<0>>

\* They are words of the same width, that begin with a one and are not all ones.
LEMMA IdCodesAre ==
  ASSUME AllIdentified
  PROVE  /\ IdCode \in Registers /\ IdWidth \in Nat \ {0}
         /\ \A d \in Device : /\ IdCode[d] \in Words(IdWidth) /\ IdCode[d] \in Bits
                              /\ Len(IdCode[d]) = IdWidth /\ IdCode[d][IdWidth] = 1
                              /\ IdCode[d] # Const(IdWidth, 1)
<1>1. IdWidth \in Nat \ {0} /\ IdCode \in Seq(Seq({0, 1})) /\ Len(IdCode) = N
  BY ChainAssumption
<1>2. IdCode \in [Device -> Bits]
  BY <1>1, DevicesAre DEF Bits
<1>3. \A d \in Device : /\ IdCode[d] \in Words(IdWidth) /\ IdCode[d][IdWidth] = 1
                        /\ IdCode[d] # Const(IdWidth, 1)
  BY IdCodeAssumption DEF AllIdentified
<1>4. \A d \in Device : IdCode[d] \in Bits /\ Len(IdCode[d]) = IdWidth
  BY <1>1, <1>3, WordIs
<1> QED
  BY <1>1, <1>2, <1>3, <1>4 DEF Registers

\* A device begins as many widths from TDI as there are devices before it.
LEMMA IdCodeOffsets ==
  ASSUME AllIdentified, NEW off, Offsets(off, Laid(IdCode))
  PROVE  \A i \in 0..N : off[i] = i * IdWidth
<1>1. PICK w \in Nat : w = IdWidth
  BY IdCodesAre
<1>2. N \in Nat /\ Device = 1..N
  BY DevicesAre
<1>3. /\ off[0] = 0 /\ \A i \in 1..N : off[i] = off[i - 1] + Len(Laid(IdCode)[i])
      /\ Len(Laid(IdCode)) = N
  BY IdCodesAre, LaidIs DEF Offsets
<1>4. \A i \in 1..N : Len(Laid(IdCode)[i]) = w
  <2> TAKE i \in 1..N
  <2>1. i \in Device /\ Laid(IdCode)[i] = IdCode[Order[i]] /\ Order[i] \in Device
    BY <1>2, IdCodesAre, LaidIs, PlaceIs
  <2> QED
    BY <1>1, <2>1, IdCodesAre
<1> DEFINE G == {i \in 0..N : off[i] = i * w}
<1>5. 0 \in G
  BY <1>2, <1>3
<1>6. ASSUME NEW i \in 0..(N - 1), i \in G PROVE i + 1 \in G
  <2>1. i + 1 \in 1..N /\ (i + 1) - 1 = i /\ i + 1 \in 0..N /\ i \in Nat
    BY <1>2
  <2>2. off[i + 1] = off[i] + w
    BY <1>3, <1>4, <2>1
  <2>3. (i + 1) * w = i * w + w
    BY <2>1
  <2> QED
    BY <1>6, <2>1, <2>2, <2>3
<1> HIDE DEF G
<1>7. 0..N \subseteq G
  BY <1>2, <1>5, <1>6, UpTo
<1> QED
  BY <1>1, <1>7 DEF G

\* The widths of the words that have been read and of those that have not.
LEMMA Widths == ASSUME NEW n \in Nat, NEW k \in 1..n, NEW w \in Nat
                PROVE  /\ (k - 1) * w \in Nat /\ (n - k) * w \in Nat
                       /\ k * w = (k - 1) * w + w
                       /\ n * w = ((k - 1) * w + w) + (n - k) * w
<1>1. k - 1 \in Nat /\ n - k \in Nat /\ k \in Nat
  OBVIOUS
<1>2. \A a, b \in Nat : a * b \in Nat
  OBVIOUS
<1>3. (k - 1) * w \in Nat /\ (n - k) * w \in Nat
  BY <1>1, <1>2
<1>4. k * w = (k - 1) * w + w
  BY <1>1
<1>5. n * w = k * w + (n - k) * w
  BY <1>1
<1> QED
  BY <1>3, <1>4, <1>5

\* The words that are read are the IDCODEs, that of the device next to TDO first.
LEMMA ReadIs ==
  ASSUME AllIdentified, NEW k \in 1..N
  PROVE  (N + 1) - k \in Device /\ Order[(N + 1) - k] \in Device
         /\ Read(k) = Reverse(IdCode[Order[(N + 1) - k]])
<1>1. PICK w \in Nat \ {0} : w = IdWidth
  BY IdCodesAre
<1>2. N \in Nat /\ Device = 1..N /\ IdCode \in Registers
  BY DevicesAre, IdCodesAre
<1>3. PICK i \in Device : i = (N + 1) - k
  BY <1>2
<1>4. PICK d \in Device : d = Order[i]
  BY PlaceIs
<1>5. Place(d) = i /\ Place(d) - 1 = N - k
  <2>1. Place(d) = i
    BY <1>4, PlaceIs
  <2> QED
    BY <1>2, <1>3, <2>1
<1>6. PICK off : Offsets(off, Laid(IdCode))
  BY <1>2, ChainOffsets
<1>7. PICK a \in Nat, c \in Nat : a = (k - 1) * w /\ c = (N - k) * w
  BY <1>1, <1>2, Widths
<1>8. k * w = a + w /\ N * w = (a + w) + c
  BY <1>1, <1>2, <1>7, Widths
<1>9. off[N - k] = c /\ off[N] = (a + w) + c
  <2>1. N - k \in 0..N /\ N \in 0..N
    BY <1>2
  <2>2. \A j \in 0..N : off[j] = j * w
    BY <1>1, <1>6, IdCodeOffsets
  <2> QED
    BY <1>7, <1>8, <2>1, <2>2
<1> DEFINE chain == Joined(IdCode)
<1>10. /\ chain \in Bits /\ Len(chain) = (a + w) + c
       /\ \A j \in 1..w : chain[c + j] = IdCode[d][j]
  <2>1. Len(IdCode[d]) = w
    BY <1>1, IdCodesAre
  <2>2. /\ chain \in Bits /\ Len(chain) = off[N]
        /\ \A j \in 1..Len(IdCode[d]) : chain[off[Place(d) - 1] + j] = IdCode[d][j]
    BY <1>2, <1>6, JoinedIs
  <2> QED
    BY <1>5, <1>9, <2>1, <2>2
<1> HIDE DEF chain
<1>11. PICK out : out = Out(chain, Const(a + w, 1))
  OBVIOUS
<1>12. /\ out \in Words(a + w)
       /\ \A j \in 1..(a + w) : out[j] = chain[(((a + w) + c) - j) + 1]
  <2>1. a + w \in Nat /\ Const(a + w, 1) \in Bits /\ Len(Const(a + w, 1)) = a + w
    BY ConstIs
  <2>2. /\ out \in Words(a + w)
        /\ \A j \in 1..(a + w) : j <= Len(chain) => out[j] = chain[(Len(chain) - j) + 1]
    BY <1>10, <1>11, <2>1, OutIs
  <2> QED
    BY <1>10, <2>2
<1>13. out \in Bits /\ Len(out) = a + w
  <2>1. a + w \in Nat
    OBVIOUS
  <2> QED
    BY <1>12, <2>1, WordIs
<1>14. Read(k) = SubSeq(out, a + 1, a + w)
  <2>1. k * IdWidth = a + w /\ (k - 1) * IdWidth = a
    BY <1>1, <1>7, <1>8
  <2>2. Read(k) = SubSeq(Out(Joined(IdCode), Const(k * IdWidth, 1)), (k - 1) * IdWidth + 1, k * IdWidth)
    BY Zenon DEF Read
  <2>3. Read(k) = SubSeq(Out(chain, Const(a + w, 1)), a + 1, a + w)
    BY <2>1, <2>2, Zenon DEF chain
  <2> QED
    BY <1>11, <2>3
<1>15. /\ SubSeq(out, a + 1, a + w) \in Words(w)
       /\ \A j \in 1..w : SubSeq(out, a + 1, a + w)[j] = out[a + j]
  <2>1. a + w <= Len(out)
    BY <1>13
  <2> QED
    BY <1>13, <2>1, CutIs
<1>16. ASSUME NEW j \in 1..w PROVE out[a + j] = IdCode[d][(w - j) + 1]
  <2>1. PICK h \in 1..w : h = (w - j) + 1
    OBVIOUS
  <2>2. a + j \in 1..(a + w) /\ (((a + w) + c) - (a + j)) + 1 = c + h
    BY <2>1
  <2>3. out[a + j] = chain[c + h]
    BY <1>12, <2>2
  <2> QED
    BY <1>10, <2>1, <2>3
<1>17. Reverse(IdCode[d]) \in Words(w) /\ \A j \in 1..w : Reverse(IdCode[d])[j] = IdCode[d][(w - j) + 1]
  BY <1>1, IdCodesAre, ReverseIs, WordIs
<1>18. SubSeq(out, a + 1, a + w) = Reverse(IdCode[d])
  <2>1. \A j \in 1..w : SubSeq(out, a + 1, a + w)[j] = Reverse(IdCode[d])[j]
    BY <1>15, <1>16, <1>17
  <2> QED
    BY <1>15, <1>17, <2>1, SameWord
<1> QED
  BY <1>3, <1>4, <1>14, <1>18

\* After the last device the ones that were shifted in come out.
LEMMA ReadBeyond == ASSUME AllIdentified PROVE Read(N + 1) = Const(IdWidth, 1)
<1>1. PICK w \in Nat \ {0} : w = IdWidth
  BY IdCodesAre
<1>2. N \in Nat /\ IdCode \in Registers
  BY DevicesAre, IdCodesAre
<1>3. PICK off : Offsets(off, Laid(IdCode))
  BY <1>2, ChainOffsets
<1>4. PICK a \in Nat : a = N * w
  <2>1. \A x, y \in Nat : x * y \in Nat
    OBVIOUS
  <2> QED
    BY <1>2, <2>1
<1>5. (N + 1) * w = a + w /\ ((N + 1) - 1) * w = a
  BY <1>2, <1>4
<1> DEFINE chain == Joined(IdCode)
           ones == Const(a + w, 1)
<1>6. chain \in Bits /\ Len(chain) = a
  <2>1. N \in 0..N
    BY <1>2
  <2>2. off[N] = a
    BY <1>1, <1>3, <1>4, <2>1, IdCodeOffsets
  <2> QED
    BY <1>2, <1>3, <2>2, JoinedIs
<1> HIDE DEF chain
<1>7. a + w \in Nat /\ ones \in Bits /\ Len(ones) = a + w /\ \A j \in 1..(a + w) : ones[j] = 1
  BY ConstIs
<1> HIDE DEF ones
<1>8. PICK out : out = Out(chain, ones)
  OBVIOUS
<1>9. /\ out \in Words(a + w) /\ out \in Bits /\ Len(out) = a + w
      /\ \A j \in 1..w : out[a + j] = 1
  <2>1. /\ out \in Words(a + w)
        /\ \A j \in 1..(a + w) : ~(j <= a) => out[j] = ones[j - a]
    BY <1>6, <1>7, <1>8, OutIs
  <2>2. \A j \in 1..w : /\ a + j \in 1..(a + w) /\ ~(a + j <= a) /\ (a + j) - a = j
                        /\ j \in 1..(a + w)
    OBVIOUS
  <2>3. \A j \in 1..w : out[a + j] = 1
    BY <1>7, <2>1, <2>2
  <2> QED
    BY <1>7, <2>1, <2>3, WordIs
<1>10. Read(N + 1) = SubSeq(out, a + 1, a + w)
  <2>1. (N + 1) * IdWidth = a + w /\ ((N + 1) - 1) * IdWidth = a
    BY <1>1, <1>5
  <2>2. Read(N + 1) = SubSeq(Out(Joined(IdCode), Const((N + 1) * IdWidth, 1)),
                             ((N + 1) - 1) * IdWidth + 1, (N + 1) * IdWidth)
    BY Zenon DEF Read
  <2>3. Read(N + 1) = SubSeq(Out(chain, ones), a + 1, a + w)
    BY <2>1, <2>2, Zenon DEF chain, ones
  <2> QED
    BY <1>8, <2>3
<1>11. /\ SubSeq(out, a + 1, a + w) \in Words(w)
       /\ \A j \in 1..w : SubSeq(out, a + 1, a + w)[j] = out[a + j]
  <2>1. a + w <= Len(out)
    BY <1>9
  <2> QED
    BY <1>9, <2>1, CutIs
<1>12. Const(w, 1) \in Words(w) /\ \A j \in 1..w : Const(w, 1)[j] = 1
  BY ConstIs
<1>13. SubSeq(out, a + 1, a + w) = Const(w, 1)
  <2>1. \A j \in 1..w : SubSeq(out, a + 1, a + w)[j] = Const(w, 1)[j]
    BY <1>9, <1>11, <1>12
  <2> QED
    BY <1>11, <1>12, <2>1, SameWord
<1> QED
  BY <1>1, <1>10, <1>13

\* A word of a device does not end the count: it begins with a one and is not all ones.
LEMMA ReadOfDevice ==
  ASSUME AllIdentified, NEW k \in 1..N
  PROVE  Read(k) # Const(IdWidth, 1) /\ Read(k)[1] = 1
<1>1. PICK d \in Device : Read(k) = Reverse(IdCode[d])
  BY ReadIs
<1>2. PICK w \in Nat \ {0} : w = IdWidth
  BY IdCodesAre
<1>3. IdCode[d] \in Words(w) /\ IdCode[d] \in Bits /\ Len(IdCode[d]) = w /\ IdCode[d][w] = 1
      /\ IdCode[d] # Const(w, 1)
  BY <1>2, IdCodesAre
<1>4. \A j \in 1..w : Reverse(IdCode[d])[j] = IdCode[d][(w - j) + 1]
  BY <1>3, ReverseIs
<1>5. Const(w, 1) \in Words(w) /\ \A j \in 1..w : Const(w, 1)[j] = 1
  BY ConstIs
<1>6. Read(k)[1] = 1
  <2>1. 1 \in 1..w /\ (w - 1) + 1 = w
    OBVIOUS
  <2> QED
    BY <1>1, <1>3, <1>4, <2>1
<1>7. ASSUME Read(k) = Const(w, 1) PROVE FALSE
  <2>1. ASSUME NEW j \in 1..w PROVE IdCode[d][j] = Const(w, 1)[j]
    <3>1. PICK h \in 1..w : h = (w - j) + 1 /\ (w - h) + 1 = j
      OBVIOUS
    <3> QED
      BY <1>1, <1>4, <1>5, <1>7, <3>1
  <2>2. IdCode[d] = Const(w, 1)
    BY <1>3, <1>5, <2>1, SameWord
  <2> QED
    BY <1>3, <2>2
<1> QED
  BY <1>2, <1>6, <1>7

\* As many devices are counted as there are, or as may be.
LEMMA CountedIs ==
  ASSUME AllIdentified, NEW maxDev \in 1..(N + 1)
  PROVE  Counted(maxDev) = IF maxDev > N THEN N ELSE maxDev
<1>1. N \in Nat
  BY DevicesAre
<1>2. PICK m \in 1..N : m = IF maxDev > N THEN N ELSE maxDev
  <2>1. N > 0
    BY DevicesAre
  <2> QED
    BY <1>1, <2>1
<1> DEFINE Ends(k) == k > maxDev \/ Read(k) = Const(IdWidth, 1) \/ Read(k)[1] = 0
<1>3. Ends(m + 1) /\ m + 1 \in 1..(N + 1)
  <2>1. CASE maxDev > N
    <3>1. m + 1 = N + 1
      BY <1>2, <2>1
    <3> QED
      BY <1>1, <3>1, ReadBeyond
  <2>2. CASE ~(maxDev > N)
    <3>1. m + 1 > maxDev
      BY <1>1, <1>2, <2>2
    <3> QED
      BY <1>1, <3>1
  <2> QED
    BY <2>1, <2>2
<1>4. ASSUME NEW i \in 1..m PROVE ~Ends(i)
  <2>1. i \in 1..N /\ ~(i > maxDev)
    BY <1>1, <1>2
  <2>2. Read(i) # Const(IdWidth, 1) /\ Read(i)[1] = 1
    BY <2>1, ReadOfDevice
  <2> QED
    BY <2>1, <2>2
<1>5. Counted(maxDev) = (CHOOSE k \in 1..(N + 1) : Ends(k) /\ \A i \in 1..(k - 1) : ~Ends(i)) - 1
  BY Zenon DEF Counted
<1> HIDE DEF Ends
<1>6. \A k \in 1..(N + 1) : Ends(k) /\ (\A i \in 1..(k - 1) : ~Ends(i)) => k = m + 1
  <2> TAKE k \in 1..(N + 1)
  <2> HAVE Ends(k) /\ (\A i \in 1..(k - 1) : ~Ends(i))
  <2>1. ~(k <= m)
    <3>1. k <= m => k \in 1..m
      BY <1>1
    <3> QED
      BY <1>4, <3>1
  <2>2. ~(k > m + 1)
    <3>1. k > m + 1 => m + 1 \in 1..(k - 1)
      BY <1>1
    <3> QED
      BY <1>3, <3>1
  <2> QED
    BY <1>1, <2>1, <2>2
<1>7. \A i \in 1..((m + 1) - 1) : ~Ends(i)
  BY <1>4
<1>8. (CHOOSE k \in 1..(N + 1) : Ends(k) /\ \A i \in 1..(k - 1) : ~Ends(i)) = m + 1
  <2>1. \A k : k = m + 1 <=> k \in 1..(N + 1) /\ Ends(k) /\ \A i \in 1..(k - 1) : ~Ends(i)
    BY <1>3, <1>6, <1>7
  <2> QED
    BY <2>1, Zenon
<1>9. Counted(maxDev) = (m + 1) - 1
  BY <1>5, <1>8, Zenon
<1> QED
  BY <1>2, <1>9

----------------------------------------------------------------------------
(* The IR bits that are measured *)

\* The instruction registers of the chain have as many bits as the lengths say.
LEMMA InstructionBits ==
  ASSUME ChainTypeOK
  PROVE  Len(Joined(CaptureIR)) = SumOf(IRLen)
<1>1. /\ CaptureIR \in Registers /\ N \in Nat /\ Device = 1..N
      /\ \A d \in Device : CaptureIR[d] \in Words(IRLen[d]) /\ IRLen[d] \in Nat
  BY Captured, DevicesAre
<1>2. \A d \in Device : Len(CaptureIR[d]) = IRLen[d]
  <2> TAKE d \in Device
  <2>1. IRLen[d] \in Nat /\ CaptureIR[d] \in Words(IRLen[d])
    BY <1>1
  <2> QED
    BY <2>1, WordIs
<1>3. IRLen \in Seq(Nat) /\ Len(IRLen) = N
  <2>1. IRLen \in Seq(Nat \ {0})
    BY ChainAssumption
  <2> QED
    BY <2>1 DEF N
<1>4. PICK off : Offsets(off, Laid(CaptureIR))
  BY <1>1, ChainOffsets
<1>5. PICK p : Sums(p, IRLen)
  BY <1>3, SumsExist
<1>6. N \in 0..N /\ N - N = 0
  BY <1>1
<1>7. off[N] = p[N] - p[N - N]
  BY <1>1, <1>2, <1>4, <1>5, <1>6, InstructionOffsets
<1>8. p[0] = 0 /\ p[N] \in Nat /\ SumOf(IRLen) = p[N]
  BY <1>3, <1>5, <1>6, SumIs DEF Sums
<1>9. Len(Joined(CaptureIR)) = off[N]
  BY <1>1, <1>4, JoinedIs
<1> QED
  BY <1>6, <1>7, <1>8, <1>9

\* With a preload no shorter than the chain, the zero is the only one in it, and
\* the bits shifted until it comes out are those of the chain.
LEMMA Measured ==
  ASSUME ChainTypeOK, NEW n \in Nat \ {0}, n = Len(Joined(CaptureIR)), n <= Preload
  PROVE  total_ir_len(Probed) = n /\ Shifted(Probed, Const(n, 1)) = Const(n, 1)
<1> DEFINE chain == Joined(CaptureIR)
           full == Shifted(chain, Const(Preload, 1))
<1>1. /\ chain \in Bits /\ Probed \in Words(n) /\ Probed \in Bits /\ Len(Probed) = n
      /\ Probed[1] = 0 /\ \A i \in 2..n : Probed[i] = full[i - 1]
  BY ProbedIs, WordIs
<1>2. /\ Preload \in Nat /\ Const(Preload, 1) \in Bits /\ Len(Const(Preload, 1)) = Preload
      /\ \A i \in 1..Preload : Const(Preload, 1)[i] = 1
  BY ChainAssumption, ConstIs
<1>3. ASSUME NEW i \in 1..n PROVE full[i] = 1
  <2>1. i \in 1..Len(chain) /\ i <= Len(Const(Preload, 1))
    BY <1>2
  <2>2. full[i] = Const(Preload, 1)[(Len(Const(Preload, 1)) - i) + 1]
    <3> HIDE DEF chain
    <3> QED
      BY <1>1, <1>2, <2>1, ShiftedIs
  <2>3. (Preload - i) + 1 \in 1..Preload
    BY <1>2
  <2> HIDE DEF full
  <2> QED
    BY <1>2, <2>2, <2>3
<1> HIDE DEF full, chain
<1>4. \A i \in 2..n : Probed[i] = 1
  <2> TAKE i \in 2..n
  <2>1. i - 1 \in 1..n
    OBVIOUS
  <2> QED
    BY <1>1, <1>3, <2>1
<1>5. /\ Const(n, 1) \in Bits /\ Const(n, 1) \in Words(n) /\ Len(Const(n, 1)) = n
      /\ \A i \in 1..n : Const(n, 1)[i] = 1
  BY ConstIs
<1>6. PICK out : out = Out(Probed, Const(n, 1))
  OBVIOUS
<1>7. out \in Words(n) /\ \A i \in 1..n : out[i] = Probed[(n - i) + 1]
  <2>1. out \in Words(n) /\ \A i \in 1..n : i <= n => out[i] = Probed[(n - i) + 1]
    BY <1>1, <1>5, <1>6, OutIs
  <2> QED
    BY <2>1
<1>8. out[n] = 0 /\ \A i \in 1..(n - 1) : out[i] = 1
  <2>1. n \in 1..n /\ (n - n) + 1 = 1 /\ \A i \in 1..(n - 1) : i \in 1..n /\ (n - i) + 1 \in 2..n
    OBVIOUS
  <2> QED
    BY <1>1, <1>4, <1>7, <2>1
<1>9. FirstZero(out) = n
  <2>1. n \in 1..n
    OBVIOUS
  <2> QED
    BY <1>7, <1>8, <2>1, FirstZeroIs
<1>10. total_ir_len(Probed) = n
  BY <1>1, <1>6, <1>9 DEF total_ir_len
<1>11. /\ Shifted(Probed, Const(n, 1)) \in Words(n)
       /\ \A i \in 1..n : Shifted(Probed, Const(n, 1))[i] = 1
  <2>1. /\ Shifted(Probed, Const(n, 1)) \in Words(n)
        /\ \A i \in 1..n : i <= n => Shifted(Probed, Const(n, 1))[i] = Const(n, 1)[(n - i) + 1]
    BY <1>1, <1>5, ShiftedIs
  <2>2. \A i \in 1..n : (n - i) + 1 \in 1..n /\ i <= n
    OBVIOUS
  <2> QED
    BY <1>5, <2>1, <2>2
<1>12. Shifted(Probed, Const(n, 1)) = Const(n, 1)
  <2>1. \A i \in 1..n : Shifted(Probed, Const(n, 1))[i] = Const(n, 1)[i]
    BY <1>5, <1>11
  <2> QED
    BY <1>5, <1>11, <2>1, SameWord
<1> QED
  BY <1>10, <1>12

\* GetIdChain counts the devices, reads their IDCODEs and measures the IR bits of
\* the whole chain; to a caller who listed the devices from TDO the lengths it gives
\* are those of the devices it gives them for.
THEOREM ChainIsMeasured == ChainSpec => []ChainMeasured
<1>1. ASSUME ChainTypeOK PROVE ChainMeasured
  <2>1. ASSUME AllIdentified, SumOf(IRLen) <= Preload, NEW maxDev \in 1..(N + 1)
        PROVE  /\ Counted(maxDev) = IF maxDev > N THEN N ELSE maxDev
               /\ \A k \in 1..Counted(maxDev) : Read(k) = Reverse(IdCode[k])
               /\ total_ir_len(Probed) = SumOf(IRLen)
               /\ Shifted(Probed, Const(total_ir_len(Probed), 1)) = Const(SumOf(IRLen), 1)
               /\ Counted(maxDev) = N /\ g_dev_list = IRLen =>
                     \A k \in 1..N : InfoIRLen(Counted(maxDev), k) = IRLen[k]
    <3>1. N \in Nat /\ N > 0 /\ Device = 1..N
      BY DevicesAre
    <3>2. Counted(maxDev) = IF maxDev > N THEN N ELSE maxDev
      BY <2>1, CountedIs
    <3>3. \A k \in 1..Counted(maxDev) : Read(k) = Reverse(IdCode[k])
      <4>1. \A k \in 1..Counted(maxDev) : k \in 1..N
        BY <3>1, <3>2
      <4> TAKE k \in 1..Counted(maxDev)
      <4>2. k \in 1..N
        BY <4>1
      <4>3. Read(k) = Reverse(IdCode[Order[(N + 1) - k]])
        BY <2>1, <4>2, ReadIs
      <4>4. Order[(N + 1) - k] = k
        BY <3>1, <4>2 DEF Order
      <4> QED
        BY <4>3, <4>4, Zenon
    <3>4. PICK n \in Nat \ {0} : n = Len(Joined(CaptureIR))
      BY <1>1, ProbedIs
    <3>5. n = SumOf(IRLen)
      BY <1>1, <3>4, InstructionBits
    <3>6. total_ir_len(Probed) = n /\ Shifted(Probed, Const(n, 1)) = Const(n, 1)
      BY <1>1, <2>1, <3>4, <3>5, Measured
    <3>7. ASSUME Counted(maxDev) = N, g_dev_list = IRLen, NEW k \in 1..N
          PROVE  InfoIRLen(Counted(maxDev), k) = IRLen[k]
      <4>1. Len(g_dev_list) = N
        BY <3>7 DEF N
      <4>2. InfoIRLen(Counted(maxDev), k) = IRLen[k]
        <5>1. CASE N # 1
          BY <3>7, <4>1, <5>1 DEF InfoIRLen
        <5>2. CASE N = 1
          <6>1. InfoIRLen(Counted(maxDev), k) = SumOf(IRLen) /\ k = 1
            BY <3>5, <3>6, <3>7, <5>2 DEF InfoIRLen
          <6>2. IRLen \in Seq(Nat) /\ Len(IRLen) = 1
            <7>1. IRLen \in Seq(Nat \ {0}) /\ Len(IRLen) = N
              BY ChainAssumption DEF N
            <7> QED
              BY <5>2, <7>1
          <6>3. PICK p : Sums(p, IRLen)
            BY <6>2, SumsExist
          <6>4. SumOf(IRLen) = p[1]
            BY <6>2, <6>3, SumIs
          <6>5. p[0] = 0 /\ p[1] = p[0] + IRLen[1] /\ IRLen[1] \in Nat
            BY <6>2, <6>3 DEF Sums
          <6> QED
            BY <6>1, <6>4, <6>5
        <5> QED
          BY <5>1, <5>2
      <4> QED
        BY <4>2
    <3> QED
      BY <3>2, <3>3, <3>5, <3>6, <3>7
  <2> QED
    BY <2>1, Zenon DEF ChainMeasured, AllIdentified
<1>2. ChainTypeOK => ChainMeasured
  BY <1>1
<1> QED
  BY <1>2, ChainTypeCorrect, PTL
=============================================================================
