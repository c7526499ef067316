------------------------------ MODULE DllSession ------------------------------
(***************************************************************************)
(* The DLL's session with a probe: JLINKARM_OpenEx and Close, the list of  *)
(* probes and its cache, the JTAG clock, with the search for the COM ports *)
(* of com_detect.c, while probes are plugged in and out.                   *)
(*                                                                         *)
(* A probe has two ports, "com" for the commands (MI_00) and "uart" for    *)
(* the bridge (MI_02); Windows lets one handle at a time open a port.      *)
(* pico_transact succeeds or fails here; when it fails the probe may owe   *)
(* the command's execution or its answer (PicoTransport has the bytes).    *)
(***************************************************************************)
EXTENDS Integers, FiniteSets

CONSTANTS Probe, none,
          Version,     \* what the DLL makes of a probe's GET_VERSION answer
          Khz,         \* what SetSpeed is asked for
          Thousand,    \* hertz in a kilohertz (scaled down for the runs)
          Wrap,        \* 2^32 (likewise): the width of hz
          Ttl,         \* CACHE_TTL_MS
          TickWrap,    \* 2^32 ms: GetTickCount starts again
          MaxOwing     \* bound: commands a probe owes at a time

BootKhz == 4000     \* s_freq_khz of the firmware, g_speed_khz of the DLL

ASSUME SessionAssumption ==
    /\ none \notin Probe /\ Version \in [Probe -> Nat \ {0}]
    /\ Khz \subseteq Nat
    /\ {Thousand, Wrap, Ttl, TickWrap} \subseteq Nat \ {0} /\ Ttl < TickWrap
    /\ MaxOwing \in Nat

VARIABLES plugged,             \* the probes connected
          clockOf,             \* s_freq_khz, by probe
          owing,               \* by probe: the hz of each SET_CLOCK, 0 of another
                               \* command, that the caller no longer waits for
          owned, gone,         \* ports held open; those of them whose probe went since
          pc,                  \* where OpenEx or EMU_GetList is
          port, fill,          \* the probe found; is there an array to fill
          hCOM, hUART, is_open,
          serial, speed,       \* g_serial, g_speed_khz
          cache,               \* s_cache_found, s_cache_serial
          age, took,           \* GetTickCount() - s_cache_tick, - now of EMU_GetList
          ret,                 \* the call the step ends, with what it returned or was given
          calm,                \* history: opened on a quiet probe, and no call failed since
          set,                 \* history: SetSpeed was called in this session
          alone,               \* history: one probe at most since OpenEx was called
          heard, round         \* history: ticks since a probe answered EMU_GetList, Ttl or
                               \* more not told apart; GetTickCount came round to the
                               \* cache's time

device == <<plugged, clockOf, owing>>
handles == <<hCOM, hUART, is_open, owned, gone>>
call == <<pc, port, fill, took>>
session == <<serial, speed, cache, age>>
history == <<calm, set, alone, heard, round>>
vars == <<device, handles, call, session, ret, history>>

Ports == Probe \X {"com", "uart"}
Handle == Probe \union {none}
Silent == [fn |-> "none", val |-> 0]    \* nothing returned

TypeOK == /\ plugged \subseteq Probe
          /\ clockOf \in [Probe -> Nat \ {0}]
          /\ owing \in [Probe -> SUBSET Nat]
          /\ owned \subseteq Ports /\ gone \subseteq owned
          /\ pc \in {"idle", "find", "open", "version", "pins", "uart", "list", "serial", "read"}
          /\ port \in Handle /\ fill \in BOOLEAN
          /\ hCOM \in Handle /\ hUART \in Handle /\ is_open \in BOOLEAN
          /\ serial \in Nat /\ speed \in Nat
          /\ cache \in [found : {-1, 0, 1}, serial : Nat]
          /\ age \in 0..TickWrap - 1 /\ took \in 0..TickWrap - 1
          /\ ret \in [fn : {"none", "OpenEx", "GetList", "GetSpeed"}, val : Nat]
          /\ calm \in BOOLEAN /\ alone \in BOOLEAN /\ round \in BOOLEAN
          /\ set \in BOOLEAN /\ heard \in 0..Ttl

\* A probe that has just started.
Started(p) == /\ clockOf' = [clockOf EXCEPT ![p] = BootKhz]
              /\ owing' = [owing EXCEPT ![p] = {}]

Init == /\ plugged = {}
        /\ clockOf = [p \in Probe |-> BootKhz]
        /\ owing = [p \in Probe |-> {}]
        /\ owned = {} /\ gone = {}
        /\ hCOM = none /\ hUART = none /\ is_open = FALSE
        /\ serial = 0 /\ speed = BootKhz
        /\ cache = [found |-> -1, serial |-> 0] /\ age = 0
        /\ pc = "idle" /\ port = none /\ fill = FALSE /\ took = 0
        /\ ret = Silent
        /\ calm = FALSE /\ set = FALSE /\ alone = TRUE
        /\ heard = Ttl /\ round = FALSE

-------------------------------------------------------------------------------
(* The probes and the clock.                                               *)

\* An open session, or a call of OpenEx.
Opening == is_open \/ pc \in {"find", "open", "version", "pins", "uart"}

Plug(p) == /\ p \notin plugged
           /\ plugged' = plugged \union {p}
           /\ alone' = (Opening => alone /\ plugged \union {hCOM, port} \subseteq {p, none})
           /\ ret' = Silent
           /\ UNCHANGED <<clockOf, owing, handles, call, session,
                          calm, set, heard, round>>

\* A handle that is open stays open, and good for nothing.
Unplug(p) == /\ p \in plugged
             /\ plugged' = plugged \ {p}
             /\ gone' = gone \union {e \in owned : e[1] = p}
             /\ Started(p)
             /\ ret' = Silent
             /\ UNCHANGED <<hCOM, hUART, is_open, owned, call, session, history>>

\* What handle_set_clock does with hz.
SetClock(hz, was) == IF hz < Thousand THEN was ELSE hz \div Thousand

\* A command of a call that failed is executed after all, or its answer discarded.
Settle(p) ==
    /\ \E hz \in owing[p] :
          /\ owing' = [owing EXCEPT ![p] = @ \ {hz}]
          /\ \/ clockOf' = [clockOf EXCEPT ![p] = SetClock(hz, @)]
             \/ clockOf' = clockOf
    /\ ret' = Silent
    /\ UNCHANGED <<plugged, handles, call, session, history>>

\* No call lasts as long as GetTickCount takes to go round.
Tick == /\ took < TickWrap - 1
        /\ took' = IF pc \in {"list", "serial", "read"} THEN took + 1 ELSE 0
        /\ age' = IF cache.found = -1 THEN 0 ELSE (age + 1) % TickWrap
        /\ round' = (round \/ age + 1 = TickWrap)
        /\ heard' = IF heard < Ttl THEN heard + 1 ELSE Ttl
        /\ ret' = Silent
        /\ UNCHANGED <<device, handles, pc, port, fill, serial, speed, cache,
                       calm, set, alone>>

\* The call in hand is over.
Returns == pc' = "idle" /\ port' = none /\ fill' = FALSE /\ took' = 0

-------------------------------------------------------------------------------
(* pico_transact and the search for ports.                                 *)

\* The probe behind hCOM can hear a command.
Alive == hCOM # none /\ <<hCOM, "com">> \notin gone

\* The probe gets the command, but not in time for the caller.
Owes(p, cmd) == owing[p] \union (IF Cardinality(owing[p]) < MaxOwing THEN {cmd} ELSE {})

\* The call fails: the command is lost, or still on its way.
Fails(p, cmd) == /\ calm' = FALSE
                 /\ \/ owing' = owing
                    \/ <<p, "com">> \notin gone /\ owing' = [owing EXCEPT ![p] = Owes(p, cmd)]

\* After a failed call the answer may be that of another command.
Answer(right, any) == IF calm THEN {right} ELSE any

\* CreateFile, share mode 0.
Free(e) == e[1] \in plugged /\ e \notin owned

\* pico_detect: some probe whose "com" port is free answers PING within 50 ms, or none
\* does.  The ones tried before it may answer later.  The late RESP_OK of a probe that
\* owed one passes for the answer to PING, which the probe then owes.
Detects(p) ==
    LET present == {q \in Probe : Free(<<q, "com">>)}
    IN  \E slow \in SUBSET present :
          /\ p \in (present \ slow) \union {q \in slow : owing[q] # {}} \union {none}
          /\ owing' = [q \in Probe |-> IF q \in slow THEN Owes(q, 0) ELSE owing[q]]

-------------------------------------------------------------------------------
(* JLINKARM_OpenEx and JLINKARM_Close.                                     *)

\* Returns at once if it is open.
OpenEx ==
    /\ pc = "idle"
    /\ IF is_open
       THEN /\ ret' = [fn |-> "OpenEx", val |-> 1]
            /\ UNCHANGED <<pc, alone>>
       ELSE /\ pc' = "find" /\ ret' = Silent
            /\ alone' = (Cardinality(plugged) <= 1)
    /\ UNCHANGED <<device, handles, port, fill, took, session, calm, set, heard, round>>

\* "PicoAdapter not found"
OpenFails == Returns /\ ret' = [fn |-> "OpenEx", val |-> 0] /\ alone' = TRUE

Find ==
    /\ pc = "find"
    /\ \/ Detects(none) /\ OpenFails
       \/ \E p \in Probe :
             /\ Detects(p)
             /\ pc' = "open" /\ port' = p /\ ret' = Silent
             /\ UNCHANGED <<fill, took, alone>>
    /\ UNCHANGED <<plugged, clockOf, handles, session, calm, set, heard, round>>

\* "Cannot open COM port"
OpenCom ==
    /\ pc = "open"
    /\ \/ /\ Free(<<port, "com">>)
          /\ hCOM' = port /\ owned' = owned \union {<<port, "com">>}
          /\ calm' = (owing[port] = {})
          /\ pc' = "version" /\ ret' = Silent
          /\ UNCHANGED <<port, fill, took, alone>>
       \/ hCOM' = none /\ OpenFails /\ UNCHANGED <<owned, calm>>
    /\ UNCHANGED <<device, hUART, is_open, gone, session, set, heard, round>>

\* The serial number stays what it was if GET_VERSION fails.
GetVersion ==
    /\ pc = "version" /\ pc' = "pins"
    /\ \/ /\ Alive
          /\ \E s \in Answer(Version[hCOM], {Version[p] : p \in Probe}) : serial' = s
          /\ UNCHANGED <<owing, calm>>
       \/ Fails(hCOM, 0) /\ serial' = serial
    /\ ret' = Silent
    /\ UNCHANGED <<plugged, clockOf, handles, port, fill, took, speed, cache, age,
                   set, alone, heard, round>>

\* READ_VREF and GET_PIN_STATE, for the log.
Diagnose ==
    /\ pc = "pins" /\ pc' = "uart"
    /\ \/ Alive /\ UNCHANGED <<owing, calm>>
       \/ Fails(hCOM, 0)
    /\ ret' = Silent
    /\ UNCHANGED <<plugged, clockOf, handles, port, fill, took, session,
                   set, alone, heard, round>>

\* pico_detect_uart takes the first bridge that can be opened, of whatever probe.
\* Without one the session is open all the same.
OpenUart ==
    /\ pc = "uart"
    /\ \/ \E p \in Probe :
             /\ Free(<<p, "uart">>)
             /\ hUART' = p /\ owned' = owned \union {<<p, "uart">>}
       \/ UNCHANGED <<hUART, owned>>
    /\ is_open' = TRUE
    /\ Returns /\ ret' = [fn |-> "OpenEx", val |-> 1]
    /\ UNCHANGED <<plugged, clockOf, owing, hCOM, gone, session, history>>

\* Fault: only the command port is closed.
CloseComOnly == {<<hCOM, "com">>}

\* The ports whose handles Close gives back.
Closed == {<<hCOM, "com">>, <<hUART, "uart">>}

Close ==
    /\ pc = "idle"
    /\ hCOM' = none /\ hUART' = none /\ is_open' = FALSE
    /\ owned' = owned \ Closed /\ gone' = gone \ Closed
    /\ calm' = FALSE /\ set' = FALSE /\ alone' = TRUE
    /\ ret' = Silent
    /\ UNCHANGED <<device, call, session, heard, round>>

-------------------------------------------------------------------------------
(* JLINKARM_EMU_GetList, JLINKARM_EMU_GetNumConnections (without an array),*)
(* JLINKARM_EMU_SelectByUSBSN.                                             *)

\* EMU_GetList returns: a serial number not known yet becomes the session's.
Lists(found, sn, array) ==
    /\ ret' = [fn |-> "GetList", val |-> found]
    /\ serial' = IF found = 1 /\ array /\ serial = 0 THEN sn ELSE serial

\* now - s_cache_tick is below CACHE_TTL_MS, in 32 bits.
CacheValid == cache.found >= 0 /\ age < Ttl

GetList(array) ==
    /\ pc = "idle"
    /\ \/ is_open /\ Lists(1, serial, array) /\ UNCHANGED call
       \/ ~is_open /\ CacheValid /\ Lists(cache.found, cache.serial, array) /\ UNCHANGED call
       \/ /\ ~is_open /\ ~CacheValid
          /\ pc' = "list" /\ fill' = array /\ UNCHANGED <<port, took>>
          /\ ret' = Silent /\ UNCHANGED serial
    /\ UNCHANGED <<device, handles, speed, cache, age, history>>

\* Fault: the clock is read again after the search.
FillsAtEnd(found, sn) == /\ cache' = [found |-> found, serial |-> sn]
                         /\ age' = 0 /\ round' = FALSE
                         /\ Lists(found, sn, fill)
                         /\ Returns

\* The cache is filled, as of the time the call began.
Fills(found, sn) == /\ cache' = [found |-> found, serial |-> sn]
                    /\ age' = took /\ round' = FALSE
                    /\ Lists(found, sn, fill)
                    /\ Returns

\* The serial number is read once, by the first search that finds a probe.
Search ==
    /\ pc = "list"
    /\ \/ Detects(none) /\ Fills(0, cache.serial) /\ UNCHANGED heard
       \/ \E p \in Probe :
             /\ Detects(p) /\ heard' = 0
             /\ IF cache.serial = 0
                THEN /\ pc' = "serial" /\ port' = p /\ ret' = Silent
                     /\ UNCHANGED <<fill, took, cache, age, serial, round>>
                ELSE Fills(1, cache.serial)
    /\ UNCHANGED <<plugged, clockOf, handles, speed, calm, set, alone>>

\* pico_port_open; without the port the serial number is 0, the probe listed all the same.
OpenForSerial ==
    /\ pc = "serial"
    /\ \/ /\ Free(<<port, "com">>)
          /\ owned' = owned \union {<<port, "com">>} /\ pc' = "read" /\ ret' = Silent
          /\ UNCHANGED <<port, fill, took, cache, age, serial, round>>
       \/ Fills(1, 0) /\ UNCHANGED owned
    /\ UNCHANGED <<device, hCOM, hUART, is_open, gone, speed, calm, set, alone, heard>>

\* GET_VERSION on it, and pico_port_close.
ReadSerial ==
    /\ pc = "read"
    /\ \/ /\ <<port, "com">> \notin gone
          /\ \E p \in IF owing[port] = {} THEN {port} ELSE Probe : Fills(1, Version[p])
          /\ UNCHANGED <<owing, calm>>
       \/ Fails(port, 0) /\ Fills(1, 0)
    /\ owned' = owned \ {<<port, "com">>} /\ gone' = gone \ {<<port, "com">>}
    /\ UNCHANGED <<plugged, clockOf, hCOM, hUART, is_open, speed,
                   set, alone, heard>>

SelectByUSBSN(sn) ==
    /\ pc = "idle"
    /\ serial' = sn /\ ret' = Silent
    /\ UNCHANGED <<device, handles, call, speed, cache, age, history>>

-------------------------------------------------------------------------------
(* Calls that need the session open.                                       *)

\* Fault: SET_CLOCK is given kilohertz.
HzUnscaled(khz) == khz % Wrap

\* khz * 1000u
HzOf(khz) == (khz * Thousand) % Wrap

\* g_speed_khz is set whatever became of SET_CLOCK.
SetSpeed(khz) ==
    /\ pc = "idle" /\ is_open
    /\ \/ /\ Alive
          /\ clockOf' = [clockOf EXCEPT ![hCOM] = SetClock(HzOf(khz), @)]
          /\ UNCHANGED <<owing, calm>>
       \/ Fails(hCOM, HzOf(khz)) /\ clockOf' = clockOf
    /\ speed' = khz /\ set' = TRUE
    /\ ret' = Silent
    /\ UNCHANGED <<plugged, handles, call, serial, cache, age, alone,
                   heard, round>>

\* The probe's clock, in kHz; g_speed_khz when it is closed or does not answer.
GetSpeed ==
    /\ pc = "idle"
    /\ \/ /\ is_open /\ Alive
          /\ \E khz \in Answer(clockOf[hCOM], Khz) : ret' = [fn |-> "GetSpeed", val |-> khz]
          /\ UNCHANGED <<owing, calm>>
       \/ is_open /\ Fails(hCOM, 0) /\ ret' = [fn |-> "GetSpeed", val |-> speed]
       \/ /\ ~is_open /\ ret' = [fn |-> "GetSpeed", val |-> speed]
          /\ UNCHANGED <<owing, calm>>
    /\ UNCHANGED <<plugged, clockOf, handles, call, session, set,
                   alone, heard, round>>

\* TIF_Select, Reset, GetVRefMV, ... leave no state here but what they may owe, nor does
\* PICO_UART_SetBaud, whose command dispatch answers with RESP_ERROR.
CallFails ==
    /\ pc = "idle" /\ is_open
    /\ Fails(hCOM, 0)
    /\ ret' = Silent
    /\ UNCHANGED <<plugged, clockOf, handles, call, session, set,
                   alone, heard, round>>

\* The program ends, with DLL_PROCESS_DETACH or without it (Windows closes what it
\* held), and is started again: DLL_PROCESS_ATTACH, with the statics of a fresh image.
\* The command of a call it ends in may be on its way.
Restart == /\ \/ owing' = owing
              \/ \E e \in owned \ gone, khz \in Khz :
                    /\ e[2] = "com"
                    /\ \E cmd \in {0, HzOf(khz)} :
                          owing' = [owing EXCEPT ![e[1]] = Owes(e[1], cmd)]
           /\ hCOM' = none /\ hUART' = none /\ is_open' = FALSE
           /\ owned' = {} /\ gone' = {}
           /\ serial' = 0 /\ speed' = BootKhz
           /\ cache' = [found |-> -1, serial |-> 0] /\ age' = 0
           /\ Returns /\ ret' = Silent
           /\ calm' = FALSE /\ set' = FALSE /\ alone' = TRUE
           /\ heard' = Ttl /\ round' = FALSE
           /\ UNCHANGED <<plugged, clockOf>>

Next == \/ \E p \in Probe : Plug(p) \/ Unplug(p) \/ Settle(p)
        \/ Tick \/ Restart
        \/ OpenEx \/ Find \/ OpenCom \/ GetVersion \/ Diagnose \/ OpenUart \/ Close
        \/ \E array \in BOOLEAN : GetList(array)
        \/ Search \/ OpenForSerial \/ ReadSerial
        \/ \E p \in Probe : SelectByUSBSN(Version[p])
        \/ \E khz \in Khz : SetSpeed(khz)
        \/ GetSpeed \/ CallFails

Spec == Init /\ [][Next]_vars

-------------------------------------------------------------------------------
(* Properties.                                                             *)

Held == (IF hCOM = none THEN {} ELSE {<<hCOM, "com">>})
        \union (IF hUART = none THEN {} ELSE {<<hUART, "uart">>})
        \union (IF pc = "read" THEN {<<port, "com">>} ELSE {})

\* Whatever fails on the way and whenever a probe goes, the process holds the ports of
\* its handles and no others, none while it is closed and no call is under way, and an
\* open session has its command port.  Both handles are of one probe if there was no
\* other about from the call of OpenEx to its end.
HandlesInv ==
    /\ TypeOK
    /\ owned = Held
    /\ pc \in {"version", "pins", "uart"} \/ is_open <=> hCOM # none
    /\ ~is_open => hUART = none
    /\ is_open => pc = "idle"
    /\ alone /\ is_open /\ hUART # none => hUART = hCOM

\* A probe is listed from the cache only if one answered less than CACHE_TTL_MS ago, or if
\* GetTickCount has gone all the way round since the cache was filled.
ListFresh == [][/\ ret'.fn = "GetList" /\ ret'.val = 1
                /\ pc = "idle" /\ ~is_open
                => heard < Ttl \/ round]_vars

\* In a session opened on a quiet probe, in which no call failed, GetSpeed returns what
\* SetSpeed was last asked for, if it is a kilohertz or more and fits 32 bits in hertz.
ClockAsSet == [][/\ ret'.fn = "GetSpeed" /\ calm' /\ set
                 /\ speed > 0 /\ speed * Thousand < Wrap
                 => ret'.val = speed]_vars
===============================================================================
