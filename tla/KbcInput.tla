------------------------------ MODULE KbcInput ------------------------------
(***************************************************************************)
(* The input path of the game, from the i8042 keyboard controller (KBC) to *)
(* the state of the keyboard and mouse managers:                           *)
(*                                                                         *)
(*   the KBC and the two PS/2 devices    (hardware, external)              *)
(*   the kernel's notification bit mask  (external)                        *)
(*   driver_receive and the dispatch     proj.c, proj_main_loop            *)
(*   kbc_read_outbuff                    drivers/kbc.c                     *)
(*   mouse_read_packet, mouse_get_packet drivers/mouse.c                   *)
(*   keyboard_read_scancode              drivers/keyboard.c                *)
(*   Mouse_handle                        input/mouse_manager.c             *)
(*   Keyboard_handle, Keyboard_translate input/keyboard_manager.c          *)
(*                                                                         *)
(* The driver is single threaded; what runs concurrently with it are the   *)
(* devices, which may fill the one-byte output buffer between any two of   *)
(* its polls.  One attempt of the polling loop is one step: a full buffer  *)
(* is emptied by the driver only, so nothing can change between the read   *)
(* of its status and the read of its byte.                                 *)
(***************************************************************************)
EXTENDS Integers, FiniteSets

CONSTANTS
    ATTEMPTS,      \* attempts of kbc_read_outbuff (8 in the code)
    MaxFault,      \* bound: port reads that fail in a behaviour
    MaxErr,        \* bound: bytes with a parity or time-out error
    MaxCount,      \* the history counters saturate at this value
    Packets,       \* the mouse's packets are numbered modulo this
    PhysKeys,      \* the keys the user touches
    GarbageCodes,  \* values an uninitialised scancode may have
    DataSync,      \* values of bit 3 in the 2nd and 3rd byte of a packet
    StrayAck,      \* may an unread mouse ACK be left when the loop starts?
    SpuriousKbd    \* may a keyboard bit without a byte be pending then?

Sources == {"kbd", "aux"}
KB_KEY == {"KB_ESC", "KB_UP", "KB_DOWN", "KB_LEFT", "KB_RIGHT"}
KB_INVALID == "KB_INVALID"

\* What the keyboard sends for a key: an optional 0xE0 prefix, then a code
\* whose bit 7 tells a release (break) from a press (make).
Wire == [ESC    |-> [ext |-> FALSE, base |-> 1],
         UP     |-> [ext |-> TRUE,  base |-> 72],
         LEFT   |-> [ext |-> TRUE,  base |-> 75],
         DOWN   |-> [ext |-> TRUE,  base |-> 80],
         RIGHT  |-> [ext |-> TRUE,  base |-> 77],
         KP8    |-> [ext |-> FALSE, base |-> 72],
         LETTER |-> [ext |-> FALSE, base |-> 30],
         DEL    |-> [ext |-> TRUE,  base |-> 83]]

PREFIX == 224   \* 0xE0

ASSUME BoundsAssumption ==
    /\ ATTEMPTS \in Nat /\ MaxFault \in Nat /\ MaxErr \in Nat
    /\ MaxCount \in Nat \ {0}
    /\ MaxFault < ATTEMPTS
    /\ Packets \in Nat /\ Packets >= 3
ASSUME DomainsAssumption ==
    /\ PhysKeys \subseteq DOMAIN Wire
    /\ GarbageCodes \subseteq 0..255
    /\ DataSync \subseteq BOOLEAN /\ DataSync # {}
    /\ StrayAck \subseteq BOOLEAN /\ StrayAck # {}
    /\ SpuriousKbd \subseteq BOOLEAN /\ SpuriousKbd # {}

VARIABLES
    ob,            \* the output buffer of the KBC and its status bits
    pending,       \* interrupt bits the kernel holds for the driver
    msg,           \* interrupts field of the notification being handled
    pc,            \* where the driver is
    attempts,      \* attempts left in kbc_read_outbuff
    index,         \* current_byte_index
    bytes,         \* bytes[3]: which byte of which packet each one is
    ready,         \* packet_ready
    double_width,  \* an 0xE0 prefix has been seen
    keys,          \* the keys[] entries that are true
    mnext,         \* the byte the mouse sends next
    kevent,        \* the key event the keyboard is sending
    khalf,         \* its prefix is sent, its code is not
    held,          \* physical keys the user holds down
    faults, errs,  \* failed port reads and damaged bytes so far
    start,         \* what was left behind when the loop started
    applied,       \* history: the packet Mouse_handle applied last
    lost,          \* history: mouse bytes lost, plus the stray ACK
    giveups,       \* history: Mouse_handle calls that read no byte
    replays,       \* history: packets applied a second time
    mixed,         \* history: packets assembled from different packets
    garbled        \* history: Keyboard_handle used a value it never read

device == <<mnext, kevent, khalf, held>>
kbdvars == <<double_width, keys, garbled>>
mousevars == <<index, bytes, ready, applied, lost, giveups, replays, mixed>>
vars == <<ob, pending, msg, pc, attempts, device, kbdvars, mousevars,
          faults, errs, start>>

Empty == [src |-> "none", err |-> FALSE, code |-> 0,
          pkt |-> 0, idx |-> 3, sync |-> FALSE]

\* A mouse byte: byte idx (0..2) of packet pkt; idx 3 is
\* an acknowledgement, 0xFA, whose bit 3 is set as in the first byte.
AuxByte(p, i, s, e) ==
    [src |-> "aux", err |-> e, code |-> 0, pkt |-> p, idx |-> i, sync |-> s]
KbdByte(c, e) ==
    [src |-> "kbd", err |-> e, code |-> c, pkt |-> 0, idx |-> 3, sync |-> FALSE]

Numbers == 0..(Packets - 1)
Following(p) == IF p = Packets - 1 THEN 0 ELSE p + 1

Slot == [pkt : Numbers, idx : 0..3]
Bytes == [src : {"none", "kbd", "aux"}, err : BOOLEAN, code : 0..255,
          pkt : Numbers, idx : 0..3, sync : BOOLEAN]

\* The first packet is packet 0, so the one before it stands for "none yet".
Init ==
    /\ start \in [ack : StrayAck, kbd : SpuriousKbd]
    /\ ob = IF start.ack THEN AuxByte(0, 3, TRUE, FALSE) ELSE Empty
    /\ pending = IF start.kbd THEN {"aux", "kbd"} ELSE {"aux"}
    /\ msg = {} /\ pc = "receive" /\ attempts = 0
    /\ index = 0 /\ ready = FALSE
    /\ bytes = [i \in 0..2 |-> [pkt |-> Packets - 1, idx |-> 3]]
    /\ double_width = FALSE /\ keys = {}
    /\ mnext = [pkt |-> 0, idx |-> 0]
    /\ kevent = [key |-> "ESC", make |-> TRUE] /\ khalf = FALSE /\ held = {}
    /\ faults = 0 /\ errs = 0
    /\ applied = Packets - 1 /\ lost = IF start.ack THEN 1 ELSE 0
    /\ giveups = 0 /\ replays = 0 /\ mixed = 0 /\ garbled = FALSE

Bump(n) == IF n < MaxCount THEN n + 1 ELSE n

-----------------------------------------------------------------------------
(* The hardware. A device's byte enters the output buffer when it is empty *)
(* and raises the interrupt line of its source; the kernel turns that into *)
(* a pending bit of the driver's next notification, merging repetitions.   *)

Load(byte) ==
    /\ ob = Empty
    /\ ob' = byte
    /\ pending' = pending \cup {byte.src}
    /\ byte.err => errs < MaxErr
    /\ errs' = IF byte.err THEN errs + 1 ELSE errs
    /\ UNCHANGED <<msg, pc, attempts, kbdvars, mousevars, faults, start>>

\* The mouse sends the next byte of its stream of three-byte packets. Bit 3
\* is always set in the first byte, and is movement data in the others.
LoadMouse ==
    /\ \E e \in BOOLEAN, s \in (IF mnext.idx = 0 THEN {TRUE} ELSE DataSync) :
          Load(AuxByte(mnext.pkt, mnext.idx, s, e))
    /\ mnext' = IF mnext.idx < 2 THEN [mnext EXCEPT !.idx = @ + 1]
                                 ELSE [pkt |-> Following(mnext.pkt), idx |-> 0]
    /\ UNCHANGED <<kevent, khalf, held>>

Code(k, make) == IF make THEN Wire[k].base ELSE Wire[k].base + 128

\* The user presses a key (or holds it, and it repeats) or releases it.
KeyEvent(k, make) ==
    /\ ~khalf
    /\ make \/ k \in held
    /\ \E e \in BOOLEAN :
          Load(KbdByte(IF Wire[k].ext THEN PREFIX ELSE Code(k, make), e))
    /\ held' = IF make THEN held \cup {k} ELSE held \ {k}
    /\ kevent' = [key |-> k, make |-> make]
    /\ khalf' = Wire[k].ext
    /\ UNCHANGED mnext

\* The keyboard sends the code that follows the prefix.
KeyCode ==
    /\ khalf
    /\ \E e \in BOOLEAN : Load(KbdByte(Code(kevent.key, kevent.make), e))
    /\ khalf' = FALSE
    /\ UNCHANGED <<mnext, kevent, held>>

-----------------------------------------------------------------------------
(* The event loop and kbc_read_outbuff.                                    *)

FirstHandlerKbd(bits) == IF "kbd" \in bits THEN "kbdstat" ELSE "mouse"
FirstHandler(bits) == IF "aux" \in bits THEN "mouse" ELSE "kbdstat"

\* driver_receive takes every bit pending; the mouse is dispatched first.
Receive ==
    /\ pc = "receive"
    /\ pending # {}
    /\ msg' = pending
    /\ pending' = {}
    /\ pc' = FirstHandler(pending)
    /\ attempts' = ATTEMPTS
    /\ UNCHANGED <<ob, device, kbdvars, mousevars, faults, errs, start>>

\* One attempt that ends in tickdelay and continue: a port read failed, ...
ReadFails ==
    /\ attempts > 0 /\ faults < MaxFault
    /\ attempts' = attempts - 1
    /\ faults' = faults + 1

\* ... or the buffer is empty or holds the other device's byte.
Mismatch(src) ==
    /\ attempts > 0 /\ ob.src # src
    /\ attempts' = attempts - 1
    /\ UNCHANGED faults

PollAgain(src, at) ==
    /\ pc = at
    /\ ReadFails \/ Mismatch(src)
    /\ UNCHANGED <<ob, pending, msg, pc, device, kbdvars, mousevars, errs, start>>

MousePoll == PollAgain("aux", "mouse")
KbdPoll == PollAgain("kbd", "kbd")

TakeAny(src) ==
    /\ attempts > 0 /\ ob.src # "none"
    /\ ob' = Empty

\* The attempt that finds a byte of src and reads it.
Take(src) ==
    /\ attempts > 0 /\ ob.src = src
    /\ ob' = Empty

-----------------------------------------------------------------------------
(* The mouse: mouse_read_packet and Mouse_handle.                          *)

AfterMouseReturn == "receive"
AfterMouseAlways == "kbdstat"

\* The dispatch goes on to the keyboard if its bit is set too.
AfterMouse == IF "kbd" \in msg THEN "kbdstat" ELSE "receive"

\* The tail of Mouse_handle: a ready packet is applied, whether or not this
\* call completed it.
MouseApply(completed) ==
    /\ applied' = IF ready' THEN bytes'[0].pkt ELSE applied
    /\ replays' = IF ready' /\ ~completed THEN Bump(replays) ELSE replays
    /\ pc' = AfterMouse
    /\ UNCHANGED <<pending, msg, attempts, device, kbdvars, faults, errs, start>>

Whole(b) == \A i \in 0..2 : b[i] = [pkt |-> b[0].pkt, idx |-> i]

\* mouse_read_packet at index i: is a byte with bit 3 equal to sync stored,
\* which index is next, and is a packet ready then?
AcceptsAny(i, sync) == TRUE
AcceptsMarked(i, sync) == sync
Accepts(i, sync) == i # 0 \/ sync

NextIndexNoReset(i) == i + 1
NextIndex(i) == IF i = 2 THEN 0 ELSE i + 1

ReadyKept(i, sync) == i = 2 \/ ready
ReadyAfter(i, sync) == i = 2 \/ (ready /\ ~(i = 0 /\ sync))

\* mouse_read_packet with a good byte.
MouseStore ==
    /\ pc = "mouse" /\ Take("aux") /\ ~ob.err
    /\ IF Accepts(index, ob.sync)
       THEN /\ bytes' = [bytes EXCEPT ![index] = [pkt |-> ob.pkt, idx |-> ob.idx]]
            /\ index' = NextIndex(index)
       ELSE UNCHANGED <<bytes, index>>
    /\ ready' = ReadyAfter(index, ob.sync)
    /\ mixed' = IF index = 2 /\ ~Whole(bytes') THEN Bump(mixed) ELSE mixed
    /\ MouseApply(index = 2)
    /\ UNCHANGED <<lost, giveups>>

\* A byte with a parity or time-out error is read and thrown away.
MouseDiscard ==
    /\ pc = "mouse" /\ Take("aux") /\ ob.err
    /\ lost' = Bump(lost)
    /\ UNCHANGED <<bytes, index, ready, mixed, giveups>>
    /\ MouseApply(FALSE)

\* kbc_read_outbuff has run out of attempts; Mouse_handle ignores that.
MouseGiveUp ==
    /\ pc = "mouse" /\ attempts = 0
    /\ giveups' = Bump(giveups)
    /\ UNCHANGED <<ob, bytes, index, ready, mixed, lost>>
    /\ MouseApply(FALSE)

-----------------------------------------------------------------------------
(* The keyboard: keyboard_read_scancode and Keyboard_handle.               *)

Keyboard_translate(scancode, wide) ==
    LET base == scancode % 128
    IN CASE wide /\ base = 72 -> "KB_UP"
         [] wide /\ base = 75 -> "KB_LEFT"
         [] wide /\ base = 80 -> "KB_DOWN"
         [] wide /\ base = 77 -> "KB_RIGHT"
         [] ~wide /\ base = 1 -> "KB_ESC"
         [] OTHER -> KB_INVALID

WidthSticky(scancode) == double_width \/ scancode = PREFIX

\* The scancode is a prefix, and the next one is the second half of a key.
WidthAfter(scancode) == scancode = PREFIX /\ ~double_width

\* Keyboard_handle after its read, and the quit test that follows the call.
Keyboard_handle(scancode) ==
    LET key == Keyboard_translate(scancode, double_width)
    IN /\ double_width' = WidthAfter(scancode)
       /\ keys' = IF WidthAfter(scancode) \/ key = KB_INVALID THEN keys
                  ELSE IF scancode < 128 THEN keys \cup {key} ELSE keys \ {key}
       /\ pc' = IF "KB_ESC" \in keys' THEN "done" ELSE "receive"
       /\ UNCHANGED <<pending, msg, attempts, device, mousevars, errs, start>>

\* The status check of keyboard_read_scancode lets the read go ahead.
KbdCheck ==
    /\ pc = "kbdstat" /\ ob.src # "none" /\ ~ob.err
    /\ pc' = "kbd" /\ attempts' = ATTEMPTS
    /\ UNCHANGED <<ob, pending, msg, device, kbdvars, mousevars, faults, errs, start>>

KbdTake ==
    /\ pc = "kbd" /\ Take("kbd")
    /\ Keyboard_handle(ob.code)
    /\ UNCHANGED <<garbled, faults>>

\* Keyboard_handle ignores a failed read: its scancode is uninitialised.
Garbage ==
    /\ garbled' = TRUE
    /\ UNCHANGED ob
    /\ \E c \in GarbageCodes : Keyboard_handle(c)

\* The status check fails: a failed port read, nothing there, or an error.
KbdCheckFails ==
    /\ pc = "kbdstat"
    /\ \/ faults < MaxFault /\ faults' = faults + 1
       \/ (ob.src = "none" \/ ob.err) /\ UNCHANGED faults
    /\ Garbage

KbdGiveUp ==
    /\ pc = "kbd" /\ attempts = 0
    /\ Garbage
    /\ UNCHANGED faults

-----------------------------------------------------------------------------
Hardware ==
    \/ LoadMouse
    \/ KeyCode
    \/ \E k \in PhysKeys, make \in BOOLEAN : KeyEvent(k, make)

Driver ==
    \/ Receive
    \/ MousePoll \/ MouseStore \/ MouseDiscard \/ MouseGiveUp
    \/ KbdCheck \/ KbdCheckFails \/ KbdPoll \/ KbdTake \/ KbdGiveUp

Next == Hardware \/ Driver

\* The scheduler runs the driver whenever it has something to do; the user
\* and the devices owe nothing.
Spec == Init /\ [][Next]_vars /\ WF_vars(Driver)

-----------------------------------------------------------------------------
(* Properties.                                                             *)

\* Every variable stays within the range its C type and its use allow.
TypeOK ==
    /\ ob \in Bytes
    /\ pending \subseteq Sources /\ msg \subseteq Sources
    /\ pc \in {"receive", "mouse", "kbdstat", "kbd", "done"}
    /\ attempts \in 0..ATTEMPTS
    /\ index \in 0..2 /\ bytes \in [0..2 -> Slot] /\ ready \in BOOLEAN
    /\ double_width \in BOOLEAN /\ keys \subseteq KB_KEY
    /\ mnext \in [pkt : Numbers, idx : 0..2]
    /\ kevent \in [key : DOMAIN Wire, make : BOOLEAN] /\ khalf \in BOOLEAN
    /\ held \subseteq PhysKeys
    /\ faults \in 0..MaxFault /\ errs \in 0..MaxErr
    /\ start \in [ack : BOOLEAN, kbd : BOOLEAN]
    /\ applied \in Numbers /\ garbled \in BOOLEAN
    /\ lost \in Nat /\ giveups \in Nat /\ replays \in Nat /\ mixed \in Nat

\* The driver will still get to the mouse byte in the buffer: it is polling
\* for it with more attempts left than port reads can still fail.
ServesMouse == pc = "mouse" /\ attempts > MaxFault - faults

\* The driver will still get to the keyboard byte in the buffer.
ServesKbd ==
    \/ "kbd" \in msg /\ pc \in {"mouse", "kbdstat"}
    \/ pc = "kbd" /\ attempts > MaxFault - faults

\* No lost wake-up. The KBC raises no interrupt for a byte that stays in the
\* buffer, so such a byte must be covered by a pending bit or by the handler
\* that is running, or neither device is ever heard again. Mouse bytes always
\* are; a keyboard byte may be abandoned only if it is damaged or a port read
\* has failed (keyboard_read_scancode then returns without reading it).
Attended ==
    /\ ob.src = "aux" => "aux" \in pending \/ ServesMouse \/ pc = "done"
    /\ ob.src = "kbd" => \/ "kbd" \in pending \/ ServesKbd \/ pc = "done"
                         \/ ob.err \/ faults > 0

\* mouse_read_packet never mixes the bytes of two packets unless a byte was
\* lost to a transmission error or an acknowledgement was left unread, in
\* spite of keyboard bytes, merged interrupts and calls that read nothing.
WholePackets == lost = 0 => mixed = 0

\* The one wake-up without a byte (the initialisation polls for the mouse's
\* acknowledgements after subscribing) is passed on from byte to byte but
\* never multiplies: at most one call of Mouse_handle reads nothing, and
\* without losses at most one packet is applied twice.
ReplayBound == giveups <= 1 /\ (lost = 0 => replays <= 1)

\* When movement bytes have bit 3 clear, testing that bit at index 0 realigns
\* the stream after a loss: each loss spoils one packet and replays three.
ResyncBound == mixed <= lost /\ replays <= 1 + 3 * lost

KeyOf(k) == Keyboard_translate(Wire[k].base, Wire[k].ext)

\* keys[] is what the user holds down whenever no keyboard byte is on its
\* way, as long as Keyboard_handle never worked on an unread scancode.
KeysTrackHeld ==
    (~garbled /\ ~khalf /\ ob.src # "kbd")
        => keys = {KeyOf(k) : k \in held} \ {KB_INVALID}

\* Keyboard_handle works on an uninitialised scancode only if a keyboard bit
\* was pending without its byte at the start, a port read failed, or a byte
\* was damaged: mouse traffic and merged bits never cause it.
GuessOnlyAfterDamage == garbled => start.kbd \/ faults > 0 \/ errs > 0

\* A mouse byte in the buffer is eventually read, whatever the keyboard does.
MouseServed == ob.src = "aux" ~> (ob.src # "aux" \/ pc = "done")

\* An intact Escape make code in the buffer ends the event loop, unless
\* Keyboard_handle had to work on an unread scancode or a half-read prefix.
EscQuits == (ob = KbdByte(1, FALSE) /\ ~double_width /\ ~garbled)
                ~> (pc = "done" \/ garbled)

\* What the mouse path promises to the rest of the game. A packet is sent when
\* its last byte enters the output buffer: the mouse is then at the next one.
Feed == INSTANCE PacketFeed WITH
            next <- mnext.pkt, last <- applied, repeats <- replays

\* Without losses Mouse_handle applies every packet, in the order the mouse
\* sent them: each once it has been sent and before the next one is complete,
\* and at most one of them a second time.
FeedSpec == Feed!Spec
=============================================================================
