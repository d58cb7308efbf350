--------------------------- MODULE KbcInputProofs ---------------------------
(***************************************************************************)
(* Proofs about KbcInput for every number of attempts, every bound on the  *)
(* faults and every set of keys.                                           *)
(***************************************************************************)
EXTENDS KbcInput, TLAPS

\* The one-line tests of the handlers are expanded everywhere.
USE DEF FirstHandler, AfterMouse, Accepts, NextIndex, ReadyAfter, WidthAfter

LEMMA WireType ==
    ASSUME NEW k \in DOMAIN Wire
    PROVE  Wire[k].ext \in BOOLEAN /\ Wire[k].base \in 0..127
  <1>1. DOMAIN Wire = {"ESC", "UP", "LEFT", "DOWN", "RIGHT", "KP8", "LETTER", "DEL"}
    BY DEF Wire
  <1>2. Wire[k].base \in 0..127
    BY <1>1 DEF Wire
  <1>3. Wire[k].ext = TRUE \/ Wire[k].ext = FALSE
    BY <1>1 DEF Wire
  <1> QED
    BY <1>2, <1>3

\* The scancodes the keyboard sends are bytes.
LEMMA CodeIsByte ==
    ASSUME NEW k \in DOMAIN Wire, NEW make \in BOOLEAN
    PROVE  Code(k, make) \in 0..255
  BY DEF Code, Wire

\* Keyboard_translate yields a key or KB_INVALID.
LEMMA TranslateType ==
    ASSUME NEW c \in 0..255, NEW wide \in BOOLEAN
    PROVE  Keyboard_translate(c, wide) \in KB_KEY \cup {KB_INVALID}
  BY DEF Keyboard_translate, KB_KEY, KB_INVALID

\* The saturating history counters stay natural numbers.
LEMMA BumpType ==
    ASSUME NEW n \in Nat
    PROVE  Bump(n) \in Nat
  BY BoundsAssumption DEF Bump

LEMMA KeyboardHandleType ==
    ASSUME TypeOK, NEW c \in 0..255, Keyboard_handle(c),
           ob' \in Bytes,
           garbled' \in BOOLEAN, faults' \in 0..MaxFault
    PROVE  TypeOK'
  <1>1. keys' \subseteq KB_KEY
    BY TranslateType DEF TypeOK, Keyboard_handle, KB_INVALID
  <1>2. double_width' \in BOOLEAN
    BY DEF Keyboard_handle
  <1>3. pc' \in {"receive", "done"}
    BY DEF Keyboard_handle
  <1> QED
    BY <1>1, <1>2, <1>3 DEF TypeOK, Keyboard_handle, device, mousevars

\* The numbers of the packets; the one that follows another differs from it.
LEMMA FollowingType ==
    /\ 0 \in Numbers /\ Packets - 1 \in Numbers
    /\ Following(Packets - 1) = 0
    /\ \A p \in Numbers : Following(p) \in Numbers /\ Following(p) # p
  BY BoundsAssumption DEF Following, Numbers

LEMMA EmptyType ==
    Empty \in Bytes
  BY FollowingType DEF Empty, Bytes

\* A byte of the keyboard is one the output buffer can hold.
LEMMA KbdByteType ==
    ASSUME NEW c \in 0..255, NEW e \in BOOLEAN
    PROVE  KbdByte(c, e) \in Bytes /\ KbdByte(c, e).src \in Sources
  BY FollowingType DEF KbdByte, Bytes, Sources

LEMMA TypeInit == Init => TypeOK
  <1> SUFFICES ASSUME Init PROVE TypeOK
    OBVIOUS
  <1> USE BoundsAssumption, DomainsAssumption
  <1>1. start \in [ack : BOOLEAN, kbd : BOOLEAN]
    BY DEF Init
  <1>2. ob \in Bytes
    BY <1>1, FollowingType DEF Init, Empty, AuxByte, Bytes
  <1>3. bytes \in [0..2 -> Slot]
    BY FollowingType DEF Init, Slot
  <1>4. pending \subseteq Sources /\ msg \subseteq Sources
    BY DEF Init, Sources
  <1>5. kevent \in [key : DOMAIN Wire, make : BOOLEAN]
    BY DEF Init, Wire
  <1>6. mnext \in [pkt : Numbers, idx : 0..2] /\ applied \in Numbers
    BY FollowingType DEF Init
  <1>7. lost \in Nat
    BY <1>1 DEF Init
  <1>8. attempts \in 0..ATTEMPTS /\ faults \in 0..MaxFault /\ errs \in 0..MaxErr
    BY DEF Init
  <1>9. keys \subseteq KB_KEY /\ held \subseteq PhysKeys
    BY DEF Init
  <1> QED
    BY <1>1, <1>2, <1>3, <1>4, <1>5, <1>6, <1>7, <1>8, <1>9 DEF Init, TypeOK

LEMMA LoadType ==
    ASSUME TypeOK, NEW b, Load(b),
           b \in Bytes, b.src \in Sources,
           mnext' \in [pkt : Numbers, idx : 0..2],
           kevent' \in [key : DOMAIN Wire, make : BOOLEAN],
           khalf' \in BOOLEAN, held' \subseteq PhysKeys
    PROVE  TypeOK'
  <1>1. errs' \in 0..MaxErr
    BY BoundsAssumption DEF Load, TypeOK
  <1>2. pending' \subseteq Sources
    BY DEF Load, TypeOK
  <1> QED
    BY <1>1, <1>2 DEF TypeOK, Load, kbdvars, mousevars

LEMMA TypeStep == TypeOK /\ [Next]_vars => TypeOK'
  <1> SUFFICES ASSUME TypeOK, [Next]_vars PROVE TypeOK'
    OBVIOUS
  <1> USE BoundsAssumption, DomainsAssumption
  <1>1. CASE LoadMouse
    <2>1. PICK e \in BOOLEAN, s \in BOOLEAN : Load(AuxByte(mnext.pkt, mnext.idx, s, e))
      BY <1>1 DEF LoadMouse
    <2>2. mnext' \in [pkt : Numbers, idx : 0..2]
      BY <1>1, FollowingType DEF LoadMouse, TypeOK
    <2>3. /\ AuxByte(mnext.pkt, mnext.idx, s, e) \in Bytes
          /\ AuxByte(mnext.pkt, mnext.idx, s, e).src \in Sources
      BY DEF TypeOK, AuxByte, Bytes, Sources
    <2>4. /\ kevent' \in [key : DOMAIN Wire, make : BOOLEAN]
          /\ khalf' \in BOOLEAN /\ held' \subseteq PhysKeys
      BY <1>1 DEF LoadMouse, TypeOK
    <2> QED
      BY <2>1, <2>2, <2>3, <2>4, LoadType
  <1>2. CASE KeyCode
    <2>1. PICK e \in BOOLEAN : Load(KbdByte(Code(kevent.key, kevent.make), e))
      BY <1>2 DEF KeyCode
    <2>2. Code(kevent.key, kevent.make) \in 0..255
      BY CodeIsByte DEF TypeOK
    <2>3. /\ mnext' \in [pkt : Numbers, idx : 0..2]
          /\ kevent' \in [key : DOMAIN Wire, make : BOOLEAN]
          /\ khalf' \in BOOLEAN /\ held' \subseteq PhysKeys
      BY <1>2 DEF KeyCode, TypeOK
    <2> QED
      BY <2>1, <2>2, <2>3, KbdByteType, LoadType
  <1>3. CASE \E k \in PhysKeys, make \in BOOLEAN : KeyEvent(k, make)
    <2>1. PICK k \in PhysKeys, make \in BOOLEAN : KeyEvent(k, make)
      BY <1>3
    <2> DEFINE c == IF Wire[k].ext THEN PREFIX ELSE Code(k, make)
    <2>2. PICK e \in BOOLEAN : Load(KbdByte(c, e))
      BY <2>1 DEF KeyEvent
    <2>3. c \in 0..255
      BY CodeIsByte, k \in DOMAIN Wire DEF PREFIX
    <2>4. Wire[k].ext \in BOOLEAN
      BY WireType
    <2>5. /\ mnext' \in [pkt : Numbers, idx : 0..2]
          /\ khalf' \in BOOLEAN
      BY <2>1, <2>4 DEF KeyEvent, TypeOK
    <2>6. kevent' \in [key : DOMAIN Wire, make : BOOLEAN]
      BY <2>1 DEF KeyEvent
    <2>7. held' \subseteq PhysKeys
      BY <2>1 DEF KeyEvent, TypeOK
    <2> HIDE DEF c
    <2> QED
      BY <2>2, <2>3, <2>5, <2>6, <2>7, KbdByteType, LoadType
  <1>4. CASE Receive
    BY <1>4 DEF Receive, TypeOK, device, kbdvars, mousevars
  <1>5. CASE MousePoll \/ KbdPoll
    BY <1>5 DEF MousePoll, KbdPoll, PollAgain, ReadFails, Mismatch, TypeOK,
                device, kbdvars, mousevars
  <1>6. CASE MouseStore
    <2>1. /\ index' \in 0..2
          /\ bytes' \in [0..2 -> Slot]
      <3>1. [pkt |-> ob.pkt, idx |-> ob.idx] \in Slot
        BY DEF TypeOK, Bytes, Slot
      <3>2. bytes' = bytes \/ bytes' = [bytes EXCEPT ![index] = [pkt |-> ob.pkt, idx |-> ob.idx]]
        BY <1>6 DEF MouseStore
      <3>3. index' \in 0..2
        BY <1>6 DEF MouseStore, TypeOK
      <3> QED
        BY <3>1, <3>2, <3>3 DEF TypeOK
    <2>2. ready' \in BOOLEAN
      BY <1>6 DEF MouseStore, TypeOK
    <2>3. mixed' \in Nat /\ replays' \in Nat
      BY <1>6, BumpType DEF MouseStore, MouseApply, TypeOK
    <2>4. applied' \in Numbers
      BY <1>6, <2>1 DEF MouseStore, MouseApply, TypeOK, Slot
    <2> QED
      BY <1>6, <2>1, <2>2, <2>3, <2>4, EmptyType
         DEF MouseStore, MouseApply, Take, TypeOK, device, kbdvars
  <1>7. CASE MouseDiscard
    <2>1. lost' \in Nat /\ replays' \in Nat
      BY <1>7, BumpType DEF MouseDiscard, MouseApply, TypeOK
    <2>2. applied' \in Numbers
      BY <1>7 DEF MouseDiscard, MouseApply, TypeOK, Slot
    <2> QED
      BY <1>7, <2>1, <2>2, EmptyType
         DEF MouseDiscard, MouseApply, Take, TypeOK, device, kbdvars
  <1>8. CASE MouseGiveUp
    <2>1. giveups' \in Nat /\ replays' \in Nat
      BY <1>8, BumpType DEF MouseGiveUp, MouseApply, TypeOK
    <2>2. applied' \in Numbers
      BY <1>8 DEF MouseGiveUp, MouseApply, TypeOK, Slot
    <2> QED
      BY <1>8, <2>1, <2>2 DEF MouseGiveUp, MouseApply, TypeOK, device, kbdvars
  <1>9. CASE KbdCheck
    BY <1>9 DEF KbdCheck, TypeOK, device, kbdvars, mousevars
  <1>10. CASE KbdTake
    <2>1. ob.code \in 0..255 /\ Keyboard_handle(ob.code)
      BY <1>10 DEF KbdTake, TypeOK, Bytes
    <2>2. ob' \in Bytes
      BY <1>10, EmptyType DEF KbdTake, Take
    <2>3. garbled' \in BOOLEAN /\ faults' \in 0..MaxFault
      BY <1>10 DEF KbdTake, TypeOK
    <2> QED
      BY <2>1, <2>2, <2>3, KeyboardHandleType
  <1>11. CASE KbdCheckFails
    <2>1. PICK c \in GarbageCodes : Keyboard_handle(c)
      BY <1>11 DEF KbdCheckFails, Garbage
    <2>2. faults' \in 0..MaxFault /\ garbled' \in BOOLEAN /\ ob' \in Bytes
      BY <1>11 DEF KbdCheckFails, Garbage, TypeOK
    <2>3. c \in 0..255
      OBVIOUS
    <2> QED
      BY <2>1, <2>2, <2>3, KeyboardHandleType
  <1>12. CASE KbdGiveUp
    <2>1. PICK c \in GarbageCodes : Keyboard_handle(c)
      BY <1>12 DEF KbdGiveUp, Garbage
    <2>2. faults' \in 0..MaxFault /\ garbled' \in BOOLEAN /\ ob' \in Bytes
      BY <1>12 DEF KbdGiveUp, Garbage, TypeOK
    <2>3. c \in 0..255
      OBVIOUS
    <2> QED
      BY <2>1, <2>2, <2>3, KeyboardHandleType
  <1>13. CASE UNCHANGED vars
    BY <1>13 DEF vars, TypeOK, device, kbdvars, mousevars
  <1> QED
    BY <1>1, <1>2, <1>3, <1>4, <1>5, <1>6, <1>7, <1>8, <1>9, <1>10, <1>11,
       <1>12, <1>13 DEF Next, Hardware, Driver

\* Every reachable state of the input path has the declared types.
THEOREM TypeCorrect == Spec => []TypeOK
  BY TypeInit, TypeStep, PTL DEF Spec
-----------------------------------------------------------------------------
(* Wake-ups of the mouse.                                                  *)

B(p) == IF p THEN 1 ELSE 0

\* Wake-ups are tokens: one was left over at the start, each mouse byte that
\* enters the buffer adds at most one, and each call of Mouse_handle spends
\* one, on the byte it takes or on giving up.
Tokens == B("aux" \in pending) + B(pc = "mouse") + giveups <= 1 + B(ob.src = "aux")

WakeInv == TypeOK /\ Attended /\ Tokens /\ giveups <= 1

LEMMA WakeInit == Init => WakeInv
  <1> SUFFICES ASSUME Init PROVE WakeInv
    OBVIOUS
  <1>1. TypeOK
    BY TypeInit
  <1>2. "aux" \in pending /\ ob.src # "kbd"
    BY DEF Init, Empty, AuxByte
  <1>3. B("aux" \in pending) <= 1 /\ B(pc = "mouse") = 0 /\ B(ob.src = "aux") >= 0
    BY DEF Init, B
  <1>4. Tokens /\ giveups <= 1
    BY DEF Init, Tokens, B
  <1> QED
    BY <1>1, <1>2, <1>4 DEF WakeInv, Attended

LEMMA AttendedStep == TypeOK /\ Attended /\ [Next]_vars => Attended'
  <1> SUFFICES ASSUME TypeOK, Attended, [Next]_vars PROVE Attended'
    OBVIOUS
  <1> USE BoundsAssumption, DomainsAssumption DEF Attended, ServesMouse, ServesKbd
  <1>1. CASE LoadMouse
    BY <1>1 DEF LoadMouse, Load, AuxByte
  <1>2. CASE KeyCode
    BY <1>2 DEF KeyCode, Load, KbdByte
  <1>3. CASE \E k \in PhysKeys, make \in BOOLEAN : KeyEvent(k, make)
    BY <1>3 DEF KeyEvent, Load, KbdByte
  <1>4. CASE Receive
    BY <1>4 DEF Receive, TypeOK
  <1>5. CASE MousePoll
    BY <1>5 DEF MousePoll, PollAgain, ReadFails, Mismatch, TypeOK
  <1>6. CASE KbdPoll
    BY <1>6 DEF KbdPoll, PollAgain, ReadFails, Mismatch, TypeOK
  <1>7. CASE MouseStore
    BY <1>7 DEF MouseStore, Take, Empty
  <1>8. CASE MouseDiscard
    BY <1>8 DEF MouseDiscard, Take, Empty
  <1>9. CASE MouseGiveUp
    BY <1>9 DEF MouseGiveUp, MouseApply, TypeOK
  <1>10. CASE KbdCheck
    BY <1>10 DEF KbdCheck, TypeOK
  <1>11. CASE KbdTake
    BY <1>11 DEF KbdTake, Take, Empty
  <1>12. CASE KbdCheckFails
    BY <1>12 DEF KbdCheckFails, Garbage, Keyboard_handle, TypeOK, Bytes
  <1>13. CASE KbdGiveUp
    BY <1>13 DEF KbdGiveUp, Garbage, Keyboard_handle, TypeOK, Bytes
  <1>14. CASE UNCHANGED vars
    BY <1>14 DEF vars
  <1> QED
    BY <1>1, <1>2, <1>3, <1>4, <1>5, <1>6, <1>7, <1>8, <1>9, <1>10, <1>11,
       <1>12, <1>13, <1>14 DEF Next, Hardware, Driver

\* Steps outside Mouse_handle keep the number of tokens within the bound.
LEMMA TokensStep ==
    WakeInv /\ [Next]_vars => Tokens' /\ giveups' <= 1
  <1> SUFFICES ASSUME WakeInv, [Next]_vars PROVE Tokens' /\ giveups' <= 1
    OBVIOUS
  <1> USE BoundsAssumption, DomainsAssumption DEF WakeInv, Tokens, B
  <1>1. CASE LoadMouse
    BY <1>1 DEF LoadMouse, Load, AuxByte, Empty, mousevars, TypeOK
  <1>2. CASE KeyCode
    BY <1>2 DEF KeyCode, Load, KbdByte, Empty, mousevars, TypeOK
  <1>3. CASE \E k \in PhysKeys, make \in BOOLEAN : KeyEvent(k, make)
    BY <1>3 DEF KeyEvent, Load, KbdByte, Empty, mousevars, TypeOK
  <1>4. CASE Receive
    BY <1>4 DEF Receive, mousevars, TypeOK
  <1>5. CASE MousePoll \/ KbdPoll
    BY <1>5 DEF MousePoll, KbdPoll, PollAgain, mousevars, TypeOK
  <1>7. CASE MouseStore
    BY <1>7 DEF MouseStore, MouseApply, Take, Empty, TypeOK
  <1>8. CASE MouseDiscard
    BY <1>8 DEF MouseDiscard, MouseApply, Take, Empty, TypeOK
  <1>9. CASE MouseGiveUp
    <2>1. ~ServesMouse
      BY <1>9 DEF MouseGiveUp, ServesMouse, TypeOK
    <2>2. ob.src = "aux" => "aux" \in pending
      BY <1>9, <2>1 DEF MouseGiveUp, Attended
    <2>3. giveups = 0
      BY <1>9, <2>2 DEF MouseGiveUp, TypeOK
    <2>4. giveups' <= 1 /\ giveups' \in Nat
      BY <1>9, <2>3 DEF MouseGiveUp, Bump
    <2> QED
      BY <1>9, <2>3, <2>4 DEF MouseGiveUp, MouseApply, TypeOK
  <1>10. CASE KbdCheck
    BY <1>10 DEF KbdCheck, mousevars, TypeOK
  <1>11. CASE KbdTake
    BY <1>11 DEF KbdTake, Take, Empty, Keyboard_handle, mousevars, TypeOK
  <1>12. CASE KbdCheckFails
    BY <1>12 DEF KbdCheckFails, Garbage, Keyboard_handle, mousevars, TypeOK
  <1>13. CASE KbdGiveUp
    BY <1>13 DEF KbdGiveUp, Garbage, Keyboard_handle, mousevars, TypeOK
  <1>14. CASE UNCHANGED vars
    BY <1>14 DEF vars, mousevars
  <1> QED
    BY <1>1, <1>2, <1>3, <1>4, <1>5, <1>7, <1>8, <1>9, <1>10, <1>11,
       <1>12, <1>13, <1>14 DEF Next, Hardware, Driver

LEMMA WakeStep == WakeInv /\ [Next]_vars => WakeInv'
  BY TypeStep, AttendedStep, TokensStep DEF WakeInv

LEMMA WakeInvariant == Spec => []WakeInv
  BY WakeInit, WakeStep, PTL DEF Spec

\* No byte of the mouse is ever left in the output buffer without a wake-up
\* on its way to the driver, and a byte of the keyboard only if it is damaged
\* or a port read failed, for every number of attempts above the number of
\* failing port reads.
THEOREM NoLostWakeUp == Spec => []Attended
  BY WakeInvariant, PTL DEF WakeInv
-----------------------------------------------------------------------------
(* The packet stream.                                                      *)

\* The packet whose byte Mouse_handle is to read next: the one in the buffer
\* or, if there is none, the one the mouse sends from.
Current == IF ob.src = "aux" THEN ob.pkt ELSE mnext.pkt

\* The driver's index and buffer agree with the position of the mouse in its
\* stream, and the last packet applied is the one before the current one.
Aligned ==
    /\ ob.src # "aux" => index = mnext.idx
    /\ ob.src = "aux" => /\ index = ob.idx
                         /\ ob.idx = 0 => ob.sync
                         /\ ob.idx < 2 => mnext.idx = ob.idx + 1 /\ mnext.pkt = ob.pkt
                         /\ ob.idx = 2 => mnext.idx = 0 /\ mnext.pkt = Following(ob.pkt)
    /\ \A i \in 0..2 : i < index => bytes[i] = [pkt |-> Current, idx |-> i]
    /\ Current = Following(applied)
    /\ ready => bytes[0].pkt = applied

\* packet_ready is cleared by the first byte of a packet and set by the last;
\* as long as no byte is lost, the stream is aligned and every packet whole.
StreamInv ==
    /\ index # 0 => ~ready
    /\ lost = 0 => Aligned /\ mixed = 0 /\ replays <= giveups

LEMMA StreamInit == Init => StreamInv
  <1> SUFFICES ASSUME Init PROVE StreamInv
    OBVIOUS
  <1>1. CASE start.ack
    BY <1>1 DEF Init, StreamInv
  <1>2. CASE ~start.ack
    <2>1. ob = Empty
      BY <1>2 DEF Init
    <2> QED
      BY <2>1, FollowingType DEF Init, StreamInv, Aligned, Current, Empty
  <1> QED
    BY <1>1, <1>2

\* A step that touches neither the mouse's stream nor the driver's view of it
\* preserves the invariant.
LEMMA StreamFrame ==
    ASSUME StreamInv, UNCHANGED <<mnext, mousevars>>,
           ob' = ob \/ (ob.src # "aux" /\ ob'.src # "aux")
    PROVE  StreamInv'
  BY DEF StreamInv, Aligned, Current, mousevars

LEMMA StreamStep == TypeOK /\ StreamInv /\ [Next]_vars => StreamInv'
  <1> SUFFICES ASSUME TypeOK, StreamInv, [Next]_vars PROVE StreamInv'
    OBVIOUS
  <1> USE BoundsAssumption, DomainsAssumption
  <1>1. CASE LoadMouse
    <2>1. PICK e \in BOOLEAN, s \in BOOLEAN :
             /\ Load(AuxByte(mnext.pkt, mnext.idx, s, e))
             /\ mnext.idx = 0 => s
      BY <1>1 DEF LoadMouse
    <2>2. /\ ob.src = "none" /\ ob'.src = "aux" /\ ob'.pkt = mnext.pkt
          /\ ob'.idx = mnext.idx /\ (mnext.idx = 0 => ob'.sync)
          /\ UNCHANGED mousevars
      BY <2>1 DEF Load, AuxByte, Empty
    <2>3. /\ mnext.idx \in 0..2 /\ mnext.pkt \in Numbers
          /\ mnext.idx < 2 => mnext'.idx = mnext.idx + 1 /\ mnext'.pkt = mnext.pkt
          /\ mnext.idx = 2 => mnext'.idx = 0 /\ mnext'.pkt = Following(mnext.pkt)
      BY <1>1 DEF LoadMouse, TypeOK
    <2> QED
      BY <2>2, <2>3 DEF StreamInv, Aligned, Current, mousevars
  <1>2. CASE KeyCode
    <2>1. ob.src # "aux" /\ ob'.src # "aux" /\ UNCHANGED <<mnext, mousevars>>
      BY <1>2 DEF KeyCode, Load, KbdByte, Empty
    <2> QED
      BY <2>1, StreamFrame
  <1>3. CASE \E k \in PhysKeys, make \in BOOLEAN : KeyEvent(k, make)
    <2>1. ob.src # "aux" /\ ob'.src # "aux" /\ UNCHANGED <<mnext, mousevars>>
      BY <1>3 DEF KeyEvent, Load, KbdByte, Empty
    <2> QED
      BY <2>1, StreamFrame
  <1>4. CASE Receive
    BY <1>4, StreamFrame DEF Receive, device
  <1>5. CASE MousePoll \/ KbdPoll
    BY <1>5, StreamFrame DEF MousePoll, KbdPoll, PollAgain, device
  <1>6. CASE MouseStore
    <2>1. /\ ob.src = "aux" /\ ob'.src = "none" /\ UNCHANGED <<mnext, lost, giveups>>
      BY <1>6 DEF MouseStore, Take, Empty, MouseApply, device
    <2>2. index' # 0 => ~ready'
      BY <1>6 DEF MouseStore, StreamInv, TypeOK
    <2>3. ASSUME lost = 0
          PROVE  Aligned' /\ mixed' = 0 /\ replays' <= giveups'
      <3>1. Aligned /\ mixed = 0 /\ replays <= giveups
        BY <2>3 DEF StreamInv
      <3>2. /\ index = ob.idx
            /\ ob.idx = 0 => ob.sync
            /\ ob.idx < 2 => mnext.idx = ob.idx + 1 /\ mnext.pkt = ob.pkt
            /\ ob.idx = 2 => mnext.idx = 0 /\ mnext.pkt = Following(ob.pkt)
        BY <2>1, <3>1 DEF Aligned
      <3>2a. index \in 0..2 /\ ob.pkt \in Numbers /\ bytes \in [0..2 -> Slot]
        BY DEF TypeOK, Bytes
      <3>2b. Current = ob.pkt
        BY <2>1 DEF Current
      <3>3. bytes' = [bytes EXCEPT ![index] = [pkt |-> ob.pkt, idx |-> ob.idx]]
        BY <1>6, <3>2 DEF MouseStore
      <3>4. \A i \in 0..2 : i <= index => bytes'[i] = [pkt |-> ob.pkt, idx |-> i]
        BY <3>1, <3>2, <3>2a, <3>2b, <3>3 DEF Aligned
      <3>5. CASE index = 2
        <4>1. index' = 0 /\ ready' = TRUE /\ applied' = bytes'[0].pkt /\ replays' = replays
          BY <1>6, <3>5 DEF MouseStore, MouseApply
        <4>2. Whole(bytes')
          BY <3>4, <3>5 DEF Whole
        <4>3. mixed' = 0
          BY <1>6, <4>2, <3>1 DEF MouseStore
        <4>4. mnext'.idx = 0 /\ mnext'.pkt = Following(ob.pkt)
          BY <2>1, <3>1, <3>2, <3>5 DEF Aligned
        <4>5. applied' = ob.pkt
          BY <3>4, <4>1, <3>5
        <4>6. Aligned'
          BY <2>1, <3>2a, <4>1, <4>4, <4>5 DEF Aligned, Current
        <4> QED
          BY <2>1, <3>1, <4>1, <4>3, <4>6
      <3>6. CASE index < 2
        <4>1. index' = index + 1
          BY <1>6, <2>1, <3>1, <3>2, <3>6 DEF MouseStore, Aligned
        <4>2. ready' = FALSE
          <5>1. ready' = (index = 2 \/ (ready /\ ~(index = 0 /\ ob.sync)))
            BY <1>6 DEF MouseStore
          <5>2. index # 0 => ~ready
            BY DEF StreamInv
          <5>3. index # 2
            BY <3>6
          <5>4. index = 0 => ob.sync
            BY <3>2
          <5> QED
            BY ONLY <5>1, <5>2, <5>3, <5>4, Zenon
        <4>3. mixed' = 0 /\ replays' = replays /\ applied' = applied
          BY <1>6, <4>2, <3>1, <3>6 DEF MouseStore, MouseApply
        <4>4. mnext'.idx = ob.idx + 1 /\ mnext'.pkt = ob.pkt
          BY <2>1, <3>1, <3>2, <3>6 DEF Aligned
        <4>5. Aligned'
          BY <2>1, <3>1, <3>2, <3>2a, <3>2b, <3>4, <4>1, <4>2, <4>3, <4>4 DEF Aligned, Current
        <4> QED
          BY <2>1, <3>1, <4>3, <4>5
      <3> QED
        BY <3>2a, <3>5, <3>6
    <2> QED
      BY <2>1, <2>2, <2>3 DEF StreamInv
  <1>7. CASE MouseDiscard
    <2>1. lost' # 0
      BY <1>7 DEF MouseDiscard, Bump, TypeOK
    <2> QED
      BY <1>7, <2>1 DEF MouseDiscard, StreamInv
  <1>8. CASE MouseGiveUp
    <2>1. UNCHANGED <<ob, mnext, bytes, index, ready, mixed, lost>>
      BY <1>8 DEF MouseGiveUp, MouseApply, device
    <2>2. lost = 0 => applied' = applied
      BY <1>8 DEF MouseGiveUp, MouseApply, StreamInv, Aligned
    <2>3. replays <= giveups => replays' <= giveups'
      BY <1>8 DEF MouseGiveUp, MouseApply, Bump, TypeOK
    <2> QED
      BY <2>1, <2>2, <2>3 DEF StreamInv, Aligned, Current
  <1>9. CASE KbdCheck
    BY <1>9, StreamFrame DEF KbdCheck, device
  <1>10. CASE KbdTake
    <2>1. ob.src # "aux" /\ ob'.src # "aux" /\ UNCHANGED <<mnext, mousevars>>
      BY <1>10 DEF KbdTake, Take, Empty, Keyboard_handle, device
    <2> QED
      BY <2>1, StreamFrame
  <1>11. CASE KbdCheckFails \/ KbdGiveUp
    BY <1>11, StreamFrame DEF KbdCheckFails, KbdGiveUp, Garbage, Keyboard_handle, device
  <1>12. CASE UNCHANGED vars
    BY <1>12, StreamFrame DEF vars, device
  <1> QED
    BY <1>1, <1>2, <1>3, <1>4, <1>5, <1>6, <1>7, <1>8, <1>9, <1>10, <1>11,
       <1>12 DEF Next, Hardware, Driver

LEMMA StreamInvariant == Spec => []StreamInv
  BY TypeCorrect, StreamInit, StreamStep, PTL DEF Spec

\* Without a lost byte every packet that mouse_read_packet completes consists
\* of the three bytes of one packet of the mouse.
THEOREM PacketsAreWhole == Spec => []WholePackets
  <1>1. StreamInv => WholePackets
    BY DEF StreamInv, WholePackets
  <1> QED
    BY <1>1, StreamInvariant, PTL

\* At most one call of Mouse_handle finds no byte, and without a lost byte at
\* most one packet is applied a second time.
THEOREM ReplaysAreBounded == Spec => []ReplayBound
  <1>1. WakeInv /\ StreamInv => ReplayBound
    BY DEF WakeInv, TypeOK, StreamInv, ReplayBound
  <1> QED
    BY <1>1, WakeInvariant, StreamInvariant, PTL

-----------------------------------------------------------------------------
(* Losses.                                                                 *)

\* The byte of its packet that Mouse_handle is to read next; 3 stands for the
\* acknowledgement.
Coming == IF ob.src = "aux" THEN ob.idx ELSE mnext.idx

\* The byte in the buffer precedes the one the mouse sends next, and bit 3
\* marks the first byte of a packet and the acknowledgement only. The
\* acknowledgement is read before anything else.
InOrder ==
    ob.src = "aux" =>
        /\ ob.idx < 2 => mnext.idx = ob.idx + 1 /\ mnext.pkt = ob.pkt
        /\ ob.idx = 2 => mnext.idx = 0
        /\ ob.idx = 3 => /\ mnext.idx = 0 /\ index = 0 /\ ready = FALSE /\ ob.err = FALSE
                         /\ lost = 1 /\ mixed = 0 /\ replays = 0
        /\ ob.idx \in {0, 3} => ob.sync = TRUE
        /\ ob.idx \in {1, 2} => ob.sync = FALSE

\* The packet under way will be one of the mouse's unless a byte is lost.
Sound ==
    \/ index = 0
    \/ Coming = index /\ \A i \in 0..2 : i < index => bytes[i] = [pkt |-> Current, idx |-> i]

Spoils == IF Sound THEN 0 ELSE 1

\* How many bytes come before a first byte once index is 0 again, when byte n
\* comes for index i: that many calls find the old packet still ready.
Behind(i, n) == IF n = i THEN 0 ELSE IF n = i + 1 \/ n = i - 2 THEN 2 ELSE 1
Skips == IF index = 0 /\ ready = FALSE THEN 0 ELSE Behind(index, Coming)

Counted == lost <= MaxCount /\ mixed <= MaxCount /\ replays <= MaxCount

\* What is spoilt, and what still will be, is paid for by the losses: each
\* pays for one mixed packet and three repetitions.
Paid ==
    lost < MaxCount => /\ mixed + Spoils <= lost
                       /\ replays + Skips <= giveups + 3 * lost

ResyncInv == InOrder /\ Counted /\ Paid

LEMMA ResyncTypes ==
    TypeOK => Coming \in 0..3 /\ Skips \in 0..2 /\ Spoils \in 0..1
  BY DEF TypeOK, Bytes, Coming, Skips, Behind, Spoils

LEMMA ResyncTypesNext ==
    TypeOK' => (Coming \in 0..3 /\ Skips \in 0..2 /\ Spoils \in 0..1)'
  BY ResyncTypes, PTL

LEMMA BumpBound ==
    ASSUME NEW n \in Nat
    PROVE  Bump(n) <= n + 1 /\ (n <= MaxCount => Bump(n) <= MaxCount)
  BY BoundsAssumption DEF Bump

LEMMA ResyncInit == Init => ResyncInv
  <1> SUFFICES ASSUME Init PROVE ResyncInv
    OBVIOUS
  <1> USE BoundsAssumption
  <1>1. Spoils = 0 /\ Skips = 0
    BY DEF Init, Spoils, Sound, Skips
  <1>2. Counted /\ Paid
    BY <1>1 DEF Init, Counted, Paid
  <1>3. CASE start.ack
    <2>1. /\ ob.src = "aux" /\ ob.idx = 3 /\ ob.sync = TRUE /\ ob.err = FALSE
          /\ lost = 1 /\ mnext.idx = 0
      BY <1>3 DEF Init, AuxByte
    <2>2. index = 0 /\ ready = FALSE /\ mixed = 0 /\ replays = 0
      BY DEF Init
    <2>3. InOrder
      BY <2>1, <2>2 DEF InOrder
    <2> QED
      BY <1>2, <2>3 DEF ResyncInv
  <1>4. CASE ~start.ack
    BY <1>2, <1>4 DEF Init, Empty, InOrder, ResyncInv
  <1> QED
    BY <1>3, <1>4

\* A step that leaves the driver's view alone and does not move the stream.
LEMMA ResyncFrame ==
    ASSUME ResyncInv, UNCHANGED mousevars, InOrder', Coming' = Coming, Current' = Current
    PROVE  ResyncInv'
  <1>1. UNCHANGED <<index, bytes, ready, lost, giveups, replays, mixed>>
    BY DEF mousevars
  <1>2. Sound' = Sound
    BY <1>1 DEF Sound
  <1>3. Spoils' = Spoils /\ Skips' = Skips
    BY <1>1, <1>2 DEF Spoils, Skips
  <1> QED
    BY <1>1, <1>3 DEF ResyncInv, Counted, Paid

LEMMA StreamStays ==
    ASSUME InOrder, UNCHANGED <<mnext, mousevars>>,
           ob' = ob \/ (ob.src # "aux" /\ ob'.src # "aux")
    PROVE  InOrder' /\ Coming' = Coming /\ Current' = Current
  BY DEF InOrder, Coming, Current, mousevars

\* The byte Mouse_handle takes is followed by the next one of its packet or
\* by the first of the next packet.
LEMMA ByteTaken ==
    ASSUME TypeOK, InOrder, ob.src = "aux", ob'.src = "none", mnext' = mnext
    PROVE  /\ Coming = ob.idx /\ Current = ob.pkt
           /\ Coming' = (IF ob.idx < 2 THEN ob.idx + 1 ELSE 0)
           /\ ob.idx < 2 => Current' = ob.pkt
           /\ InOrder'
           /\ ob.idx \in 0..3
  BY DEF TypeOK, Bytes, InOrder, Coming, Current

\* What mouse_read_packet does with a good byte, by index.
LEMMA StoreEffect ==
    ASSUME TypeOK, MouseStore
    PROVE  /\ index = 0 /\ ob.sync = TRUE => index' = 1 /\ ready' = FALSE
           /\ index = 0 /\ ob.sync = FALSE => index' = 0 /\ ready' = ready
           /\ index = 1 /\ ready = FALSE => index' = 2 /\ ready' = FALSE
           /\ index = 2 => index' = 0 /\ ready' = TRUE /\ replays' = replays
           /\ index # 0 \/ ob.sync = TRUE =>
                 bytes' = [bytes EXCEPT ![index] = [pkt |-> ob.pkt, idx |-> ob.idx]]
           /\ index # 2 => mixed' = mixed
           /\ ready' = FALSE => replays' = replays
           /\ index # 2 /\ ready' = TRUE => replays' = Bump(replays)
           /\ mixed' = IF index = 2 /\ ~Whole(bytes') THEN Bump(mixed) ELSE mixed
  <1>1. ready' = (index = 2 \/ (ready /\ ~(index = 0 /\ ob.sync)))
    BY DEF MouseStore
  <1>2. index \in 0..2 /\ ready \in BOOLEAN
    BY DEF TypeOK
  <1>3. index = 2 => ready' = TRUE
    BY ONLY <1>1, Zenon
  <1>4. index = 1 => index # 2 /\ index # 0
    BY <1>2
  <1>5. index = 0 => index # 2
    BY <1>2
  <1>6. index = 1 /\ ready = FALSE => ready' = FALSE
    BY ONLY <1>1, <1>4, Zenon
  <1>7. index = 0 /\ ob.sync = TRUE => ready' = FALSE
    BY ONLY <1>1, <1>5, Zenon
  <1>8. index = 0 /\ ob.sync = FALSE => ready' = ready
    BY ONLY <1>1, <1>2, <1>5, Zenon
  <1>9. /\ index # 0 \/ ob.sync = TRUE =>
             /\ bytes' = [bytes EXCEPT ![index] = [pkt |-> ob.pkt, idx |-> ob.idx]]
             /\ index' = IF index = 2 THEN 0 ELSE index + 1
        /\ index = 0 /\ ob.sync = FALSE => index' = index
    BY DEF MouseStore
  <1>10. mixed' = IF index = 2 /\ ~Whole(bytes') THEN Bump(mixed) ELSE mixed
    BY DEF MouseStore
  <1>11. replays' = IF ready' /\ ~(index = 2) THEN Bump(replays) ELSE replays
    BY DEF MouseStore, MouseApply
  <1>12. /\ ready' = FALSE \/ index = 2 => replays' = replays
         /\ index # 2 /\ ready' = TRUE => replays' = Bump(replays)
    BY ONLY <1>11, Zenon
  <1>13. index # 2 => mixed' = mixed
    BY ONLY <1>10, Zenon
  <1>14. /\ index = 0 /\ ob.sync = TRUE => index' = 1
         /\ index = 0 /\ ob.sync = FALSE => index' = 0
         /\ index = 1 => index' = 2
         /\ index = 2 => index' = 0
    BY <1>9
  <1> QED
    BY ONLY <1>3, <1>6, <1>7, <1>8, <1>9, <1>10, <1>12, <1>13, <1>14, Zenon

\* A byte that mouse_read_packet stores or skips spoils nothing that has not
\* been paid for.
LEMMA StorePays ==
    ASSUME WakeInv, StreamInv, ResyncInv, MouseStore, TypeOK'
    PROVE  Counted' /\ Paid'
  <1>0. TypeOK /\ InOrder /\ Counted /\ Paid
    BY DEF WakeInv, ResyncInv
  <1>1. /\ ob.src = "aux" /\ ob'.src = "none"
        /\ mnext' = mnext /\ lost' = lost /\ giveups' = giveups
    BY DEF MouseStore, Take, Empty, MouseApply, device
  <1>2. /\ Coming = ob.idx /\ Current = ob.pkt /\ ob.idx \in 0..3
        /\ Coming' = (IF ob.idx < 2 THEN ob.idx + 1 ELSE 0)
        /\ ob.idx < 2 => Current' = ob.pkt
    BY <1>0, <1>1, ByteTaken
  <1>3. /\ ob.idx \in {0, 3} => ob.sync = TRUE
        /\ ob.idx \in {1, 2} => ob.sync = FALSE
        /\ ob.idx = 3 => index = 0 /\ ready = FALSE /\ lost = 1 /\ mixed = 0 /\ replays = 0
    BY <1>0, <1>1 DEF InOrder
  <1>4. /\ index \in 0..2 /\ bytes \in [0..2 -> Slot]
        /\ mixed \in Nat /\ replays \in Nat /\ lost \in Nat /\ giveups \in Nat
        /\ ready = TRUE \/ ready = FALSE
    BY <1>0 DEF TypeOK
  <1>n. mixed \in Nat /\ replays \in Nat /\ lost \in Nat /\ giveups \in Nat
    BY <1>4
  <1>5. index # 0 => ready = FALSE
    BY <1>4 DEF StreamInv
  <1>6. Spoils \in 0..1 /\ Skips \in 0..2 /\ Spoils' \in 0..1 /\ Skips' \in 0..2
    BY <1>0, ResyncTypes, ResyncTypesNext
  <1>6a. PICK sp \in 0..1, sk \in 0..2 : Spoils = sp /\ Skips = sk
    BY <1>6
  <1>6b. PICK spn \in 0..1, skn \in 0..2 : Spoils' = spn /\ Skips' = skn
    BY <1>6
  <1>7. index = 0 => Spoils = 0
    BY DEF Spoils, Sound
  <1>8. index' = 0 => Spoils' = 0
    BY DEF Spoils, Sound
  <1>9. CASE ob.idx = 3
    <2>1. index' = 1 /\ ready' = FALSE /\ replays' = 0 /\ mixed' = 0
      BY <1>0, StoreEffect, <1>3, <1>9
    <2>2. Skips' = 1
      BY <1>2, <1>9, <2>1 DEF Skips, Behind
    <2> QED
      <3>1. lost = 1 /\ replays' = 0 /\ mixed' = 0
        BY <1>3, <1>9, <2>1
      <3>2. mixed' + Spoils' <= lost /\ replays' + Skips' <= giveups + 3 * lost
        BY <1>n, <1>6a, <1>6b, <2>2, <3>1
      <3> QED
        BY <1>0, <1>1, <3>1, <3>2, BoundsAssumption DEF Counted, Paid
  <1>10. CASE index = 0 /\ ob.idx \in {1, 2}
    <2>1. ob.sync = FALSE
      BY <1>3, <1>10
    <2>2. index' = 0 /\ ready' = ready /\ mixed' = mixed
      <3>1. index' = 0 /\ ready' = ready
        BY <1>0, <1>10, <2>1, StoreEffect
      <3>2. mixed' = mixed
        BY <1>0, <1>10, StoreEffect
      <3> QED
        BY <3>1, <3>2
    <2>5. mixed' = mixed
      BY <2>2
    <2>6. Spoils = 0 /\ Spoils' = 0
      BY <1>7, <1>8, <1>10, <2>2
    <2>3. CASE ready = FALSE
      <3>1. replays' = replays /\ Skips' = 0 /\ Skips = 0
        BY <1>0, StoreEffect, <1>10, <2>2, <2>3 DEF Skips
      <3> QED
        BY <1>0, <1>1, <1>7, <1>8, <1>10, <2>2, <3>1 DEF Counted, Paid
    <2>4. CASE ready = TRUE
      <3>1. replays' = Bump(replays)
        BY <1>0, StoreEffect, <1>10, <2>2, <2>4
      <3>2. Skips' = Skips - 1
        BY <1>2, <1>10, <2>2, <2>4 DEF Skips, Behind
      <3>3. replays' <= replays + 1 /\ replays' <= MaxCount /\ replays' \in Nat
        BY <1>0, <1>4, <3>1, BumpBound, BumpType DEF Counted
      <3> QED
        <4>1. skn = sk - 1
          BY <1>6a, <1>6b, <3>2
        <4>2. PICK rn \in Nat : replays' = rn /\ rn <= replays + 1 /\ rn <= MaxCount
          BY <3>3
        <4> QED
          BY <1>0, <1>1, <1>n, <1>6a, <1>6b, <2>5, <2>6, <4>1, <4>2 DEF Counted, Paid
    <2> QED
      BY <1>4, <2>3, <2>4
  <1>11. CASE index = 0 /\ ob.idx = 0
    <2>1. ob.sync = TRUE
      BY <1>3, <1>11
    <2>2. /\ index' = 1 /\ ready' = FALSE /\ mixed' = mixed
          /\ bytes' = [bytes EXCEPT ![0] = [pkt |-> ob.pkt, idx |-> 0]]
      BY <1>0, StoreEffect, <1>11, <2>1
    <2>3. replays' = replays
      BY <1>0, StoreEffect, <2>2
    <2>4. Skips' = 0
      BY <1>2, <1>11, <2>2 DEF Skips, Behind
    <2>5. bytes'[0] = [pkt |-> Current', idx |-> 0]
      BY <1>2, <1>4, <1>11, <2>2
    <2>6. Spoils' = 0
      BY <1>2, <1>11, <2>2, <2>5 DEF Spoils, Sound
    <2> QED
      BY <1>0, <1>1, <1>4, <1>6, <1>7, <2>2, <2>3, <2>4, <2>6 DEF Counted, Paid
  <1>12. CASE index = 1 /\ ob.idx # 3
    <2>0. ready = FALSE /\ index # 2 /\ index # 0
      BY <1>5, <1>12
    <2>1. /\ index' = 2 /\ ready' = FALSE
          /\ bytes' = [bytes EXCEPT ![1] = [pkt |-> ob.pkt, idx |-> ob.idx]]
      BY <1>0, <1>12, <2>0, StoreEffect
    <2>6. mixed' = mixed
      BY <1>0, <2>0, StoreEffect
    <2>2. replays' = replays
      BY <1>0, <2>1, StoreEffect
    <2>3. Skips' = Skips
      BY <1>2, <1>12, <2>1 DEF Skips, Behind
    <2>4. Sound => Sound'
      <3> SUFFICES ASSUME Sound PROVE Sound'
        OBVIOUS
      <3>1. ob.idx = 1 /\ bytes[0] = [pkt |-> ob.pkt, idx |-> 0]
        BY <1>2, <1>12 DEF Sound
      <3>2. Current' = ob.pkt /\ Coming' = 2
        BY <1>2, <3>1
      <3>3. /\ bytes'[0] = [pkt |-> Current', idx |-> 0]
            /\ bytes'[1] = [pkt |-> Current', idx |-> 1]
        BY <1>4, <2>1, <3>1, <3>2
      <3> QED
        BY <2>1, <3>2, <3>3 DEF Sound
    <2>5. Spoils' <= Spoils
      BY <2>4 DEF Spoils
    <2> QED
      BY <1>0, <1>1, <1>n, <1>6a, <1>6b, <2>2, <2>3, <2>5, <2>6 DEF Counted, Paid
  <1>13. CASE index = 2 /\ ob.idx # 3
    <2>1. /\ index' = 0 /\ ready' = TRUE
          /\ bytes' = [bytes EXCEPT ![2] = [pkt |-> ob.pkt, idx |-> ob.idx]]
          /\ mixed' = IF ~Whole(bytes') THEN Bump(mixed) ELSE mixed
      BY <1>0, StoreEffect, <1>13
    <2>2. replays' = replays
      BY <1>0, StoreEffect, <1>13
    <2>3. Skips' = Skips
      BY <1>2, <1>5, <1>13, <2>1 DEF Skips, Behind
    <2>4. Sound => Whole(bytes')
      <3> SUFFICES ASSUME Sound PROVE Whole(bytes')
        OBVIOUS
      <3>1. /\ ob.idx = 2 /\ bytes[0] = [pkt |-> ob.pkt, idx |-> 0]
            /\ bytes[1] = [pkt |-> ob.pkt, idx |-> 1]
        BY <1>2, <1>13 DEF Sound
      <3> QED
        BY <1>4, <2>1, <3>1 DEF Whole
    <2>5. mixed' <= mixed + Spoils /\ mixed' <= MaxCount /\ mixed' \in Nat
      <3>1. CASE Sound
        BY <1>0, <1>4, <2>1, <2>4, <3>1 DEF Spoils, Counted
      <3>2. CASE ~Sound
        <4>1. Spoils = 1
          BY <3>2 DEF Spoils
        <4>2. mixed' = mixed \/ mixed' = Bump(mixed)
          BY <2>1
        <4> QED
          BY <1>0, <1>4, <4>1, <4>2, BumpBound, BumpType DEF Counted
      <3> QED
        BY <3>1, <3>2
    <2> QED
      BY <1>0, <1>1, <1>4, <1>6, <1>8, <2>1, <2>2, <2>3, <2>5 DEF Counted, Paid
  <1> QED
    BY <1>2, <1>3, <1>4, <1>9, <1>10, <1>11, <1>12, <1>13

LEMMA ResyncStep ==
    ASSUME DataSync = {FALSE}, WakeInv, StreamInv, ResyncInv, [Next]_vars
    PROVE  ResyncInv'
  <1>0. /\ TypeOK /\ InOrder /\ Counted /\ Paid
        /\ mixed \in Nat /\ replays \in Nat /\ lost \in Nat /\ giveups \in Nat
    BY DEF WakeInv, ResyncInv, TypeOK
  <1>00. TypeOK'
    BY <1>0, TypeStep
  <1>t. Spoils \in 0..1 /\ Skips \in 0..2 /\ Spoils' \in 0..1 /\ Skips' \in 0..2
    BY <1>0, <1>00, ResyncTypes, ResyncTypesNext
  <1>1. CASE LoadMouse
    <2>1. PICK e \in BOOLEAN, s \in BOOLEAN :
             /\ Load(AuxByte(mnext.pkt, mnext.idx, s, e))
             /\ mnext.idx = 0 => s = TRUE
             /\ mnext.idx # 0 => s = FALSE
      BY <1>1 DEF LoadMouse
    <2>2. /\ ob.src = "none" /\ ob'.src = "aux" /\ ob'.pkt = mnext.pkt
          /\ ob'.idx = mnext.idx
          /\ mnext.idx = 0 => ob'.sync = TRUE
          /\ mnext.idx # 0 => ob'.sync = FALSE
          /\ UNCHANGED mousevars
      BY <2>1 DEF Load, AuxByte, Empty
    <2>3. /\ mnext.idx \in 0..2
          /\ mnext.idx < 2 => mnext'.idx = mnext.idx + 1 /\ mnext'.pkt = mnext.pkt
          /\ mnext.idx = 2 => mnext'.idx = 0
      BY <1>0, <1>1 DEF LoadMouse, TypeOK
    <2>5. InOrder'
      BY <2>2, <2>3 DEF InOrder
    <2>6. Coming' = Coming /\ Current' = Current
      BY <2>2 DEF Coming, Current
    <2> QED
      BY <2>2, <2>5, <2>6, ResyncFrame
  <1>2. CASE KeyCode \/ \E k \in PhysKeys, make \in BOOLEAN : KeyEvent(k, make)
    <2>1. ob.src # "aux" /\ ob'.src # "aux" /\ UNCHANGED <<mnext, mousevars>>
      BY <1>2 DEF KeyCode, KeyEvent, Load, KbdByte, Empty
    <2> QED
      BY <1>0, <2>1, StreamStays, ResyncFrame
  <1>3. CASE Receive \/ MousePoll \/ KbdPoll \/ KbdCheck
    <2>1. ob' = ob /\ UNCHANGED <<mnext, mousevars>>
      BY <1>3 DEF Receive, MousePoll, KbdPoll, PollAgain, KbdCheck, device
    <2> QED
      BY <1>0, <2>1, StreamStays, ResyncFrame
  <1>4. CASE MouseStore
    <2>1. ob.src = "aux" /\ ob'.src = "none" /\ mnext' = mnext
      BY <1>4 DEF MouseStore, Take, Empty, MouseApply, device
    <2> QED
      BY <1>0, <1>00, <1>4, <2>1, ByteTaken, StorePays DEF ResyncInv
  <1>5. CASE MouseDiscard
    <2>1. /\ ob.src = "aux" /\ ob'.src = "none" /\ mnext' = mnext
          /\ mixed' = mixed /\ giveups' = giveups
          /\ lost' = Bump(lost) /\ replays' \in {replays, Bump(replays)}
      BY <1>5 DEF MouseDiscard, Take, Empty, MouseApply, device
    <2>2. InOrder'
      BY <1>0, <2>1, ByteTaken
    <2>3. /\ lost' <= MaxCount /\ lost' \in Nat /\ replays' <= MaxCount
          /\ replays' <= replays + 1 /\ replays' \in Nat
      BY <1>0, <2>1, BumpBound, BumpType DEF Counted
    <2>4. lost' < MaxCount => lost < MaxCount /\ lost' = lost + 1
      BY <1>0, <2>1, BoundsAssumption DEF Bump
    <2>5. Counted' /\ Paid'
      BY <1>0, <1>t, <2>1, <2>3, <2>4, BoundsAssumption DEF Counted, Paid
    <2> QED
      BY <2>2, <2>5 DEF ResyncInv
  <1>6. CASE MouseGiveUp
    <2>1. /\ UNCHANGED <<ob, mnext, index, bytes, ready, mixed, lost>>
          /\ giveups' = Bump(giveups)
          /\ replays' = IF ready THEN Bump(replays) ELSE replays
      BY <1>6 DEF MouseGiveUp, MouseApply, device
    <2>2. ~ServesMouse
      BY <1>0, <1>6, BoundsAssumption DEF MouseGiveUp, ServesMouse, TypeOK
    <2>3. ob.src = "aux" => "aux" \in pending
      BY <1>6, <2>2 DEF MouseGiveUp, Attended, WakeInv
    <2>4. giveups = 0
      BY <1>6, <2>3 DEF MouseGiveUp, WakeInv, Tokens, B, TypeOK
    <2>5. giveups' = 1
      BY <2>1, <2>4, BoundsAssumption DEF Bump
    <2>6. InOrder'
      BY <1>0, <2>1 DEF InOrder
    <2>7. Sound' = Sound /\ Coming' = Coming
      BY <2>1 DEF Sound, Coming, Current
    <2>8. Spoils' = Spoils /\ Skips' = Skips
      BY <2>1, <2>7 DEF Spoils, Skips
    <2>9. replays' = replays \/ replays' = Bump(replays)
      BY <2>1
    <2>10. replays' <= replays + 1 /\ replays' <= MaxCount /\ replays' \in Nat
      BY <1>0, <2>9, BumpBound DEF Counted, Bump
    <2> QED
      BY <1>0, <1>t, <2>1, <2>4, <2>5, <2>6, <2>8, <2>10 DEF ResyncInv, Counted, Paid
  <1>7. CASE KbdTake
    <2>1. ob.src # "aux" /\ ob'.src # "aux" /\ UNCHANGED <<mnext, mousevars>>
      BY <1>7 DEF KbdTake, Take, Empty, Keyboard_handle, device
    <2> QED
      BY <1>0, <2>1, StreamStays, ResyncFrame
  <1>8. CASE KbdCheckFails \/ KbdGiveUp
    <2>1. ob' = ob /\ UNCHANGED <<mnext, mousevars>>
      BY <1>8 DEF KbdCheckFails, KbdGiveUp, Garbage, Keyboard_handle, device
    <2> QED
      BY <1>0, <2>1, StreamStays, ResyncFrame
  <1>9. CASE UNCHANGED vars
    <2>1. ob' = ob /\ UNCHANGED <<mnext, mousevars>>
      BY <1>9 DEF vars, device
    <2> QED
      BY <1>0, <2>1, StreamStays, ResyncFrame
  <1> QED
    BY <1>1, <1>2, <1>3, <1>4, <1>5, <1>6, <1>7, <1>8, <1>9 DEF Next, Hardware, Driver

\* When movement bytes have bit 3 clear, a lost byte or an unread
\* acknowledgement makes mouse_read_packet mix at most one packet, and
\* Mouse_handle repeat at most three, before the stream is aligned again.
THEOREM LossesAreBounded ==
    ASSUME DataSync = {FALSE}
    PROVE  Spec => []ResyncBound
  <1>1. WakeInv /\ ResyncInv => ResyncBound
    <2> SUFFICES ASSUME WakeInv, ResyncInv PROVE ResyncBound
      OBVIOUS
    <2>1. /\ Skips \in 0..2 /\ Spoils \in 0..1 /\ giveups <= 1
          /\ mixed \in Nat /\ replays \in Nat /\ lost \in Nat /\ giveups \in Nat
      BY ResyncTypes DEF WakeInv, TypeOK
    <2> QED
      BY <2>1, BoundsAssumption DEF ResyncInv, Counted, Paid, ResyncBound
  <1>2. WakeInv /\ StreamInv /\ ResyncInv /\ [Next]_vars => ResyncInv'
    BY ResyncStep
  <1> QED
    BY <1>1, <1>2, WakeInvariant, StreamInvariant, ResyncInit, PTL DEF Spec

-----------------------------------------------------------------------------
(* The mouse path implements PacketFeed when no byte is damaged.           *)

CleanInv == lost = 0 /\ ob.err = FALSE

LEMMA CleanInvariant ==
    ASSUME StrayAck = {FALSE}, MaxErr = 0
    PROVE  Spec => []CleanInv
  <1>1. Init => CleanInv
    <2> SUFFICES ASSUME Init PROVE CleanInv
      OBVIOUS
    <2>1. start.ack = FALSE
      BY DEF Init
    <2> QED
      BY <2>1 DEF Init, CleanInv, Empty
  <1>2. TypeOK /\ CleanInv /\ [Next]_vars => CleanInv'
    <2> SUFFICES ASSUME TypeOK, CleanInv, [Next]_vars PROVE CleanInv'
      OBVIOUS
    <2>0. errs = 0
      BY DEF TypeOK
    <2>1. CASE LoadMouse
      BY <2>0, <2>1 DEF LoadMouse, Load, AuxByte, CleanInv, mousevars
    <2>2. CASE KeyCode
      BY <2>0, <2>2 DEF KeyCode, Load, KbdByte, CleanInv, mousevars
    <2>3. CASE \E k \in PhysKeys, make \in BOOLEAN : KeyEvent(k, make)
      BY <2>0, <2>3 DEF KeyEvent, Load, KbdByte, CleanInv, mousevars
    <2>4. CASE Receive \/ MousePoll \/ KbdPoll \/ KbdCheck
      BY <2>4 DEF Receive, MousePoll, KbdPoll, PollAgain, KbdCheck, CleanInv, mousevars
    <2>5. CASE MouseStore
      <3>1. ob' = Empty /\ lost' = lost
        BY <2>5 DEF MouseStore, Take
      <3> QED
        BY <3>1 DEF Empty, CleanInv
    <2>10. CASE MouseGiveUp
      BY <2>10 DEF MouseGiveUp, CleanInv
    <2>9. CASE MouseDiscard
      BY <2>9 DEF MouseDiscard, CleanInv
    <2>6. CASE KbdTake
      BY <2>6 DEF KbdTake, Take, Empty, Keyboard_handle, CleanInv, mousevars
    <2>7. CASE KbdCheckFails \/ KbdGiveUp
      BY <2>7 DEF KbdCheckFails, KbdGiveUp, Garbage, Keyboard_handle, CleanInv, mousevars
    <2>8. CASE UNCHANGED vars
      BY <2>8 DEF vars, CleanInv, mousevars
    <2> QED
      BY <2>1, <2>2, <2>3, <2>4, <2>5, <2>6, <2>7, <2>8, <2>9, <2>10
         DEF Next, Hardware, Driver
  <1> QED
    BY <1>1, <1>2, TypeCorrect, PTL DEF Spec

\* A step of the input path completes the next packet of the mouse once the
\* last one is applied, applies it, applies the last one again for the only
\* time, or changes neither the mouse's position nor the pointer.
LEMMA FeedStep ==
    WakeInv /\ StreamInv /\ CleanInv /\ [Next]_vars
        => [Feed!Next]_<<mnext.pkt, applied, replays>>
  <1> SUFFICES ASSUME WakeInv, StreamInv, CleanInv, [Next]_vars
               PROVE  [Feed!Next]_<<mnext.pkt, applied, replays>>
    OBVIOUS
  <1> USE BoundsAssumption
  <1>a. Aligned /\ TypeOK
    BY DEF StreamInv, CleanInv, WakeInv
  <1>b. \A p : Feed!Following(p) = Following(p)
    BY DEF Feed!Following, Following
  <1>1. CASE MouseStore
    <2>1. ob.src = "aux" /\ mnext' = mnext
      BY <1>1 DEF MouseStore, Take, MouseApply, device
    <2>2. index = ob.idx /\ (ob.idx = 0 => ob.sync) /\ Current = ob.pkt
      BY <1>a, <2>1 DEF Aligned, Current
    <2>3. ob.pkt = Following(applied) /\ ob.pkt \in Numbers /\ index \in 0..2
      BY <1>a, <2>2 DEF Aligned, TypeOK, Bytes
    <2>4. CASE index = 2
      <3>1. bytes[0].pkt = ob.pkt
        BY <1>a, <2>2, <2>3, <2>4 DEF Aligned
      <3>2. bytes'[0].pkt = ob.pkt
        BY <1>1, <1>a, <2>4, <3>1 DEF MouseStore, TypeOK
      <3>3. applied' = bytes'[0].pkt /\ replays' = replays
        BY <1>1, <2>4 DEF MouseStore, MouseApply
      <3>4. applied' = Following(applied) /\ replays' = replays
        BY <2>3, <3>2, <3>3
      <3>5. mnext.pkt = Following(ob.pkt)
        BY <1>a, <2>1, <2>2, <2>4 DEF Aligned
      <3>6. mnext.pkt # Following(applied)
        BY <2>3, <3>5, FollowingType
      <3> QED
        BY <1>b, <2>1, <3>4, <3>6 DEF Feed!Next, Feed!Deliver
    <2>5. CASE index < 2
      <3>1. ready' = FALSE
        <4>1. ready' = (index = 2 \/ (ready /\ ~(index = 0 /\ ob.sync)))
          BY <1>1 DEF MouseStore
        <4>2. index # 0 => ~ready
          BY DEF StreamInv
        <4>3. index # 2
          BY <2>5
        <4>4. index = 0 => ob.sync
          BY <2>2
        <4> QED
          BY ONLY <4>1, <4>2, <4>3, <4>4, Zenon
      <3> QED
        BY <1>1, <2>1, <3>1 DEF MouseStore, MouseApply
    <2> QED
      BY <2>3, <2>4, <2>5
  <1>2. CASE MouseDiscard
    BY <1>2 DEF MouseDiscard, CleanInv
  <1>3. CASE MouseGiveUp
    <2>1. ~ServesMouse
      BY <1>3 DEF MouseGiveUp, ServesMouse, WakeInv, TypeOK
    <2>2. ob.src = "aux" => "aux" \in pending
      BY <1>3, <2>1 DEF MouseGiveUp, Attended, WakeInv
    <2>3. giveups = 0
      BY <1>3, <2>2 DEF MouseGiveUp, WakeInv, Tokens, B, TypeOK
    <2>4. replays = 0
      BY <2>3 DEF StreamInv, CleanInv, WakeInv, TypeOK
    <2>5. applied' = applied /\ mnext' = mnext
      BY <1>3, <1>a DEF MouseGiveUp, MouseApply, Aligned, device
    <2>6. replays' = 0 \/ replays' = 1
      BY <1>3, <2>4 DEF MouseGiveUp, MouseApply, Bump
    <2> QED
      BY <2>4, <2>5, <2>6 DEF Feed!Next, Feed!Redeliver
  <1>4. CASE LoadMouse
    <2>1. ob.src # "aux" /\ UNCHANGED <<applied, replays>>
      BY <1>4 DEF LoadMouse, Load, Empty, mousevars
    <2>2. mnext.pkt = Following(applied) /\ mnext.idx \in 0..2
      BY <1>a, <2>1 DEF Aligned, Current, TypeOK
    <2>3. CASE mnext.idx = 2
      <3>1. mnext'.pkt = Following(mnext.pkt)
        BY <1>4, <2>3 DEF LoadMouse
      <3> QED
        BY <1>b, <2>1, <2>2, <3>1 DEF Feed!Next, Feed!Send
    <2>4. CASE mnext.idx < 2
      <3>1. mnext'.pkt = mnext.pkt
        BY <1>4, <1>a, <2>4 DEF LoadMouse, TypeOK
      <3> QED
        BY <2>1, <3>1
    <2> QED
      BY <2>2, <2>3, <2>4
  <1>5. CASE KeyCode \/ \E k \in PhysKeys, make \in BOOLEAN : KeyEvent(k, make)
    BY <1>5 DEF KeyCode, KeyEvent, Load, mousevars
  <1>6. CASE Receive \/ MousePoll \/ KbdPoll \/ KbdCheck
    BY <1>6 DEF Receive, MousePoll, KbdPoll, PollAgain, KbdCheck, mousevars, device
  <1>7. CASE KbdTake \/ KbdCheckFails \/ KbdGiveUp
    BY <1>7 DEF KbdTake, KbdCheckFails, KbdGiveUp, Garbage, Keyboard_handle, mousevars, device
  <1>8. CASE UNCHANGED vars
    BY <1>8 DEF vars, mousevars, device
  <1> QED
    BY <1>1, <1>2, <1>3, <1>4, <1>5, <1>6, <1>7, <1>8 DEF Next, Hardware, Driver

\* With an undamaged line and no unread acknowledgement, the pointer gets the
\* mouse's packets in order, none missing, each before the next is complete,
\* and at most one of them twice.
THEOREM MouseImplementsFeed ==
    ASSUME StrayAck = {FALSE}, MaxErr = 0
    PROVE  Spec => FeedSpec
  <1>1. Init => Feed!Init
    BY DEF Init, Feed!Init
  <1>2. Spec => []CleanInv
    BY CleanInvariant
  <1> QED
    BY <1>1, <1>2, WakeInvariant, StreamInvariant, FeedStep, PTL
       DEF Spec, FeedSpec, Feed!Spec

-----------------------------------------------------------------------------
(* The keyboard.                                                           *)

\* What one key event does to the set of pressed keys.
Applied(ks, k, make) ==
    IF KeyOf(k) = KB_INVALID THEN ks
    ELSE IF make THEN ks \cup {KeyOf(k)} ELSE ks \ {KeyOf(k)}

Target == {KeyOf(k) : k \in held} \ {KB_INVALID}

\* Where a key event is between the keyboard and keys[]: the prefix flag is
\* set exactly while the code of an extended key is still to come, and keys[]
\* lacks exactly the event that is on its way.
KeyInv ==
    ~garbled =>
        /\ ob.src # "kbd" /\ ~khalf => keys = Target /\ ~double_width
        /\ ob.src = "kbd" \/ khalf => Applied(keys, kevent.key, kevent.make) = Target
        /\ khalf => Wire[kevent.key].ext
        /\ khalf /\ ob.src = "kbd" => ob.code = PREFIX /\ ~double_width
        /\ khalf /\ ob.src # "kbd" => double_width
        /\ ~khalf /\ ob.src = "kbd" => /\ ob.code = Code(kevent.key, kevent.make)
                                       /\ double_width = Wire[kevent.key].ext

LEMMA Keys == DOMAIN Wire = {"ESC", "UP", "LEFT", "DOWN", "RIGHT", "KP8", "LETTER", "DEL"}
  BY DEF Wire

LEMMA KeyOfValues ==
    /\ KeyOf("ESC") = "KB_ESC" /\ KeyOf("UP") = "KB_UP" /\ KeyOf("LEFT") = "KB_LEFT"
    /\ KeyOf("DOWN") = "KB_DOWN" /\ KeyOf("RIGHT") = "KB_RIGHT"
    /\ KeyOf("KP8") = KB_INVALID /\ KeyOf("LETTER") = KB_INVALID /\ KeyOf("DEL") = KB_INVALID
  BY DEF KeyOf, Keyboard_translate, Wire, KB_INVALID

\* No two keys of the keyboard stand for the same key of the game.
LEMMA KeyOfInjective ==
    ASSUME NEW j \in DOMAIN Wire, NEW k \in DOMAIN Wire,
           KeyOf(j) = KeyOf(k), KeyOf(k) # KB_INVALID
    PROVE  j = k
  BY Keys, KeyOfValues DEF KB_INVALID

\* The code of a key is never the prefix, tells a press from a release, and
\* translates to the key it stands for.
LEMMA CodeTranslates ==
    ASSUME NEW k \in DOMAIN Wire, NEW make \in BOOLEAN
    PROVE  /\ Code(k, make) # PREFIX
           /\ Code(k, make) < 128 <=> make
           /\ Keyboard_translate(Code(k, make), Wire[k].ext) = KeyOf(k)
  <1>1. Wire[k].base \in 0..127 /\ Wire[k].base # 96
    BY Keys DEF Wire
  <1>2. Code(k, make) % 128 = Wire[k].base
    BY <1>1 DEF Code
  <1>3. Code(k, make) # PREFIX
    BY <1>1 DEF Code, PREFIX
  <1>4. Code(k, make) < 128 <=> make
    BY <1>1 DEF Code
  <1>5. Wire[k].base % 128 = Wire[k].base
    BY <1>1
  <1>6. Keyboard_translate(Code(k, make), Wire[k].ext) = KeyOf(k)
    BY <1>2, <1>5 DEF Keyboard_translate, KeyOf
  <1> QED
    BY <1>3, <1>4, <1>6

\* A new event changes the target by exactly what applying it changes.
LEMMA EventTarget ==
    ASSUME NEW h \in SUBSET DOMAIN Wire, NEW k \in DOMAIN Wire, NEW make \in BOOLEAN
    PROVE  Applied({KeyOf(j) : j \in h} \ {KB_INVALID}, k, make)
             = {KeyOf(j) : j \in (IF make THEN h \cup {k} ELSE h \ {k})} \ {KB_INVALID}
  <1>1. CASE KeyOf(k) = KB_INVALID
    BY <1>1 DEF Applied
  <1>2. CASE KeyOf(k) # KB_INVALID /\ make
    BY <1>2 DEF Applied
  <1>3. CASE KeyOf(k) # KB_INVALID /\ ~make
    <2>1. \A j \in h : KeyOf(j) = KeyOf(k) => j = k
      BY <1>3, KeyOfInjective
    <2> QED
      BY <1>3, <2>1 DEF Applied
  <1> QED
    BY <1>1, <1>2, <1>3

LEMMA KeyFrame ==
    ASSUME KeyInv, UNCHANGED <<kevent, khalf, held, kbdvars>>,
           ob' = ob \/ (ob.src # "kbd" /\ ob'.src # "kbd")
    PROVE  KeyInv'
  BY DEF KeyInv, Target, kbdvars

LEMMA KeyInit == Init => KeyInv
  <1> SUFFICES ASSUME Init PROVE KeyInv
    OBVIOUS
  <1>1. ob.src # "kbd" /\ khalf = FALSE /\ double_width = FALSE
    BY DEF Init, Empty, AuxByte
  <1>2. keys = Target
    BY DEF Init, Target
  <1> QED
    BY <1>1, <1>2 DEF KeyInv

LEMMA KeyStep == TypeOK /\ KeyInv /\ [Next]_vars => KeyInv'
  <1> SUFFICES ASSUME TypeOK, KeyInv, [Next]_vars PROVE KeyInv'
    OBVIOUS
  <1> USE DomainsAssumption
  <1>1. CASE LoadMouse
    BY <1>1, KeyFrame DEF LoadMouse, Load, AuxByte, Empty
  <1>2. CASE KeyCode
    <2>1. PICK e \in BOOLEAN : Load(KbdByte(Code(kevent.key, kevent.make), e))
      BY <1>2 DEF KeyCode
    <2>2. /\ ob.src = "none" /\ ob'.src = "kbd" /\ ob'.code = Code(kevent.key, kevent.make)
          /\ khalf = TRUE /\ khalf' = FALSE
          /\ UNCHANGED <<kevent, held, keys, double_width, garbled>>
      BY <1>2, <2>1 DEF KeyCode, Load, KbdByte, Empty, TypeOK, kbdvars
    <2>3. Wire[kevent.key].ext \in BOOLEAN
      BY WireType DEF TypeOK
    <2> QED
      BY <2>2, <2>3 DEF KeyInv, Target, TypeOK
  <1>3. CASE \E k \in PhysKeys, make \in BOOLEAN : KeyEvent(k, make)
    <2>1. PICK k \in PhysKeys, make \in BOOLEAN : KeyEvent(k, make)
      BY <1>3
    <2>2. PICK e \in BOOLEAN : Load(KbdByte(IF Wire[k].ext THEN PREFIX ELSE Code(k, make), e))
      BY <2>1 DEF KeyEvent
    <2>3. /\ ob.src = "none" /\ ob'.src = "kbd"
          /\ ob'.code = IF Wire[k].ext THEN PREFIX ELSE Code(k, make)
          /\ khalf = FALSE /\ khalf' = Wire[k].ext
          /\ UNCHANGED <<keys, double_width, garbled>>
      BY <2>1, <2>2 DEF KeyEvent, Load, KbdByte, Empty, TypeOK, kbdvars
    <2>4. kevent'.key = k /\ kevent'.make = make
      BY <2>1 DEF KeyEvent
    <2>5. Wire[k].ext \in BOOLEAN
      BY WireType
    <2>6. ~garbled => Applied(keys, k, make) = Target'
      <3>1. held \in SUBSET DOMAIN Wire /\ k \in DOMAIN Wire
        BY DEF TypeOK
      <3>2. held' = IF make THEN held \cup {k} ELSE held \ {k}
        BY <2>1 DEF KeyEvent
      <3>3. ~garbled => keys = Target
        BY <2>3 DEF KeyInv
      <3> QED
        BY <3>1, <3>2, <3>3, EventTarget DEF Target
    <2>7. ~garbled => ~double_width
      BY <2>3 DEF KeyInv
    <2> QED
      BY <2>3, <2>4, <2>5, <2>6, <2>7 DEF KeyInv, TypeOK
  <1>4. CASE Receive \/ MousePoll \/ KbdPoll \/ KbdCheck
    BY <1>4, KeyFrame DEF Receive, MousePoll, KbdPoll, PollAgain, KbdCheck, device
  <1>5. CASE MouseStore \/ MouseDiscard
    <2>1. ob.src = "aux" /\ ob' = Empty
      BY <1>5 DEF MouseStore, MouseDiscard, Take
    <2>2. ob.src # "kbd" /\ ob'.src # "kbd"
      BY <2>1 DEF Empty
    <2> QED
      BY <1>5, <2>2, KeyFrame DEF MouseStore, MouseDiscard, MouseApply, device
  <1>6. CASE MouseGiveUp
    BY <1>6, KeyFrame DEF MouseGiveUp, MouseApply, device
  <1>7. CASE KbdTake
    <2> DEFINE k == kevent.key
               make == kevent.make
    <2>1. /\ ob.src = "kbd" /\ ob'.src = "none" /\ Keyboard_handle(ob.code)
          /\ UNCHANGED <<kevent, khalf, held, garbled>>
      BY <1>7 DEF KbdTake, Take, Empty, Keyboard_handle, device
    <2>2. k \in DOMAIN Wire /\ make \in BOOLEAN /\ garbled \in BOOLEAN
      BY DEF TypeOK
    <2>3. CASE ~garbled /\ khalf
      <3>1. ob.code = PREFIX /\ ~double_width
        BY <2>1, <2>3 DEF KeyInv
      <3>2. double_width' = TRUE /\ keys' = keys
        BY <2>1, <3>1 DEF Keyboard_handle
      <3> QED
        BY <2>1, <2>3, <3>2 DEF KeyInv, Target
    <2>4. CASE ~garbled /\ ~khalf
      <3>1. ob.code = Code(k, make) /\ double_width = Wire[k].ext
        BY <2>1, <2>4 DEF KeyInv
      <3>2. /\ ob.code # PREFIX /\ (ob.code < 128 <=> make)
            /\ Keyboard_translate(ob.code, double_width) = KeyOf(k)
        BY <2>2, <3>1, CodeTranslates
      <3>3. double_width' = FALSE
        BY <2>1, <3>2 DEF Keyboard_handle
      <3>4. keys' = Applied(keys, k, make)
        BY <2>1, <2>2, <3>2 DEF Keyboard_handle, Applied
      <3>5. Applied(keys, k, make) = Target
        BY <2>1, <2>4 DEF KeyInv
      <3>6. Target' = Target
        BY <2>1 DEF Target
      <3> HIDE DEF k, make
      <3> QED
        BY <2>1, <2>4, <3>3, <3>4, <3>5, <3>6 DEF KeyInv
    <2>5. CASE garbled
      BY <2>1, <2>5 DEF KeyInv
    <2> QED
      BY <2>3, <2>4, <2>5
  <1>8. CASE KbdCheckFails \/ KbdGiveUp
    BY <1>8 DEF KbdCheckFails, KbdGiveUp, Garbage, KeyInv
  <1>9. CASE UNCHANGED vars
    BY <1>9, KeyFrame DEF vars, device
  <1> QED
    BY <1>1, <1>2, <1>3, <1>4, <1>5, <1>6, <1>7, <1>8, <1>9 DEF Next, Hardware, Driver

\* keys[] is exactly what the user holds down whenever no keyboard byte is on
\* its way, whatever the mouse sends in between, as long as Keyboard_handle
\* never worked on an unread scancode.
THEOREM KeysAreHeldKeys == Spec => []KeysTrackHeld
  <1>1. TypeOK /\ KeyInv => KeysTrackHeld
    BY DEF KeyInv, KeysTrackHeld, Target, TypeOK
  <1> QED
    BY <1>1, TypeCorrect, KeyInit, KeyStep, PTL DEF Spec

\* The notification being handled still owes a call of Keyboard_handle.
KbdDue == ("kbd" \in msg /\ pc \in {"mouse", "kbdstat"}) \/ pc = "kbd"

\* On an undamaged line a keyboard wake-up and a keyboard byte in the buffer
\* go together, and there is only one of them at a time.
GuessInv ==
    /\ pc = "kbdstat" => "kbd" \in msg
    /\ ~start.kbd /\ faults = 0 /\ errs = 0 =>
          /\ ~garbled /\ ~ob.err
          /\ "kbd" \in pending => ob.src = "kbd" /\ ~KbdDue
          /\ KbdDue => ob.src = "kbd"

LEMMA GuessInit == Init => GuessInv
  <1> SUFFICES ASSUME Init PROVE GuessInv
    OBVIOUS
  <1>1. ob.err = FALSE /\ garbled = FALSE /\ pc = "receive" /\ msg = {}
    BY DEF Init, Empty, AuxByte
  <1>2. ~start.kbd => "kbd" \notin pending
    BY DEF Init
  <1> QED
    BY <1>1, <1>2 DEF GuessInv, KbdDue

LEMMA GuessStep == WakeInv /\ GuessInv /\ [Next]_vars => GuessInv'
  <1> SUFFICES ASSUME WakeInv, GuessInv, [Next]_vars PROVE GuessInv'
    OBVIOUS
  <1>0. TypeOK /\ Attended
    BY DEF WakeInv
  <1> USE <1>0, BoundsAssumption DEF GuessInv, KbdDue
  <1>1. CASE Hardware
    <2>1. PICK b \in Bytes : Load(b) /\ b.src \in Sources
      <3>1. CASE LoadMouse
        <4>1. PICK e \in BOOLEAN, s \in BOOLEAN : Load(AuxByte(mnext.pkt, mnext.idx, s, e))
          BY <3>1, DomainsAssumption DEF LoadMouse
        <4>2. /\ AuxByte(mnext.pkt, mnext.idx, s, e) \in Bytes
              /\ AuxByte(mnext.pkt, mnext.idx, s, e).src \in Sources
          BY DEF TypeOK, AuxByte, Bytes, Sources
        <4> QED
          BY <4>1, <4>2
      <3>2. CASE KeyCode
        <4>1. Code(kevent.key, kevent.make) \in 0..255
          BY CodeIsByte DEF TypeOK
        <4> QED
          BY <3>2, <4>1, KbdByteType DEF KeyCode
      <3>3. CASE \E k \in PhysKeys, make \in BOOLEAN : KeyEvent(k, make)
        <4>1. PICK k \in PhysKeys, make \in BOOLEAN : KeyEvent(k, make)
          BY <3>3
        <4>2. (IF Wire[k].ext THEN PREFIX ELSE Code(k, make)) \in 0..255
          BY CodeIsByte, DomainsAssumption DEF PREFIX
        <4> QED
          BY <4>1, <4>2, KbdByteType DEF KeyEvent
      <3> QED
        BY <1>1, <3>1, <3>2, <3>3 DEF Hardware
    <2>2. /\ ob.src = "none" /\ ob' = b /\ pending' = pending \cup {b.src}
          /\ UNCHANGED <<msg, pc, garbled, faults, start>>
          /\ b.err => errs' = errs + 1
          /\ ~b.err => errs' = errs
      BY <2>1 DEF Load, Empty, kbdvars, Bytes
    <2>3. errs \in Nat /\ b.err \in BOOLEAN
      BY DEF TypeOK, Bytes
    <2> QED
      BY <2>1, <2>2, <2>3 DEF Sources
  <1>2. CASE Receive
    <2>1. "aux" \notin pending => "kbd" \in pending
      BY <1>2 DEF Receive, TypeOK, Sources
    <2> QED
      BY <1>2, <2>1 DEF Receive, kbdvars
  <1>3. CASE MousePoll \/ KbdPoll
    BY <1>3 DEF MousePoll, KbdPoll, PollAgain, ReadFails, Mismatch, TypeOK, kbdvars
  <1>4. CASE MouseStore \/ MouseDiscard
    <2>1. pc = "mouse" /\ ob.src = "aux" /\ ob' = Empty /\ UNCHANGED <<pending, msg, garbled, faults, errs, start>>
      BY <1>4 DEF MouseStore, MouseDiscard, Take, MouseApply, kbdvars
    <2>2. ob'.src = "none" /\ ob'.err = FALSE
      BY <2>1 DEF Empty
    <2>3. pc' = IF "kbd" \in msg THEN "kbdstat" ELSE "receive"
      BY <1>4 DEF MouseStore, MouseDiscard, MouseApply
    <2> QED
      BY <2>1, <2>2, <2>3
  <1>5. CASE MouseGiveUp
    BY <1>5 DEF MouseGiveUp, MouseApply, kbdvars
  <1>6. CASE KbdCheck
    BY <1>6 DEF KbdCheck, kbdvars
  <1>7. CASE KbdTake
    <2>1. pc = "kbd" /\ ob' = Empty /\ UNCHANGED <<pending, msg, garbled, faults, errs, start>>
      BY <1>7 DEF KbdTake, Take, Keyboard_handle
    <2>2. ob'.src = "none" /\ ob'.err = FALSE
      BY <2>1 DEF Empty
    <2>3. pc' \in {"receive", "done"}
      BY <1>7 DEF KbdTake, Keyboard_handle
    <2> QED
      BY <2>1, <2>2, <2>3
  <1>8. CASE KbdCheckFails
    <2>1. pc' \in {"receive", "done"} /\ UNCHANGED <<errs, start>>
      BY <1>8 DEF KbdCheckFails, Garbage, Keyboard_handle
    <2>2. faults' = 0 => faults = 0 /\ (ob.src = "none" \/ ob.err)
      BY <1>8 DEF KbdCheckFails, TypeOK
    <2>3. pc = "kbdstat"
      BY <1>8 DEF KbdCheckFails
    <2> QED
      BY <2>1, <2>2, <2>3
  <1>9. CASE KbdGiveUp
    <2>1. pc = "kbd" /\ attempts = 0 /\ pc' \in {"receive", "done"} /\ UNCHANGED <<errs, start, faults>>
      BY <1>9 DEF KbdGiveUp, Garbage, Keyboard_handle
    <2>2. ~ServesKbd
      BY <2>1 DEF ServesKbd, TypeOK
    <2>3. start.kbd \/ faults # 0 \/ errs # 0
      BY <2>1, <2>2 DEF Attended, TypeOK
    <2> QED
      BY <2>1, <2>3
  <1>10. CASE UNCHANGED vars
    BY <1>10 DEF vars, kbdvars
  <1> QED
    BY <1>1, <1>2, <1>3, <1>4, <1>5, <1>6, <1>7, <1>8, <1>9, <1>10 DEF Next, Driver

\* Keyboard_handle works on an unread scancode only after a keyboard bit was
\* left over at the start, a port read failed or a byte was damaged.
THEOREM GuessesNeedDamage == Spec => []GuessOnlyAfterDamage
  <1>1. TypeOK /\ GuessInv => GuessOnlyAfterDamage
    BY DEF GuessInv, GuessOnlyAfterDamage, TypeOK
  <1> QED
    BY <1>1, TypeCorrect, WakeInvariant, GuessInit, GuessStep, PTL DEF Spec
=============================================================================
