# Verification of the LCOM project (group T09 G3)

TLA+ models, TLC configurations and TLAPS proofs for the game in `proj/src`: a
single process on MINIX 3 that drives the keyboard, the mouse, the timer, the
real-time clock and the video card by itself, in user space, through interrupt
notifications and port I/O. Everything below refers to the code of this
repository; paths are relative to `proj/src` unless they start with `lab`.

## 1. Inventory

| Component | State | Operations | Interacts with |
|---|---|---|---|
| KBC access, `drivers/kbc.c` | the controller's one-byte output buffer and status | `kbc_read_status`, `kbc_read_outbuff` (up to 8 attempts, 20 ms apart), `kbc_write` | called by both drivers; the buffer is shared by both devices |
| Mouse driver, `drivers/mouse.c` | `bytes[3]`, `current_byte_index`, `packet_ready`, hook id | `mouse_read_packet`, `mouse_packet_ready`, `mouse_get_packet`, `mouse_write_command` and its users | reads through `kbc.c` |
| Keyboard driver, `drivers/keyboard.c` | hook id | `keyboard_read_scancode`, subscribe | reads through `kbc.c` |
| Mouse manager, `input/mouse_manager.c` | position, buttons, previous buttons, cursor frame | `Mouse_handle`, `Mouse_draw` | consumes packets, calls `on_click` of menu elements |
| Keyboard manager, `input/keyboard_manager.c` | `keys[]`, `double_width` | `Keyboard_handle`, `Keyboard_translate`, `Keyboard_is_pressed` | read by the event loop |
| Event loop, `proj.c` | the notification, `skip_frame` | `proj_init`, `proj_main_loop`, `proj_shutdown` | dispatches mouse, keyboard, timer in this order |
| Game state, `gamestate/` | `state`, `current_menu`, two menus | `Gamestate_init`, `Gamestate_change`, the click functions | changed by Escape and by clicks |
| Menus, `ui/`, `aabb/` | a list of elements with position, size, `on_click` | `Menu_create_*`, `Menu_draw`, `AABB_contains` | searched by `Mouse_draw` |
| Graphics, `drivers/gpu.c` | video memory and back buffer | mode set-up, line/pixel/image drawing with clipping, commit and clear | every frame |
| Leaderboard, `leaderboard/` | three entries, a counter, a text file | `Leaderboard_read_file`, `Leaderboard_add_entry`, `Leaderboard_write_file` | read by `Gamestate_init`; the other two only in a commented-out example in `proj.c` |
| Real-time clock, `drivers/rtc.c` | seven CMOS registers | read, display, conversion to and from Unix time | dates of leaderboard entries |
| Timer, `drivers/timer.c` | the i8254 counters | `timer_set_frequency`, `timer_get_conf`, subscribe | 60 interrupts a second; the first two are called by the labs |
| Sprites, `sprite/` | current frame, delay counter | `Sprite_draw`, frame selection | cursor and menu images |
| Linked list, `data_structs/` | nodes | append, remove, lookup | elements of a menu |
| Level screen, `screen/`, `grid/`, `player/`, `assets/` | a grid of cells | not reached from the event loop | - |
| Labs, `lab2` to `lab5` | the exercises' own loops | timed scans, packet counters, drawing tests | earlier versions of the drivers |

**What is hard here.** Nothing in the process is concurrent, but the devices are: a byte
can enter the controller's buffer between any two polls, and the kernel merges
interrupts into bits. Several results are ignored (`mouse_read_packet` and
`keyboard_read_scancode` in the managers), so a failed read silently works on old or
uninitialised data. A byte that is not read blocks *both* devices, as the controller
raises no further interrupt. A click is an edge between two packets that is looked at
only when a frame is drawn. The leaderboard file is emptied before it is written, and a
save that fails is not noticed. The real-time clock changes while its registers are read
one by one. A counter of the timer that was given half of its divisor stands still.
`hazards` in `PROJECT.json` lists these at their lines, with the properties that cover
them.

**What makes the parts correct.**

* Input path: every byte is eventually read, packets are put together from the
  bytes of one packet and applied in order, and `keys[]` is the set of keys held
  down - and, where the code does not achieve this, exactly how far it can fail.
* Event loop and menus: a press acts once and where it was made, quitting is
  final and ends the loop, and frames show the state they were drawn in.
* Leaderboard: the three best entries, in order, across runs of the program, in the
  table and in the menu, each with the date it was made.
* Real-time clock: a read gives a date the clock had or, if it was held up, one that
  is not too early; a read that fails gives none.
* Timer: a call that returns 0 has set the frequency (of a counter that counts in
  binary), and no call changes the mode.
* Linked list: a sequence, with no node lost and no freed node reached.
* Graphics: no write outside the buffer, and the buffer holds the picture that was
  drawn, cut off at the borders.
* Initialisation and shutdown: commands reach the mouse, the states in which the
  event loop starts are known, and a normal end leaves nothing behind.

## 2. Modules

| Module | Contents |
|---|---|
| `KbcInput` | hardware, notifications, `kbc_read_outbuff`, both drivers and both managers up to the application of a packet or a scancode |
| `PacketFeed` | abstract specification of the mouse path: every packet is applied, in order and before the next one is complete, and at most one is repeated |
| `KbcInputProofs` | theorems about `KbcInput` |
| `Game` | event loop, mouse manager, menus, state machine and double buffer |
| `GameProofs` | theorems about `Game` |
| `Lifecycle` | `proj_init` and `proj_shutdown`, the mouse's command protocol and `kbc_write` |
| `LifecycleProofs` | theorems about `Lifecycle` |
| `Drawing` | sprites, the clipping of `drivers/gpu.c` and the exchange of the buffers |
| `DrawingProofs` | theorems about `Drawing` |
| `Leaderboard` | the table, its file and its menu over many runs of the program |
| `LeaderboardProofs` | theorems about `Leaderboard` |
| `EntryDate` | the date of an entry through saves and loads |
| `Rtc` | `rtc_read_date_time` against a running clock, BCD |
| `RtcProofs` | theorems about `Rtc` and `EntryDate` |
| `Timer` | `timer_set_frequency` and `timer_get_conf`, port access by port access |
| `TimerProofs` | theorems about `Timer` |
| `LinkedList` | the list of menu elements on a heap of nodes |
| `ListSpec` | abstract specification of the list: a sequence |
| `LinkedListProofs` | theorems about `LinkedList` |
| `MCKbcInput`, `MCGame`, `MCLifecycle`, `MCDrawing`, `MCLeaderboard`, `MCEntryDate`, `MCRtc`, `MCTimer`, `MCLinkedList` | instances for TLC |

`PROJECT.json` maps each definition to the lines it models. In each module,
operators that end up unused by `Next` and stand right before a similar
definition (`TakeAny` before `Take`, ...) are mutated forms of that definition;
they show that the properties can fail.

### 2.1 KbcInput

*State.* `ob` is the output buffer with its source and error bits; `pending` and
`msg` are the interrupt bits held by the kernel and those being handled; `pc`
and `attempts` say where the driver is. `index`, `bytes`, `ready`,
`double_width` and `keys` are the static variables of the C files. A mouse byte
is identified by the packet it belongs to (modulo `Packets`, at least 3) and its place in it instead
of its value, plus bit 3, the one the driver tests. Scancodes are real numbers,
because `Keyboard_translate` computes with them. The variables marked "history"
record what happened and influence nothing.

*Actions.* `LoadMouse`, `KeyEvent` and `KeyCode` are the devices, with
transmission errors. `Receive` is `driver_receive` and the first test of the
dispatch. `MousePoll`/`KbdPoll` are attempts of `kbc_read_outbuff` that go to
`tickdelay`; `MouseStore`, `MouseDiscard` and `MouseGiveUp` are its three
outcomes inside `Mouse_handle`, each with the application of the packet that
follows in the same call. `KbdCheck`/`KbdCheckFails` are the status check of
`keyboard_read_scancode`, `KbdTake`/`KbdGiveUp` the read behind it, each with the
rest of `Keyboard_handle` and the Escape test. A scancode that was never read is
uninitialised: `Garbage` chooses it from `GarbageCodes`.

*Start.* `proj_init` subscribes the mouse and only then polls for the
acknowledgements of the commands it sends, so the loop starts with a mouse bit
pending whose byte is already gone. `StrayAck` adds the case that a last
acknowledgement is still in the buffer (a command that was retried), `SpuriousKbd`
that a keyboard bit is left over (its byte was taken by a command's read).
`Lifecycle` models how these states come about: `StartOfLoop` is the start without
left-overs, and by `UnreadBound` a left-over takes a read that came too early or
took a foreign byte. `KbcInput` starts with at most one left-over answer; several
(one for each such read) are not modelled there, nor is a start without the pending
mouse bit (no answer at all has reached the buffer by then), which only removes the
one empty wake-up.

*Granularity.* One attempt of the polling loop is one step. A full buffer is
emptied by the driver only, so nothing can change between reading the status and
reading the byte.

### 2.2 Game

*State.* The notification and the handler that runs next, the state machine, the
pointer, the left button in the last two packets, the cursor's shape,
`skip_frame`, and what video memory shows. *Actions:* one per handler, in the
order mouse, keyboard, timer. `Mouse_handle` includes sign extension and
clamping; `Timer_draw` is the whole frame - menu, hit test, click, cursor,
commit. The menus have the real coordinates. Packets and scancodes arrive whole
here: `KbcInput` shows how they come about, and a packet that is applied twice is
a packet with the same contents as the one before.

### 2.3 Lifecycle

*State.* The step of `proj_init` or `proj_shutdown` that runs, what has been
acquired (interrupt policies, graphics mode), where `mouse_write_command` and
`kbc_write` are, both buffers of the controller, the byte its data port gave last,
and the mouse: answers it has not sent, whether it waits for the argument of 0xF3,
its rate, and whether it reports movements. *Actions:* `SystemCall` and `CallFails`
for the steps without a protocol; `EnterCommand`, `WriteBusy`, `WriteByte` and
`ReadAnswer` for a command; `Handle` stands for the event loop, which `KbcInput` and
`Game` model. `mouse_write_command` tests `aknl` before it is assigned;
`EnterCommand` chooses the outcome: if the stack holds 0xFA the command fails without
being written. The answer is read without looking at the status, so with an empty
buffer the read gives the byte read before (`latch`).

### 2.4 Drawing

*State.* Back buffer and video memory as functions from offsets to bytes (one byte a
pixel: `GRAPHICS_MODE` is 105h, "indexed required"), a sprite with its frame and delay
counter, and the call of `Sprite_draw` that is under way. *Actions:* the call, one step
for each row (`gpu_draw_line`, or `gpu_draw_pixel` for each pixel that is not
transparent, with its parameters converted to `uint16_t`), the end of the call with the
animation counters, and commit with clear. Whether a sprite is transparent is chosen at
the start: `Sprite_init` leaves the member unset. `want` is the reference: the picture
computed point by point, without clipping arithmetic.

### 2.5 Leaderboard

*State.* The table, the lines of the file, and whether the program is running,
has the file open, or is stopped. *Actions:* the three functions, with
`Leaderboard_write_file` split where it opens the file (which empties it) and
where it closes it (the three short lines stay in the stdio buffer until then),
and `Stop`, which may happen in between. The results of `fprintf` and `fclose` are
ignored: `Close` is the case that all lines reach the file, `CloseFails` that the
first few do, perhaps with the beginning of one more; `Flush` is what they share, and
writes over what the file holds. Opening for writing may fail too: the function
returns 1 then, has changed nothing, and is a stuttering step. `saved` and `known`
are history: the entries that the file and the table come from. Entries that a short
file lost are unknown to the table read from it (`Surviving`). `spoilt` records that a
line was written that is no entry - an unassigned slot, or a line cut off. Reading stops
after three entries (`Seen`). Slots that were never assigned hold an
arbitrary time and may or may not parse as a line. A run uses the table in one of two
ways: `Gamestate_init` makes the menu of it and ignores whether the file could be
opened - if not, `entry_count` is whatever the memory held (`JunkCounts`) -, and the
example at the end of `proj.c` adds entries and saves, but stops if the file cannot be
read. `Init` is the file present and empty.

### 2.6 EntryDate

*State.* The date in the table, the time stamp in the file, and how often it was read.
*Actions:* `Write` converts with `rtc_date_time_to_unix` and `mktime`, `Read` with
`gmtime` and `unix_to_rtc_date_time`. The library functions are the Gregorian calendar,
external. `mktime` works in local time and `gmtime` in UTC: the model is for a machine
on UTC, elsewhere every load also moves the time by the offset. Any day goes with any
month at the start, because that is what a read across an update can give.

### 2.7 Rtc

*State.* The clock, its update flag, the next register to be read, the local variables,
the caller's struct. *Actions:* the clock announces an update (`Announce`) and makes it
(`Roll`) between any two steps of `rtc_read_date_time`: the test of the flag, one read
for each register, the assignment of the struct. `Fail` is a register access that
fails. Assumed of the clock, as its data sheet says: the flag goes up before an update,
and the update changes all registers together. `window` records what was announced or
happened since the flag was tested; it is how "within 244 microseconds" is stated
without time. `wrapped` records the end of a century, after which the year is 0.

### 2.8 Timer

*State.* Mode, divisor and half-written divisor of a counter, the byte that
`timer_get_conf` got, the next port access. *Actions:* the range check, read-back
command, status, control word, LSB, MSB; `Fail` ends a call at any of them. The control
word stops the counter until both bytes are there (`divisor = NONE`). The divisor is
reduced to 16 bits as in the code. The mode includes the counting base, which the call
keeps: `CountsFrom` is what the counter makes of the two bytes. In BCD every four bits
are a decimal digit, and for one above 9, where the data sheet says nothing, the count
is any of `BadCounts`.

### 2.9 LinkedList

*State.* The allocated nodes with their fields and the head. *Actions:* `Node_append`,
`Node_remove`, and the `exit` of `Node_create` without memory. `malloc` may give any
free address, also one just freed. `Items` is the sequence `List_print` and `Menu_draw`
pass over and the mapping to `ListSpec`.

## 3. Runs

| Run | Checks | Distinct question |
|---|---|---|
| `kbc_faulty` | `TypeOK`, `Attended`, `WholePackets`, `ReplayBound`, `KeysTrackHeld`, `GuessOnlyAfterDamage` | safety of the input path with faults, damaged bytes and both left-overs |
| `kbc_clean` | `FeedSpec`, `MouseServed`, `EscQuits` | refinement of `PacketFeed` and progress on an undamaged line |
| `kbc_resync` | `ResyncBound` | recovery of packet alignment after two lost bytes |
| `game_safety` | `TypeOK`, `NoDragClick`, `OnePressOneChange`, `QuitIsFinal`, `FrameIsCoherent` | safety of the loop, free pointer |
| `game_liveness` | `ScreenFollows`, `PressIsSeen`, `QuitEnds` | progress of the loop |
| `lifecycle` | `CommandsAimed`, `UnreadBound`, `StartOfLoop`, `MouseIsOn`, `RateIsSet`, `CleanExit`, `InitEnds` | start and end of the program, the command protocol |
| `drawing` | `StaysInside`, `PictureIsRight`, `FrameFollowsCalls` | clipping and animation against their references |
| `leaderboard` | `BestKept`, `MenuShowsFile`, `FileKeepsBest`, `JunkNeedsBadSave` | table, file and menu over many runs |
| `entry_date` | `DriftsByYearsOnly` | dates through 32 saves and loads |
| `rtc` | `WholeIfQuick`, `NeverEarly`, `FailureKeepsDate` | reading a clock that runs |
| `timer` | `FrequencyIsSet`, `ModeKept` | programming the counter with failing port accesses |
| `linked_list` | `HeapIsList`, `IsSequence` | memory safety of the list, refinement of `ListSpec` |

The type invariants of `Lifecycle`, `Drawing`, `Rtc` and `Timer` are proved (section 4)
and not checked again by runs.

What they show:

* **No wake-up is lost for the mouse** (`Attended`, `MouseServed`). A keyboard
  byte can be abandoned, but only if it has an error bit or a port read failed;
  it then stays in the buffer and input stops for good. The property states this
  exception because the code has it (`keyboard_read_scancode` returns before it
  reads).
* **Packets are never mixed** while no byte is lost (`WholePackets`), although the
  driver polls a buffer that may hold the other device's byte.
* **The empty wake-up of the start is never multiplied** (`ReplayBound`): a mouse
  byte that arrives while the driver still polls for the missing one consumes its
  wake-up, and its own interrupt becomes the empty one; so it can be passed along
  for a long time, but only one call ever finds nothing, and at most one packet is
  applied twice.
* **On an undamaged line every packet moves the pointer, in order** (`FeedSpec`), and
  before the mouse has completed the next one. `PacketFeed` refuses everything else: a
  packet that was skipped blocks the next `Send`, and one applied early or out of turn
  has a number that no action gives it.
* **Alignment recovers** (`ResyncBound`) if movement bytes have bit 3 clear. With
  bit 3 set in movement bytes this is not guaranteed, and not claimed.
* **`keys[]` follows the keys** unless a scancode was used that was never read
  (`KeysTrackHeld`), and that takes damage or a left-over bit
  (`GuessOnlyAfterDamage`).
* **One press, one change** (`OnePressOneChange`): `on_click` is called on every
  frame until the next packet. This is harmless with the present menus because
  no clickable element of the leaderboard changes the state; its mutant shows that
  moving the button over "quit" would be enough to break it.
* **A press can be missed** if a second packet comes before the next frame;
  `PressIsSeen` states what is guaranteed: a press on "quit" ends the game unless a
  packet overtakes it.
* **The command protocol leaves answers behind, but no more than its misreads**
  (`UnreadBound`), and whatever it mistakes for an acknowledgement, the commands
  themselves are written in order: in the event loop the mouse is on (`MouseIsOn`)
  and, if nothing was repeated, has the right rate (`RateIsSet`). A repeated 0xF3
  may become its own argument; the exception in `RateIsSet` is real.
* **A run that returns 0 leaves nothing behind** (`CleanExit`). A run that returns 1
  may: a mouse that does not acknowledge 0xF5 leaves all policies set and the screen
  in graphics mode, because `proj_shutdown` returns at once.
* **Clipping is exact** (`StaysInside`, `PictureIsRight`): also for a line that begins at
  the right border or ends just before the left one, which `gpu_draw_line` does not
  reject but copies with length 0.
* **A table saved with fewer than three entries** brings unassigned slots into the
  next table (`Leaderboard_write_file` always writes three lines), and so may a line that
  was cut off. `BestKept` and `FileKeepsBest` hold until that happens, and
  `JunkNeedsBadSave` says that nothing else can cause it.
* **A save that fails costs the worst entries only** (`FileKeepsBest`): the lines that
  reached the file are the best of the table, in order, because it is sorted and written
  from the front, and never lines of an older table behind them, because opening emptied
  the file; the mutant that opens without emptying breaks this. A stop between opening
  and closing loses everything.
* **The menu shows the file** (`MenuShowsFile`), if it could be opened. If not, the menu
  is made of uninitialised memory; the exception in the property is real.
* **Dates move by 2000 years** with every load after the first (`DriftsByYearsOnly`):
  the conversions use different origins for the year. Day and month are never
  disturbed, the 29th of February included, since 2000 years are a multiple of the
  calendar's period.
* **A slow read of the clock mixes dates, but is never early** (`WholeIfQuick`,
  `NeverEarly`). The order in which the registers are read is what does it: the mutant
  that reads the year first gives dates up to a year too early.
* **No divisor is cut off** (`FrequencyIsSet`) if the counter counts in binary, as MINIX
  programs it: 19 is the lowest frequency whose divisor
  has 16 bits, and 18 would set a wrong one and return 0. A call that fails between its
  writes leaves the counter standing, and the next call brings it back in its old mode
  (`ModeKept`), because the read-back takes the mode from the control word already set. On a
  counter in BCD the base is kept too, but the divisor is written in binary: the call
  returns 0 and the counter counts from something else, so nothing is claimed of it.
* **The list is a sequence** (`IsSequence`) **without dangling pointers or lost nodes**
  (`HeapIsList`), whatever addresses `malloc` gives.

### Bounds

* `ATTEMPTS = 2`, `MaxFault = 1`: the code has 8 attempts; what matters is that
  there are more attempts than failing reads, which is an assumption of the module
  and of the theorems. The theorems hold for every such pair.
* `MaxErr = 1` (2 for `kbc_resync`), with the errors on any byte. The number of
  bytes, packets and key events is unbounded.
* `MaxCount` saturates the history counters; it is above every value the
  properties compare with (`replays <= 1 + 3 * lost` needs up to 7, `MaxCount` is
  11 there).
* `PhysKeys = {ESC, UP}`: a plain and an extended key; `GarbageCodes` has a code
  for Escape, for a letter, for the base of an arrow key and the prefix. In
  `kbc_clean` an unread scancode is not Escape, so that the loop does not end by
  accident.
* `Packets = 3`: at most one packet is on its way, so the numbers of the last one, of the
  one on its way and of the one after it differ. With two numbers a skipped packet would
  go unnoticed. The theorems hold for every number from 3 on.
* `Game`: the real 1024 x 768 screen. Steps of 255 and 165 reach 10 x 10
  positions inside, between and beside all buttons and at all four borders; the
  liveness run moves right and down only, 6 x 6 positions, still over all buttons.
* `Lifecycle`: three attempts instead of 20 (one that succeeds late, one that runs
  out), one failing call, one refused byte, two bytes of noise. `LAST` lets the data
  port hold an acknowledgement from before the program started.
* `Drawing`: 3 x 2 pixels, frames of 2 x 2 and 1 x 1 from a 3 x 2 sheet with a
  transparent pixel, all positions that touch the screen and one more on every side,
  two sprites between two exchanges, `delay = 1`.
* `Leaderboard`: `MaxAdds = 5`, two more than there are slots, with three times so
  that ties occur; any number of runs, saves and stops, and
  saves that fail after any number of lines, with and without a line cut off. An unassigned `entry_count` is
  0, full, just above or the largest.
* `EntryDate`: all days and months, seven years (leap, not leap, both ends of the
  century), 32 loads: with the 33rd the year passes 65535 and wraps.
* `Rtc`: three updates, enough to change every register and once more, from seven dates
  just before several registers change together.
* `Timer`: the exact `TIMER_FREQ`, frequencies on both sides of both limits, all 16
  modes, that is eight in each counting base, a zero and another count for wrong digits;
  three failing accesses, so that a repeated call can fail too.
* `LinkedList`: four nodes, two values: equal values at the head, inside and at the end.

### Deadlock

The runs of `KbcInput`, `Game`, `Lifecycle`, `EntryDate` and `LinkedList` do not check for
deadlock: the program really stops (`done`, `shutdown`, a value of `res`, `exit`, the last
load), and an abandoned keyboard byte really leaves all
parties waiting; `Attended` states when this may happen.

### Fairness

`WF(Driver)`, `WF(Loop)` and `WF(Work)`: MINIX schedules a ready process. `WF(Tick)`: the
timer runs freely at 60 Hz. Nothing is assumed of the user, the mouse or the
keyboard, and in `Lifecycle` nothing of the controller either: `InitEnds` holds if it
never answers. `EscQuits` and `MouseServed` start from a byte that is already in the
buffer.

## 4. Proofs

`tlapm` checks all of them. Assumptions are the named `ASSUME`s of the modules:
in particular `MaxFault < ATTEMPTS` (fewer failing port reads than attempts).

`KbcInputProofs`, for every number of attempts, faults, errors, every set of keys
and of garbage:

| Theorem | Property |
|---|---|
| `TypeCorrect` | `TypeOK` |
| `NoLostWakeUp` | `Attended` |
| `PacketsAreWhole` | `WholePackets` |
| `ReplaysAreBounded` | `ReplayBound` |
| `LossesAreBounded` | `ResyncBound`, if movement bytes have bit 3 clear |
| `MouseImplementsFeed` | `FeedSpec`, without errors and left-over acknowledgement |
| `KeysAreHeldKeys` | `KeysTrackHeld` |
| `GuessesNeedDamage` | `GuessOnlyAfterDamage` |

*Argument.* None of the properties is inductive. `WakeInv` counts mouse wake-ups
as tokens: a pending mouse bit and a running mouse handler are one each, a mouse
byte in the buffer needs one, and there is exactly one more at the start; a call
that reads nothing uses it up. Hence the bound on empty calls and, as a handler
has more attempts than reads can fail, that no byte is left without a handler.
`StreamInv` adds that, while nothing is lost, the byte in the buffer is the one
that `index` expects and the bytes before it are those of the same packet
(alignment). `ResyncInv` is about a stream that is not aligned: it adds to what
has been spoilt what still will be - the packet under way, unless it is `Sound`, and
the bytes that will be skipped before the next first byte while the old packet is
still `ready` (`Skips`) - and says that the losses pay for the sum, each for one mixed
packet and three repetitions. A skipped byte moves a repetition from one part of the
sum to the other, a completed packet a mixture; only a loss adds to it. `KeyInv` relates
`keys[]` and `double_width` to the key event under
way: no byte, prefix in the buffer, prefix read, code in the buffer. `GuessInv`
says that a keyboard bit has a byte behind it unless something was damaged.
`CleanInv` puts these together for the refinement, whose mapping is
`next <- mnext.pkt`, `last <- applied`, `repeats <- replays`: the mouse's last byte of a
packet (`LoadMouse`) is `Send`, storing it (`MouseStore`) is `Deliver`, the empty call
(`MouseGiveUp`) is `Redeliver`, and every other step stutters. That `Send` is allowed
needs the alignment of `StreamInv`: the mouse can start its next packet only when the
byte before has been taken, and with it the packet applied.

`GameProofs`, for every resolution and every set of movements:
`GameTypeCorrect` (the pointer stays on the screen), `ClicksAreNotDragged`,
`OneChangePerPress`, `QuitStays` and `FramesAreCoherent` (`FrameIsCoherent`). The invariant
`GameInv` adds to the types that
the current menu is the one of the state while the game is in a menu (`MenuInv`)
and that a change by a click during the current press has led to the leaderboard
or to quitting, while an edge in the buttons means that the pointer has not moved
since the press (`PressInv`).

`DrawingProofs`, for every resolution, sheet, set of frames inside the sheet, delay and
position: `DrawingTypeCorrect`, `DrawingStaysInside` (memory safety of drawing),
`FramesInTurn` (`FrameFollowsCalls`) and `PicturesAreRight` (`PictureIsRight`). `DrawInv` is
the type invariant with `StaysInside`; the work is in
`LineSafe` and `PixelSafe`, which show that what `gpu_draw_line` and `gpu_draw_pixel` do
not reject fits into a table of rows (`RowFits`, `PlaceFits`), and in `FrameStep`, the
three cases of the counters. `PictureInv` is the invariant of a call under way: the rows
of the frame above `row` are in the buffer, everything else is as it was before the call;
`LineEffect` and `PixelsEffect` give the buffer after a row, offset by offset, and
`OverlayAt` the reference. The theorem has the hypothesis `PositionsFit`: the position is
one from which the conversion to `uint16_t` brings no pixel from outside back onto the
screen, that is no further than 65536 less the resolution to the left of or above it and
no further than 65536 to the right or below. Every position the game uses is of that kind.

`LeaderboardProofs`, for every set of times, any number of additions, saves, failing
saves, loads and stops: `BestAreKept` (`BestKept`), `MenuIsFromFile` (`MenuShowsFile`),
`FailedSavesKeepBest` (`FileKeepsBest`) and `JunkComesFromBadSaves`
(`JunkNeedsBadSave`). `BestKept` counts, for every entry, how many are before it; the
invariant does not count: a table is `Ranked` if its entries are in order and everything
else that was added is behind the last of a full table. `Leaderboard_add_entry` keeps a
table `Ranked`, and `RankedIsBest` derives the counts. The file is a `Prefix` of such a
table with respect to what was saved: `FlushStep` shows it of every save, whole or not,
`PrefixPlaces` derives the counts, and `RankedPrefix` that what is read back is `Ranked`
again, with respect to the entries that survived.

`LinkedListProofs`, for every finite set of addresses and every set of values:
`HeapStaysList` (`HeapIsList`) and `ListIsSequence` (the refinement of `ListSpec`). The
invariant is that a sequence of distinct nodes names all of the heap in order (`Chained`);
an append makes it longer by the new node, a removal leaves one node out. `StepFollows`
ties it to the model's recursive function `Step`: the function has exactly one solution,
because two solutions would differ at a smallest number (`Smallest`). Induction is done
through smallest elements throughout, as the provers cannot instantiate the library's
induction rules.

`LifecycleProofs`, for every number of attempts and any number of failing calls, refused
bytes and bytes of noise: `LifecycleTypeCorrect`, `CommandsReachTheMouse`
(`CommandsAimed`), `AnswersAreRead` (`UnreadBound`), `LoopStartsClean` (`StartOfLoop`),
`MouseReports` (`MouseIsOn`), `SampleRateIsSet` (`RateIsSet`), `ExitIsClean`
(`CleanExit`). The properties speak of the event loop or the end only; the invariant says
at every position of the script how far the commands are. `Aiming`: a command byte in the
input buffer comes after 0xD4. `Counting`: each command is followed by one read, so an
answer too many was misread. `Starting`: until the loop's first notification the kernel
keeps every bit. `Commanding` and `Rating`: a command may still lie in the input buffer
when the next step begins, as its acknowledgement may have been something else, but
`kbc_write` does not overwrite it, so it is carried out before the next one is written.
`Holding`: what the program has taken is given by the position.

`RtcProofs`, for every start date, any number of updates and failures: `RtcTypeCorrect`,
`QuickReadsAreWhole` (`WholeIfQuick`), `ReadsAreNeverEarly` (`NeverEarly`) and
`FailuresKeepTheDate` (`FailureKeepsDate`). The second needs an invariant about reads
under way: at every moment the registers read so far, completed by those the clock has
now (`Mixed`), are a date not before the one at the start. An update makes the upper
registers only later, or leaves them and changes lower ones that may have been read
already; a read moves one register from the clock to the local variables and changes
nothing of the mixture.

The same module has `DatesDriftByYears` (`DriftsByYearsOnly`) about
`EntryDate`, for every set of years of the century and up to 32 loads (with the 33rd the
year leaves its 16 bits). The calendar repeats after 400 years, so that day and month of a
time stamp do not depend on how often 2000 years were added; the year `gmtime` guesses by
division is wrong by one at most (`GuessIsClose`), and within a year the place of a day
determines its month (`PlaceInYear`). `RoundTrip` puts these together: `gmtime` after
`mktime` is the identity on the dates the calendar has, and `Corrected` says what it makes
of the others.

`TimerProofs`, for every frequency of the timer below 19 * 65536 and every set of
arguments: `TimerTypeCorrect`, `FrequencyIsProgrammed` (`FrequencyIsSet`), `ModeIsKept`
(`ModeKept`) and `StopNeedsFailure` (the counter stands still only during a call or after
one that returned 1). The invariant follows the bytes of the divisor, and the count
they make in binary; the arithmetic is in `QuotientFits`, and `CountsFromType` covers the
other base.

*Only model-checked:* everything under fairness (`MouseServed`, `EscQuits`,
`ScreenFollows`, `PressIsSeen`, `QuitEnds`, `InitEnds`), which is out of the prover's
reach. Every invariant and every action property of a run, and both refinements, are
proved.

## 5. Not modelled

* `mouse_read_response`, `mouse_stream_mode_command`, `keyboard_enable_interrupts`,
  `kbc_ih`: no caller in the game.
* `gpu_draw_rect`, `aux_draw_xpm`, `aux_clear`: no caller in the game. Modes with more
  than one byte a pixel: `gpu_draw_line` moves its source by pixels, not bytes, and
  the project configures the indexed mode.
* `Sprite_draw` for a missing or invalid image: it draws nothing.
* `GS_LEVEL`, the level screen (`screen/`, `grid/`, `player/`,
  `assets/assets_manager.c`): `grid_init` and `screen_init` have no caller, the level
  files `grid_init` reads are not in the repository, and `player.c` refers to variables
  that no file defines. There is no behaviour to be faithful to.
* `rtc_test_conf`, `rtc_display_date_time`, `timer_display_conf`: they print.
  `rtc_display_date_time`, which has no caller, takes the day of the week as an index
  into its names; `rtc.h` says the register counts from 1.
* `lab2` to `lab5`: course exercises. Labs 2, 3 and 5 name the tick counter `counter`, which
  `drivers/timer.c` calls `timer_counter`, so they do not build against the drivers of
  this commit. The driver functions they share with the game are modelled.
* The alphabet sheet: image data.
* The MINIX headers in `.minix-src`: not part of the program.
* Buttons other than the left one: read by nothing.
* `Leaderboard_write_file` on a file that cannot be opened: it changes nothing.
* LCF functions, VBE calls, XPM loading: external.

## 6. What could follow

1. `KbcInput` from every start state of `Lifecycle` (several left-over answers).
2. `PictureIsRight` at positions outside `PositionsFit`, where pixels wrap: a statement of
   what the conversion to `uint16_t` then draws.
3. The level screen, once the game enters it.
