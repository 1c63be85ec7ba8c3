# Android Remote Server: a formal model

Android Remote Server lets a phone be watched and controlled over the network.
A Java application starts, watches and stops two servers: a native VNC server,
`androidvncserver` (fbvncserver and a modified libvncserver 0.9.7), which runs
as root in a process of its own, and a *management server*, a Java thread that
answers queries about the phone. This directory holds TLA+ modules translated
from that code, the TLC configurations that check small instances of them, and
theorems about them that TLAPS proves for instances of every size.

Paths below are relative to `src/`; Java files without a path are in
`src/org/uoc/androidremote/server/`, C files in `jni/vnc/`, and "the library"
is `jni/vnc/LibVNCServer-0.9.7/libvncserver/`.

## 1. Inventory

| Component | Code | State | Operations |
|---|---|---|---|
| Service and watchdog | `ServersControllerService`, `ServersWatchDog`, `VncServerWrapper` | the wishes and ports of the watchdog, the wrapper's port and scale, `cachedVncRunning`, `cachedMngRunning`, `mClient`, `mngServer` | messages START, STOP, GET; intents with init and stop extras; a tick of the Timer; `tryStart…`, `tryStop…`, `send…Reply` |
| Native server, seen from Java | `su` shells, `ps`, `killall` | the processes named androidvncserver | launch, kill, look |
| Management server | `ManagementServer` | one object, thread and socket per server; `keepListening` | `run`, `stopListening`, accept and serve one client at a time |
| Activity | `ServersControllerActivity` | what it shows: running or not, and the ports | bind, buttons, replies |
| Screen capture | `update_screen.c`, `fbvncserver.c` | the mapped framebuffer, `cmpbuf`, `vncbuf`, the static loop indices, `rotation` | one pass per turn of the main loop; `rotate` |
| Input injection | `fbvncserver.c`, `suinput.c` | static button flags, what is down on the uinput device | `ptrevent`, `keyevent` |
| Event loop of the library | `main.c`, `sockets.c`, `rfbserver.c` | list of clients, `pointerClient`, sockets | accept, read a message, close, free |
| Http server of the library | `httpd.c`; browsers on the other end | `httpSock`, the one connection that is served; `buf`; the page and its variables | listen, check, read a request, answer, close |
| Handshake of the library | `rfbserver.c`, `auth.c`, `sockets.c`; `libvncclient` on the other end | the state, version and socket of each client; the screen's options | version, security type, challenge, response, shared flag |
| Notifications | `LocalSocketServer`, `Utils`, `send_remote_msg` | one Android notification, one abstract socket | connect, disconnect, cut text |
| Installation and life cycle | `AppServer`, `BootReceiver`, `onDestroy` | first-run preference, the installed binary | first run, upgrade, boot, destroy |
| Updates of the library | `rfbserver.c`, `main.c`, `cursor.c`, `scale.c` | modified, requested and copied regions of each client, scaled screens | mark, schedule a copy, request, defer, send |
| Region algebra | `rfbregion.c` | lists of spans that hold lists of spans | or, and, subtract, offset, pop, iterate |
| Pixel translation | `translate.c`, `tableinit*.c`, `tabletrans*.c`; `rotate` of fbvncserver | the screen's format, the table of each client | a client asks for a format, F4 announces a new frame |
| Encodings | `hextile.c`, `rre.c`, `corre.c`, `zrle*.c`, `tight.c`, and their decoders in `libvncclient` | what hextile remembers from tile to tile; Tight's palette | split a rectangle, encode it |
| Codecs and crypto | `minilzo.c`, `d3des.c`, `jni/jpeg` | the row buffers of the jpeg library, which wrap around | rows in and out, in calls that may stop anywhere; compression, DES |

How they interact. The activity sends messages to the service and receives
replies, both on the looper thread of the one Java process. The watchdog's
Timer thread calls the same methods of the service as the looper does, with no
lock around them; the only monitors are those inside the watchdog's setters
and getters. Service and native process know of each other only through
`su` shells (launch, `killall`) and the output of `ps`. The native process is
single-threaded: its main loop waits in `rfbProcessEvents`, which calls
`ptrevent` and `keyevent` back, and then runs `update_screen`. It reports
clients to Java through a local socket.

What is hard, and what would make each component right:

* *Service.* Two threads check and act on the same servers; the shells act
  later than both; the Java process may die between any two steps.
  Right means: the servers run as last asked in the end; nothing starts or
  stops them unasked; a healthy one is left alone; what the service and the
  activity believe is what is.
* *Management server.* A `Thread` can be started once; its fields are read
  twice; sockets are bound, and closed, by different threads.
  Right means: a wanted server serves, a stopped one leaves no socket open.
* *Screen.* Page flips and turns between passes; the box of changes has to
  cover what changed. Right means: the frame shows the screen once it rests.
* *Input.* Clients that interleave, that disconnect while a button is
  down; scancodes shared by keys and buttons. Right means: the pointer is a
  lock, nothing stays down that no event would release.
* *Handshake.* Which message comes next depends on two version numbers, the
  password and three options; the server is one thread, and waits in it for the
  rest of a message. Right means: both ends read what the other wrote, nobody
  is served unproved, and one that stalls does not keep the others out.
* *Http server.* One connection and one buffer for all browsers, served between the
  messages of the viewers. Right means: whoever asks is answered, with the whole of
  what he asked for.
* *Updates.* A pixel that changed is in one of three regions until it is sent;
  a copy that waits reads pixels that go on changing. Right means: no change is
  forgotten, and no viewer shows what the screen never showed.
* *Regions, rectangles, encodings.* Lists that are spliced while they are walked,
  a count that is announced by other code than what sends, memories at two ends,
  rows that are needed after the buffer has moved on.
  Right means: what arrives is what was sent, in the room laid out for it.
* *Pixel translation.* A table is built from the screen's format of one moment and
  used at another; byte orders, shifts and numbers of shades differ at the two ends.
  Right means: a viewer shows each colour by the nearest one that it has.
* *Notifications and life cycle.* Two processes that end independently, one
  notification for two kinds of clients, a message that a process may leave
  half sent, an installation that is recorded before it is done. Right means:
  the notice is true, nothing leaks while somebody listens, and the binary
  is the one of the package.

## 2. The modules

| Module | What it is |
|---|---|
| `VncControl` | the VNC half of the service: looper and Timer threads, shells, processes, the activity |
| `MCVncControl` | the same for TLC, with the symmetry of processes and shells; the service may begin next to a native server that outlived the last one |
| `VncServerProofs` | theorems about `VncControl`, and about `Input` inside the process that it controls |
| `MCVncSettles` | `VncControl` with the three scenarios in which it has to settle |
| `MngControl`, `MCMngControl`, `MngControlProofs` | the management half, with the thread of each `ManagementServer` |
| `Screen`, `ScreenProofs` | `update_screen`, `rotate` and `transform_touch_coordinates` against a screen that Android draws on |
| `PointerLock` | abstract: what the library promises of the pointer that clients share |
| `Input` | the event loop, `ptrevent` and `keyevent`; implements `PointerLock` |
| `Handshake` | a client of the library from its connection to its first update, and the viewer of `libvncclient` |
| `Httpd`, `MCHttpd` | the http server, and browsers that ask, wait, send half a request or leave |
| `MCEventLoop` | `Handshake` and `Httpd` for TLC: what the library's one thread serves |
| `EventLoopProofs` | theorems about `Handshake` and about `Httpd` |
| `ScreenMirror` | abstract: a viewer may be late, but shows nothing that the server did not show |
| `RfbUpdates`, `MCRfbUpdates`, `RfbUpdatesProofs` | the regions of each client, scheduled copies, deferral; implements `ScreenMirror` |
| `Regions` | the span lists of `rfbregion.c` |
| `Rectangles`, `RectanglesProofs` | how an update is cut into rectangles, and how many are announced |
| `Encodings`, `Tight` | hextile, RRE, CoRRE, ZRLE and Tight, encoder and decoder |
| `JpegRows`, `JpegRowsProofs` | the row buffers of the jpeg library, on either side |
| `PixelFormats`, `MCPixelFormats` | formats of pixels, the tables between them, and what F4 does to both |
| `MCServerParts` | `Input`, `Regions`, `Rectangles`, `PixelFormats`, `Encodings`, `Tight` and `JpegRows` for TLC |
| `AppProcess`, `AppProcessProofs` | first run, upgrades, kills, the messages of the native server, the notification and the loop of `ManagementServer` |

### VncControl

A thread's position is `pc[t]`; a step ends where the code reads or writes
state that the other thread shares. `ServiceTakes` is the looper taking a
message up to the first such access; `SetWish`, `SetPort`, `SetScale` are the
assignments of `setToRestartVnc`, one by one, because `held`, the monitor, is
that of the very object that the first of them replaces; `Tick`, `TickPort`,
`TickScale` read the arguments of `tryStartVnc` as the Timer thread does,
without a monitor. `StartCheck … StartWait` and `StopCheck … StopWait` are
`tryStartVnc` and `tryStopVnc`, for either thread, and `ReplyRead`,
`ReplySend`, `ReplyCache` are `sendVncReply`. `initVnc` starts first and tells
the watchdog after; the button does the opposite: `Finish` and `SetScale` hold
that difference. A shell that was handed a command is a record in `shell`, and
acts in a step of its own; `StartWait` and `StopWait` may see its effect or
give up, as the bounded polls of the code do. Java fields that are not volatile
are taken to be sequentially consistent: a real device may show more
behaviours, never fewer.

Faults are a set of kinds with a budget: the process ends by itself
("exit"), loses its sockets as F11 makes it ("deaf"), finds its port taken
("busy"), `ps`, `su` or `killall` cannot be run ("exec"), the Java process is
killed ("java"). `START_STICKY` brings the service back with a null intent.
`wanted` is a history variable: what the last handled request asked for.

"Stop all" is `PressFinish`, and with it `onDestroy`: the activity unbinds, `ticking` becomes
FALSE, since the timer is cancelled, but a tick that has begun goes on. `Destroying`
tells this caller of `stopVncServer` from the others: its exception is caught nowhere
(`DestroyThrows`), and what follows it is `SystemExit`. Without a service nothing has to
happen: the MC modules add `Resting` for that.

### MngControl

The server is a Java object here, so the steps are finer: `Look` and
`LookKeep` are the two reads of `mngServer` in `isMngRunning`, `Get`, `GetNew`
and `GetRef` the reads and the write of `getMngServer`, and `by[t]` is the
caller a shared method returns to. Each exception that no thread catches is an
action of its own (`LookThrows`, `GetThrows`, `StartThrows`, `StopThrows`,
`BindThrows`) and ends the process, after which `Restart` is the state of
`Init`. The request FINISH is `onDestroy`: `Finishing` from when it is posted, and `Stopped`
leads to `SystemExit`, which ends every server thread with the process. The life of a
server is that of its thread: "new", "started", "bound", "loop", "accept", "serving",
"dead". Composing a reply asks for the port, and
thereby creates a server object if there is none; that is kept, the message
itself is left out, since `VncControl` has the same protocol. An object that
nothing refers to is reused as a new one (`Unused`), the garbage collector's
part; without that the identities would run out.

### Screen

`update_screen` is one action, since nothing in the process runs beside it;
Android, which draws between passes, is `Draw` and `Flip`. The loop indices are
static: `Stale(y)` is the `i` with which the offsets of row `y` are computed, the
one that the previous row, or the last pass, left. Elements outside of
`cmpbuf` that the turned frames compare have unknown contents, so whether
they count as changed is a free choice (`spurious`). Writing them corrupts the
heap; that effect is outside of the model.

`transform_touch_coordinates` turns a viewer's pointer back, from the frame to the
range of the device that `suinput.c` declares; `Touched` is what Android makes of it, and
`FrameAt` where the frame has a pixel. `TouchesWhatIsShown` puts the three together, for the
rotations that F4 leads to.

### Input and PointerLock

A step is one message of one client, as the single-threaded library handles
it. A connection that closes only marks the client; its record is freed when
`rfbProcessEvents` goes through its list, after `rfbCheckFds` returned: `turn`
says which of the two comes next. `ptrevent`'s flags are one set `clicked`, the device one
set `down`. `PointerLock` knows only who owns the pointer and whether a finger
is down; `Input` implements it under `owner <- pointerClient`,
`touching <- "touch" \in down`.

### Handshake

`state`, `sock` and `minor` are fields of `rfbClientRec`, `at` and `uses` the place in
`InitialiseRFBConnection` and the version that the viewer settled on. A message
is a field and its value; a side that reads takes the field its own state expects, so
ends that disagree are visible (`Framed`). `half` is a message of which the peer has sent
a part: the server then waits in `rfbReadExactTimeout` (`WaitForRest`), as the
one thread it is, until the rest comes, the peer closes, or the time is over
(`GivesUp`). A closed client keeps its record until the turn of the list,
`rfbClientConnectionGone`. Options that the library has and fbvncserver does not
set are in `MCConfigs` next to the two that it runs with.

### Httpd

`tcp[b]` is the connection of a browser: what of its request is sent and not yet read
(`unread`: the first piece, the last one), what it was answered. `Select` and the
reading and accepting after it are two steps, because a browser may act in between; what
`select` found is `selected`. `httpProcessInput` reads all there is and forgets it when
it is not yet a whole request. A newcomer takes the place of whoever is served (`Accept`).
`Body` writes a file piece by piece, with the variables of a page replaced in each:
`AnswersAreWhole` compares with `Meaning`, which reads symbol by symbol. File names and
parameters are model values; a parameter is well formed, malformed or too long.

### RfbUpdates and ScreenMirror

Regions are sets of pixels here; that the lists of `rfbregion.c` are such sets is
what `RegionsHold` checks. `modified`, `requested` and `copy` are the three regions of
`rfbClientRec`, `delta` the vector of the copy, `deferring` the running timer of
`rfbUpdateClient`. `view` is the viewer's frame and `area` its size, as
`CopyRectangle` and the update handlers of `libvncclient` leave them; `lost` are pixels
of a fresh frame that no update has reached. `rfbSendFramebufferUpdate` is one action
with its early returns: a new size alone, nothing, or copies first and pixels
after. An update of too many rectangles is sent as its bounding box: here any
update may be, a choice that covers the real limit. The cursor is drawn into
the picture for viewers that do not draw it themselves, and taken out after.
`ScreenMirror` knows only a picture and a view; `Mirror(c)` maps each client to it.

### Regions, Rectangles, Encodings, Tight

These are pure functions, with a small state around them so that TLC composes calls.
`Regions` keeps the list walks: a loop that stands in a list splits it into what
is done and what is to come, and each branch of the C loop is a branch of
`OrFrom`, `AndFrom`, `SubtractFrom`. `Rectangles` has the announcing and the sending
of `rfbSendFramebufferUpdate` apart, as the code has them: `CodedRects` counts with
the formulas, `SendRect` cuts. `rfbScaledCorrection` multiplies by the scale, a double,
before it rounds: with `-s 29` a screen 800 wide has a scale of 0.29, column 100 becomes
28.999999999999996, and the rectangle begins at 28, one column before 29. The rounding is
therefore a choice wherever the exact quotient is a whole number (`Floors`, `Ceils`), one
for each rectangle of an update, the same when it is counted and when it is sent; it
also allows what a scale that a double holds exactly would not do. `UpdateIsWhole`
asks that no pixel be missing, and on a scaled screen that those beyond the region at
least border on it. The loops of `tight.c` are functions of what they have
come to: `best` of the bands that `FindBestSolidArea` has passed, and `from` of a rectangle
and the rows of it that were looked at, which `rfbSendRectEncodingTight` calls again
for what lies around a solid area (`FromBand`, `Around`). `Encodings` and `Tight` write a message as units, a byte or
a whole pixel, with its length in bytes; the decoder starts from a picture of
`Undefined` pixels, and hextile's background and foreground are kept on either side.
`MCServerParts` runs them one beside the other, since in the code each works on
what the one before it has finished; `Input` and `PixelFormats`, which share nothing
with them, are two more parts of that run.

### PixelFormats

The values of a table follow from the two formats that it was built from and from nothing
else, so `translation[c]` is these two and which kind of table it is; `Cell`, `SingleEntry`
and `CellByte` give an entry when it is looked up, with the screen's format of that
moment (`LookedUp`), as the translating functions do. What C leaves undefined, the quotient of
a division by 0 or a byte behind a table, is `Garbage`; `DivisionTrap` is the processor that
stops there instead. `decodes[c]` is what the viewer takes the pixels to have, and `stale` a
history: who has not asked for a format since F4. `ColoursAreNearest` is about the others;
`ColoursArrive`, about all, is what F4 breaks. A table of three bytes to a pixel is left out
of `ColoursAreNearest` (`Bytewise`, see the further traces).

### JpegRows

A Tight rectangle with a picture in it may go as jpeg; all that depends on the order of
events there is which rows are in which buffer. A row of samples is its number, so that
`RowsInPlace` can say which row the code hands to the filters, and which ones it takes
for its neighbours. `writer` and `reader` have the fields of `jcprepct.c`, `jcmainct.c`,
`jdmainct.c` and `jdsample.c`; a call is given any number of rows of `Room`, and the
compressor, or the source, may stop at any iMCU row. libvncserver hands over one row at a
time and never stops; the library promises more. `pre_process` and
`process_data_simple_main` are loops, written as functions of the number of rounds:
`Preprocessed` and `Compressed` are one round, which changes nothing once the loop is left.
A round of `pre_process` that is not the last makes a row group, so `DCTSIZE + 1` rounds
are all there are; `could` is how many iMCU rows the compressor can write in this call.

### AppProcess

`package`, `lastRun` and `binary` are the versions of the package, of the
preference "last_run" and of the file that is run; `app` is where `AppServer` has come to.
`isFirstRun` commits the preference before `copyBinary` copies, and
`createBinary` kills the old server after that. `send_remote_msg` is two steps, connect
and send, because Java may read, or end, in between. `inbox` are the connections at the
local socket, and "nothing" one on which no byte has come. `notice` is the one
notification that `LocalSocketServer` and `ManagementServer` both write. `Falls` is the
end of the Java process, by an exception or from outside: its sockets go, the
notification and the native server stay.

## 3. The runs

| Run | Expected | Question |
|---|---|---|
| `vnc_unasked` | pass | With every kind of request, "Stop all", and every fault: does a drained switch stay off, or on, and is a healthy server left alone? |
| `vnc_settles` | pass | Do process and cache end up as the buttons last asked, as buttons and intents last asked although the process may end by itself, and after "Stop all" and a new start? |
| `mng_safety` | pass | Does nothing start a management server unasked, and is a healthy one left alone, with both kinds of start, HALT, "Stop all", polls, clients and every fault? |
| `mng_converges` | pass | Is it running in the end as last asked? |
| `mng_twice` | violation | Does a wanted server serve in the end? |
| `screen_all` | pass | With turns and flips: do unrotated frames converge, are changes marked, does a click touch what is shown? |
| `screen_turned` | violation | Does a frame started with `-r 90, 180, 270` show the screen? |
| `updates` | pass | Is no change forgotten, does a copy stay right, does a viewer see nothing invented, and everything in the end? |
| `event_loop` | pass | Do the ends agree on every message and on the version, who is served, who is closed, and is everybody answered, viewers and browsers? |
| `app_process` | pass | Is the notice true, do descriptors leak, by what does the app fall, what is installed, is every manager answered? |
| `server_parts` | pass | Is the pointer a lock, is it given back, and is nothing stuck? Are the lists sets, is what is announced sent, does every picture arrive in the nearest colours, and is every row where it is looked for? |
| `pixels_turned` | violation | Does F4 leave the viewers their colours? |

`vnc_settles` starts in one of three scenarios, each a question of its own that TLC
answers in the same run: three buttons; two buttons or intents, and an exit; or start, "Stop
all", and two more buttons. `Converges` and `CacheIsRight` speak of a service that exists
(`ticking`): what "Stop all" leaves behind is `StopAllStops` below.

Every property of a passing run has a *mutant* in `PROJECT.json`: a plausible
bug, an operator next to the one it replaces (`Tick_TrustsTheCache`,
`Freed_Forgotten`, …), under which that run fails. The mutants are defined in
the modules and used by no action of them.

### Bounds

* `Pid` and `Shell` have two members: a second process is what a doubled
  start would add, and each of the two threads can have a shell under way. When
  both shells are busy a thread waits; nothing in the properties counts shells.
* `Server` has three members: one that the field holds and one for each
  thread, which is as many as can be referred to at once. `GetNew` needs an unused
  one and does wait if a fourth were needed.
* `MaxRequests` is 2 or 3: the shortest conflict is a stop after a start, and
  through the activity's buttons that takes a binding first. The watchdog's
  ticks are not bounded. `MaxFaults` is 0 to 2.
* One port and one scale suffice where the property does not speak of ports;
  the -1 of `stopVnc` and `stopMng` is a port of its own (`NoPort`).
* `Xres = 2`, `Yres = 3`, two colours, a mapping of two pages and one pixel: not
  square, so that rows and columns cannot be confused; three drawings, flips or
  turns, since "turn, draw, flip" are the events that can combine.
* `updates`: one client, since clients share nothing but the framebuffer; a row of
  three pixels that may turn to a column, the least on which a copy overlaps its
  own source; four changes, enough for draw, copy, draw, copy.
* `event_loop`: two viewers, one of which stalls, and four connections, so that a
  newcomer meets one that is served and one that hangs; versions 3, 7, 8 and all six
  option sets. Viewers and browsers share no state, and are two parts of one run: two
  browsers, so that one takes the other's place; a page that just fits the buffer,
  another and a plain file that need two readings of it.
* `Sides` are the widths and heights of the screens that are touched: a single pixel, small
  ones, and some that do and do not divide the 4096 steps of the device.
* `app_process`: two descriptors (`Limit`, some 1000 on a device), two places in the
  local socket's backlog (50), two versions, three events from outside: a
  connection of each kind and a kill. Messages and answers are not bounded.
* `server_parts`: a screen of 3 by 2 for the lists, and for the rectangles one of 6 by 5
  with scaled ones of 3 by 2 and 4 by 4, where edges fall on and between their pixels; limits as small as the pictures (`HextileArea` 4 for 256, `LongRun` 2
  for 255, `MaxPalette` 4 for 127, `MaxPacked` 3 for 16, `ZlibMaxRectSize` 8, ...), so
  that every branch is taken and every limit met, passed and missed by one. The
  relations between them that the code relies on are kept. Pictures of 4 by 2, 3 by 3
  and 5 by 1, up to renaming of their colours where the code only compares them.
  Jpeg pictures of 1 to 13 rows: `DCTSIZE` is 2 for 8, so that these are up to
  four iMCU rows with every remainder, and the list of the reader has wrapped around.
  Four devices and nine formats, with fewer bits to a channel than usual, of which all
  colours are looked up; one client, since its table depends on what it and F4 do alone.
  Each part has inputs of its own, and `part` says which one a behaviour is about.
* The part `input` of it: three clients, so that two contend while a third leaves; four
  messages, the length of press, leave, press, release.

`mng_safety` leaves out the button's STOP, which differs from HALT in the port it
stores and in `cached`, and is what `mng_converges` stops with.

Symmetry is used only in `vnc_unasked` (processes, shells), which checks no
liveness. Deadlock is checked everywhere except in the three runs whose bounded events
run out: `updates`, `event_loop`, `app_process`. F12 ends the native process: `MCServerParts`
says that nothing has to happen then, and only then.

### Fairness

* Looper and Timer thread: weak fairness of each thread's steps as a whole.
  Both are threads the Java scheduler runs; no step of them is a choice of a user.
* Shells and server threads: weak fairness for each. `killall` is sent to a
  shell that is a process of its own; `Accept` and `Served` are not fair, since
  clients may come or stay as they like.
* `update_screen`: the main loop of fbvncserver never ends.
* `Timeout` and `rfbClientConnectionGone`: `rfbCheckFds` handles events eagerly
  and returns only when `select` finds none. That input pauses is the assumption
  under which the code promises anything; the model bounds messages, which grants
  it.
* `Turn` of `RfbUpdates`: the main loop goes on; a deferred update is sent by the turn
  after its time. `Ask` is fair: a viewer of `libvncclient` sends its next request as soon
  as an update arrived. One that does not ask is promised nothing.
* `Serve` of `Handshake` for each client: a pass of `rfbCheckFds` goes through all that
  can be read. It includes `GivesUp`, a `select` with a timeout. Viewers that
  are not in `Stalling` go on.
* `Select \/ rfbHttpCheckFds` of `Httpd`: the main loop never ends, and comes to the http
  server when `rfbCheckFds` has returned.
* `AppProcess`: the threads, and the shell that kills, go on; managers that are not in
  `Silent` send their operation. Nothing says that the app is started again.
* Users, clients and faults are never fair, but for those viewers and managers.

## 4. What the violations show

* `mng_twice`: looper and Timer thread both find no running server, both get the
  same object from `getMngServer`, and the second `start()` throws
  `IllegalThreadStateException`. The process ends, the wish with it.
* `screen_turned`: offsets are computed before the loop over `i` from the `i`
  that the previous row left; nearly all of the frame is never set.
* `pixels_turned`: `rotate` calls `rfbNewFramebuffer` with `0 /* not used */` for the bits
  per sample. They are used: the maxima of the new format are 0, the table of each client
  is built for it by dividing by them, and stays when `rotate` puts the maxima back.

### Further traces

More behaviours were found with TLC while modelling and are not kept as
runs. The properties are stated in the modules; each is violated under a
recorded configuration with the changes given.

| Property | Configuration | Change | Behaviour |
|---|---|---|---|
| `ViewIsRight` | `VncSettles` | `Requests = {"START"}` | the activity is closed and opened again between the comparison and the store of `sendVncReply`; the new one is never told |
| `StopAllStops` | `VncSettles` | | "Stop all" while a tick is under way: `mTimer.cancel()` does not stop it, and neither `System.exit` the `su` shell it has called; the process that it starts after `killall` runs without a service |
| `ListensWhereAsked` | `VncSettles` | `Port = {5901, 5902}`, `Requests = {"START"}`, `MaxRequests = 2` | a tick reads the old port, and both threads write the one wrapper: the server stays on a port not asked for |
| `Converges` (Vnc) | `VncSettles` | `Requests = {"START"}`, `Faults = {"java"}`, `MaxRequests = 2`, `MaxFaults = 1` | the service comes back without its wish |
| `WantedServerListens` | `VncSettles` | `Requests = {"INIT", "HALT"}`, `Faults = {}`, `MaxRequests = 3`, `MaxFaults = 0` | HALT stored the port -1; a tick between the next wish and its port launches `androidvncserver -P -1`, which runs without a listener and is never replaced |
| `StopStops` | `MngTwice` | `Requests = {"START", "STOP"}`, `MaxRequests = 2` | both threads find the field null and create a server; the one that is overwritten in the field goes on listening after Stop |
| `ColoursAreNearest` without `Bytewise` | `ServerParts` | | of a screen of 32 bits a viewer asks for 24: `tabletrans24template.c` looks for an entry at every byte of a table whose entries are three bytes long |
| `MovesWerePressed` | `ServerParts` | `InputSpec` of `Input` alone, two clients, `Keysyms = {}`, `MaxMessages = 2` | a client leaves while its button is down; `leftClicked` stays, and the next client's press is handled as a move |
| `InstalledIsCurrent` | `AppProcess` | one viewer, `MaxEvents = 0` | an upgrade meets the old server while it runs: its file cannot be written, the exception is only logged, and the old binary is what is started for ever |
| `CompleteRequestsAreAnswered` | `EventLoop` | checked in place of `WholeRequestsAreAnswered` | a request comes in two pieces: `buf_filled = 0` at the beginning of each call forgets the first, and the connection is closed without an answer, although the comment at `httpd.c:270` reads "until we get a complete request" |
| `RunningServerServes` | `MngTwice` | `Requests = {"INIT", "CONNECT"}`, `Faults = {"reply"}`, `MaxRequests = 2`, `MaxFaults = 1` | `flush()` in `finally` throws out of the loop: a dead server that counts as running |
| `ShowsTheScreen` | `ScreenAll` | `Rotations = {0}`, `Keys = {}`, `MaxDrawings = 2` | after a flip the pass compares the second page and copies the first |

`mng_twice` with `Requests = {"INIT"}` and `Faults = {"busy"}`, `MaxFaults = 1`, fails in
a second way: the thread whose bind failed is started again by the next tick.

### Read, not run

Beside the models, reading gave these; they are not in any run, since the app does not
reach them or a model would only restate them.

* `rfbDoCopyRegion` (`main.c:359`) iterates *with* the move where `rfbSendCopyRegion`
  (`rfbserver.c:2850`) iterates against it: on the server's own buffer,
  overlapping rectangles of a region are copied in the wrong order
  (`CopyOrder_Along` is that order). The app never copies.
* `rfbScaledScreenUpdateRect` divides by an area of zero pixels when a screen is scaled
  to more than 100 %; fbvncserver's `-s` takes 150. With a ratio that is no whole number
  only a part is shown; `rfbNewFramebuffer` leaves scaled screens at their size.
* `rfbCheckFds` returns when `accept` fails, before it reads from any client.
* `rfbReadExactTimeout` starts its time anew with each piece that arrives: a peer
  that sends a byte now and then holds the server's thread for as long as it likes.
* A browser that stops reading: `rfbWriteExact` waits for it, with the one thread of the
  server, and `httpProcessInput` does not look at the result within a page.
* `SendIncrementalFramebufferUpdateRequest` of `libvncclient` (`rfbproto.c:864`) asks for
  `updateRect`, which `vncviewer.c:208` sets once and a new size does not change: after
  F4 it asks for a rectangle of the old shape. `Ask` of `RfbUpdates` is a viewer that asks
  for its whole frame.
* `LocalSocketServer` never closes the sockets it accepted.
* `Tight`'s `FillPalette` does not count the first pixel of the second colour, which
  can only change the order of its palette.

## 5. What is proved

Assumptions are those of the modules (`VncAssumption`, `MngAssumption`,
`ScreenAssumption`, `InputAssumption`, `RfbUpdatesAssumption`, `AppProcessAssumption`,
`HandshakeAssumption`, `HttpdAssumption`, `RectanglesAssumption`, `RowsAssumption`): constants have their
types, and a sentinel is not a value of the set that it stands outside of. `Rectangles` has
one more, `FewParts`: what is counted stays below 0xFFFF. The code counts in 16 bits and
does not look; a region would have to have 65535 parts.

* `VncServerProofs!TypesHold`, `MngControlProofs!TypesHold`: `Spec =>
  []TypeOK`. Besides the types, `TypeOK` says where a thread can be: `main` holds a
  monitor of the watchdog exactly between `SetWish` and its last assignment
  and has a job exactly when it is not idle; in `MngControl`, `by[t]` agrees
  with `pc[t]` and a thread holds a server exactly while it starts or closes
  one. It is inductive as it stands; there is one lemma per group of actions.
* `VncServerProofs!OffHolds`, `MngControlProofs!OffHolds`: `Spec =>
  NothingStartsUnasked`, an action property. `SettledOff` says that neither the
  wish, the queue, a job, a thread nor a shell asks for a start. Under
  `TypeOK`, each step without a new request preserves it and adds no
  process (server thread): the lemmas `Off…` go through the actions. In `MngControl`
  the crux is that a thread whose caller is "poll", "reply" or "stop" never
  returns to "start" (`OffAnswer`, `OffWalk`), although a reply may create a
  server object.
* `VncServerProofs!OnHolds`: `Spec => NothingStopsUnasked`, and `HealthyHolds` of both
  halves: `Spec => HealthyServerIsLeftAlone`. The counterpart of `SettledOff` is that no
  request, job, thread or shell asks for a stop. `TypeOK` does not suffice: a
  thread that sets the wish must have been sent by a request that sets it, and
  only `onDestroy` comes to its exit, which is the invariant `Directed`.
* `ScreenProofs!TypesHold`: buffers keep their shape and, because what is
  copied are colours, no pass reads beyond the mapping, the pixel right of the
  last row included (`Inside`).
* `ScreenProofs!PassesMarkChanges`: with the invariant that the frame sent is
  the buffer compared (`FrameIsCompared`), a pass over the unrotated first
  page marks each pixel it changes, for every size, after any turns and flips.
* `ScreenProofs!TouchesHitWhatIsShown`: `Spec => []TouchesWhatIsShown` for screens whose
  sides are at most 2048 pixels, half the steps of the device that `suinput.c` declares. It
  rests on `ScaledBack`: scaling to that range and back, with two divisions that round down,
  misses by at most `1 + (size - 1) \div 2048` pixels, for a side of any size. The bound
  on the sides is needed: on a side of 2049 some pixels are missed by two.
* `VncServerProofs!PointerTypesHold`, `NothingSticks`, `OwnerStaysListed`: invariants for
  any clients. Types are needed first: that only the scancodes of the three
  buttons are ever left down is what makes the set differences of `ptrevent`
  give back exactly the flags.
* `VncServerProofs!PointerStaysLocked`: `Spec => Lock!Spec`, initial state and each
  step mapped to one of `PointerLock` or to a stutter.
* `RfbUpdatesProofs`: `TypesHold`, `NoChangeIsForgotten`, `CopiesAreRight` and
  `OnlyTheScreenIsShown` (`Spec => ShowsOnlyTheScreen`, the refinement of
  `ScreenMirror`), for any clients, screens, copies and cursor. The invariant is
  `Kept(c)`, per client: regions and the sources of copies lie on the screen
  (`Inside`), pixels never sent are blank (`LostIsBlank`), every pixel that is neither
  owed nor lost is shown, without pointer for a viewer that draws its own (`Current`), and
  what a waiting copy will read is what belongs at its target (`CopiesRight`). The two
  safety properties need each other: a pixel may leave `modified` for `copy`
  only because its source is right, and a source stays right only because what
  changes it puts the target back into `modified`.

* `AppProcessProofs`, for any clients, descriptors, versions, kills and upgrades:
  `TypesHold`, where a message under way has a descriptor left, without which
  the bound of `leaked` is not inductive; `LeaksStayLosses`; `InstallsItsVersion`, from
  `CopiedOnce`: what "last_run" records was copied, unless a first run was torn;
  `FallsOnlyByAKill`, from `HalfSent`: a connection without its message is the last one
  and its message is on the way, unless a server was killed in between; and
  `NoticeStaysTrue`. For the last, `Announced` says that whoever is named by the
  notification, by a message that waits or by the one on its way is connected, or
  his departure comes behind; `Together` says that without an end of a process a native server
  runs only next to an app that listens, so that no message is lost.

* `EventLoopProofs`, for any viewers, versions and options: `ConversationsAreFramed`,
  `EndsAreInStep`, `OnlyAdmittedAreServed`, `OneIsServed`, `NobodyIsThrownOut` and
  `TypesHold`. The invariant is `Talk(v)`: while the server has not closed and
  the viewer has not ended, `Conversation(v)` gives for each state of the
  server what is written and not yet read in either direction and what the viewer waits
  for. It is what makes the types inductive, since a version that is read must have been
  written as one, and what shows that a client in state NORMAL has no half message
  left, so that `ReadFails` does not close it. `Admitted` and `Alone` are kept
  beside it.

* `EventLoopProofs`, for any browsers, requests, files and any size of the buffer:
  `AnswersHold` (`HttpSpec => []AnswersAreWhole`), `OpenConnectionIsServed` and
  `HttpTypesHold`. There are two halves. What `httpProcessInput` writes is computed
  from data: `PageIsMeant` says that `Substituted`, which jumps from variable to variable
  as `compareAndSkip` does, writes what `Meaning` reads symbol by symbol, for a
  text of any length; `FileIsWhole` that the pieces of any file add up to it;
  `PageIsWhole` that a page shorter than the buffer is one piece. These are inductions,
  which the prover cannot take from the library: they are made of `Least`, a set
  of numbers has a least one, applied to the set of places where the
  claim fails (`Induction`, and `Backwards` from the end of a text to its beginning).
  The other half is the invariant `HttpInv`: `OpenIsServed`, the open connection is
  the one that `httpSock` holds, and `Answered(c)`, an answer is the one to what this
  connection asked, and whoever has one is not served any more. Without the
  first, a newcomer could take the place of a connection that `Accept` does not close;
  without the second, a connection could be answered twice.

* `RectanglesProofs!UpdatesAreWhole`: `UpdateSpec => []UpdateIsWhole`, for any region, scale,
  picture and limits, with at least one row to a piece (`RectanglesAssumption`). It is about
  one step, so the work is in what `SendRect` computes. `Makes(s, u, pixels)` says of a
  sequence of parts that each is allowed, that they are apart and cover just these pixels;
  `TwoMake` and `AllMake` put such sequences together. `CutsMake` ties the loop of the
  sending (another piece while it is not at the end) to the formula of the counting,
  `GridMakes` does it for both axes, and `LinesAre` shows that the two lines at least
  of zlib fit its buffer. `ExtendIs` and `BestIsFound` keep a solid area in its rectangle
  and of one colour through every band and every direction. That the search ends at
  all is `FromIsDefined`: each call is of a place of less `Rank`, by the half circumference
  of the rectangle first and then by the rows not looked at yet; `AroundCovers` is
  the partition around a solid area; and `TightMakes` follows from the least rank at
  which it would fail. `AxisIsScaled` is the rounding of `rfbScaledCorrection`: down at the
  beginning and up at the end leaves out no pixel that shows something of the rectangle,
  and whichever way a whole number is rounded, what is too much borders on it.
  `ScaledIs` puts the two axes together. `SendingsAreCounted` adds up what was announced.

* `JpegRowsProofs!RowsStayInPlace`: `RowSpec => []RowsInPlace`, for pictures of any height,
  one or two rows to a row group, any number of rows in a call and any size of an
  iMCU row (at least two row groups where a reader needs neighbours, as
  `jinit_d_main_controller` demands). `RowsInPlace` looks at the output of one call; whether that
  is right depends on what every call before left in the buffers, which is the invariant `RowsInv`.
  - `WriterInv`: the ring of three row groups holds the rows from the one above the next group
    to the last row taken, each in its slot, with the picture's edge repeated above and
    below (`RingHolds`); the groups that wait for the compressor are the next ones, in order
    (`GroupsHold`); and a row that the application still believes its own is owed by a
    suspended call (`Owed`), so that all is taken only when all is sent (`AllSent`). That
    the rows a call overwrites are not those that the group in work or its neighbours
    need is `Ahead`, never more than two groups. The loop ends because each round makes a
    group or takes the last rows of the call (`Progress`).
  - `ReaderInv`: which of its positions a call stopped at (`Process`, `Postponed`, `Prepare`,
    or `Simple` without neighbours) decides what is in the buffer. `InPlace` are the places
    of the rows in each list, `Wraps` those beyond either end, which `set_wraparound_pointers`
    writes once and both lists then keep. The last row group of an iMCU row waits until the
    next one is there below it; `Front` is that next one, and `Back` the end of the one
    before, which the other list has kept from being overwritten. `Edges` is what is
    different at the first iMCU row, `Avail` at the last.
  The places are sums of products of variables, which the solver does not find by itself;
  there the proofs split on the one or two rows of a group.

The type invariants of `Screen`, `Input` and `RfbUpdates` are proved and no longer part of a run.

Only model-checked: `RegionsHold`, `PictureArrives` and `ColoursAreNearest`, since
`Regions`, `Encodings` and `PixelFormats` have operators that are RECURSIVE or work on bits, which the
prover does not read; liveness (`Converges`, `CacheIsRight`, `FirstPageIsSent`, `PointerIsFreed`, `Decided`,
`ManagersAreServed`, `WholeRequestsAreAnswered`), which needs fairness and ENABLED, out of
the prover's reach.

## 6. Not modelled

* `BootReceiver`, which only decides whether an INIT intent is sent; the dialogs and
  menus of the activity; what the management operations answer.
* In `fbvncserver`: `test_mode`, the waiting time of the main loop, all keysyms beyond
  one of each kind.
* In the library: what a scaled screen shows (how its rectangles are rounded is in
  `Rectangles`), of JPEG all but its row buffers, the streams that zlib compresses,
  ZYWRLE, the formats of a screen with a colour map, the messages for the cursor's position and the
  server's identity, progressive updates, reverse connections, UDP and the proxied
  connections of the http server, which fbvncserver does not enable. File transfer, which
  `Android.mk` does not compile. The counts that are cut to 16 bits: a screen of the
  phone has fewer rectangles.
* Memory that a pass over a turned frame writes beyond its buffer.
* Codecs and crypto but for those row buffers: third-party byte-level code.

## 7. Running the checks

    tlc -workers 2 -config VncUnasked.cfg MCVncControl
    tlapm VncServerProofs.tla

`PROJECT.json` names the module and the configuration of each run, maps each
definition to the lines that it is translated from, and lists the hazards of
the code with the properties that would catch them.

## 8. What is left

* The two halves of the service composed in one process, where an exception of one ends
  the other.
* `Screen` composed with `RfbUpdates`, so that `ChangesAreMarked` feeds `Draw`.
* The contents of scaled screens.
* Theorems for `RegionsHold`, `PictureArrives` and `ColoursAreNearest`: their recursions would
  have to become functions, as the loops of `JpegRows` are.
