------------------------------ MODULE Fastboot ------------------------------
(***************************************************************************)
(* The fastboot tool flashing a device over UDP: the queue of actions of   *)
(* fastboot/engine.cpp, the command protocol of fastboot/protocol.cpp and  *)
(* the transport of FastbootUdp, against a bootloader that follows         *)
(* fastboot/README.md.                                                     *)
(***************************************************************************)
EXTENDS FastbootUdp, SequencesExt

CONSTANTS
  Queue,               \* action_list: records [op, cmd, want, data]
  TRANSPORT_BUF_SIZE,
  MAX_MAP_SIZE,
  Staged,              \* what the device has to upload
  MaxKills             \* bound on how often the tool is killed

VARIABLES
  action,     \* the action fb_execute_queue is at; Len(Queue) + 1 when it has returned
  step,       \* where the protocol functions are in that action
  writes,     \* data of the action still to be written, one entry for each Write
  status,     \* status in fb_execute_queue: 0 or -1
  loader,     \* the bootloader
  kills

engineVars == <<action, step, writes, status>>
vars == <<udpVars, engineVars, loader, kills>>

A == Queue[action]

Returned == action = Len(Queue) + 1

----------------------------------------------------------------------------
(* protocol.cpp: how the data of a download is cut into Writes *)

\* _command_send_fd maps and writes MAX_MAP_SIZE bytes at a time.
RECURSIVE Maps(_)
Maps(data) ==
  IF Len(data) <= MAX_MAP_SIZE THEN <<data>>
  ELSE <<SubSeq(data, 1, MAX_MAP_SIZE)>> \o Maps(SubSeq(data, MAX_MAP_SIZE + 1, Len(data)))

\* ptr and len are not moved on after the buffer was filled up.
MutSparseWrite(state, piece) ==
  LET fill == IF state.buf = <<>> THEN 0
              ELSE Shorter(TRANSPORT_BUF_SIZE - Len(state.buf), Len(piece))
      buf  == state.buf \o SubSeq(piece, 1, fill)
      full == Len(buf) = TRANSPORT_BUF_SIZE
  IN [buf |-> piece, out |-> state.out \o (IF full THEN <<buf>> ELSE <<>>)]

\* fb_download_data_sparse_write: transport_buf is filled up first, whole buffers
\* go out directly, and what remains waits in transport_buf.
SparseWrite(state, piece) ==
  LET fill  == IF state.buf = <<>> THEN 0
               ELSE Shorter(TRANSPORT_BUF_SIZE - Len(state.buf), Len(piece))
      buf   == state.buf \o SubSeq(piece, 1, fill)
      full  == Len(buf) = TRANSPORT_BUF_SIZE
      rest  == SubSeq(piece, fill + 1, Len(piece))
      whole == IF Len(rest) > TRANSPORT_BUF_SIZE
               THEN Len(rest) - (Len(rest) % TRANSPORT_BUF_SIZE) ELSE 0
      tail  == SubSeq(rest, whole + 1, Len(rest))
  IN [buf |-> IF tail # <<>> THEN tail ELSE IF full THEN <<>> ELSE buf,
      out |-> state.out \o (IF full THEN <<buf>> ELSE <<>>)
                        \o (IF whole > 0 THEN <<SubSeq(rest, 1, whole)>> ELSE <<>>)]

\* libsparse hands the image over piece by piece; the last buffer is flushed.
SparseWrites(pieces) ==
  LET end == FoldLeft(SparseWrite, [buf |-> <<>>, out |-> <<>>], pieces)
  IN IF end.buf = <<>> THEN end.out ELSE Append(end.out, end.buf)

DataWrites(a) ==
  CASE a.op = "download"        -> <<FlattenSeq(a.data)>>
    [] a.op = "download_fd"     -> Maps(FlattenSeq(a.data))
    [] a.op = "download_sparse" -> SparseWrites(a.data)

Downloads == {"download", "download_fd", "download_sparse"}

----------------------------------------------------------------------------
(* engine.cpp and protocol.cpp *)

\* A missing break: the queue goes on after any failure.
MutEndAction(ok) ==
  /\ status' = IF ok \/ A.op = "reboot" THEN 0 ELSE -1
  /\ action' = action + 1
  /\ step' = "start"
  /\ writes' = <<>>

\* The callbacks turn the result into the action's status: cb_check compares the
\* answer of a query, cb_do_nothing forgets the result of a reboot.  Every
\* failure ends the queue but that of an upload, whose branch has no break.
EndAction(ok) ==
  LET good == ok \/ A.op = "reboot" IN
  /\ status' = IF good THEN 0 ELSE -1
  /\ action' = IF good \/ A.op = "upload" THEN action + 1 ELSE Len(Queue) + 1
  /\ step' = "start"
  /\ writes' = <<>>

\* cb_require and cb_reject; A.want is every answer that is accepted, or that is
\* ignored because it is required of another product only.
cb_check == call.rx[1][2] \in A.want

ContinueAt(s, ws) ==
  step' = s /\ writes' = ws /\ UNCHANGED <<action, status>>

\* _command_start: the command goes out.
CommandStart ==
  /\ step = "start" /\ ~Returned
  /\ \/ /\ Write(<<A.cmd>>)
        /\ ContinueAt("sent", <<>>)
     \/ /\ host = "closed" /\ action > 1
        /\ EndAction(FALSE)
        /\ UNCHANGED udpVars
  /\ UNCHANGED <<loader, kills>>

\* check_response asks for a status of at most 64 bytes.
CheckResponse ==
  /\ host = "idle"
  /\ \/ step = "sent" /\ ContinueAt("status", <<>>)
     \/ step = "data" /\ writes = <<>> /\ ContinueAt("end", <<>>)
  /\ Read(1)
  /\ UNCHANGED <<loader, kills>>

\* The part of the file that is sent next may fail to be mapped.
CommandWriteData ==
  /\ host = "idle" /\ step = "data" /\ writes # <<>>
  /\ \/ /\ Write(Head(writes))
        /\ ContinueAt("data", Tail(writes))
     \/ /\ A.op = "download_fd"
        /\ EndAction(FALSE)
        /\ UNCHANGED udpVars
  /\ UNCHANGED <<loader, kills>>

\* The status is in: its first four bytes say how to go on.
Status ==
  /\ host = "idle" /\ step \in {"status", "end"}
  /\ \/ /\ call.rx # <<>> /\ call.rx[1][1] = "INFO"
        /\ Read(1)
        /\ UNCHANGED engineVars
     \/ /\ call.rx # <<>>
        /\ call.rx[1][1] = "OKAY" \/ (call.rx[1] = <<"DATA", 0>> /\ A.op = "upload" /\ step = "status")
        /\ IF step = "status" /\ A.op \in Downloads
           THEN ContinueAt("data", DataWrites(A))
           ELSE EndAction(A.op = "query" => cb_check)
        /\ UNCHANGED udpVars
     \/ /\ call.rx # <<>> /\ call.rx[1][1] = "FAIL"
        /\ EndAction(FALSE)
        /\ UNCHANGED udpVars
     \/ /\ call.rx # <<>> /\ call.rx[1][1] = "DATA"
        /\ step = "status" /\ A.op \in Downloads
        /\ call.rx[1][2] <= A.cmd[2]
        /\ ContinueAt("data", DataWrites(A))
        /\ UNCHANGED udpVars
     \/ /\ call.rx # <<>> /\ call.rx[1][1] = "DATA"
        /\ step = "status" /\ A.op = "upload" /\ call.rx[1][2] > 0
        /\ Read(call.rx[1][2])
        /\ ContinueAt("upload", <<call.rx>>)
  /\ UNCHANGED <<loader, kills>>

\* Everything else check_response can see is an error after which it closes the
\* transport: too short, a DATA nobody asked for or too large, an unknown word.
BadStatus ==
  /\ host = "idle" /\ step \in {"status", "end"}
  /\ \/ call.rx = <<>>
     \/ call.rx[1][1] \notin {"INFO", "OKAY", "FAIL", "DATA"}
     \/ call.rx[1][1] = "DATA" /\ (step = "end" \/ A.op \notin Downloads \cup {"upload"})
     \/ call.rx[1][1] = "DATA" /\ A.op \in Downloads /\ call.rx[1][2] > A.cmd[2]
  /\ Close
  /\ EndAction(FALSE)
  /\ UNCHANGED <<loader, kills>>

\* _command_read_data and the file, which may fail to be written, then _command_end.
UploadRead ==
  /\ host = "idle" /\ step = "upload"
  /\ \/ /\ Len(call.rx) = writes[1][1][2]
        /\ Read(1)
        /\ ContinueAt("end", <<>>)
     \/ /\ Len(call.rx) = writes[1][1][2]
        /\ EndAction(FALSE)
        /\ UNCHANGED udpVars
     \/ /\ Len(call.rx) # writes[1][1][2]
        /\ Close
        /\ EndAction(FALSE)
  /\ UNCHANGED <<loader, kills>>

\* A transport that failed is left open.
MutTransportFailed ==
  /\ host = "failed" /\ step # "start"
  /\ EndAction(FALSE)
  /\ UNCHANGED <<udpVars, loader, kills>>

\* Read or Write returned -1.
TransportFailed ==
  /\ host = "failed" /\ step # "start"
  /\ Close
  /\ EndAction(FALSE)
  /\ UNCHANGED <<loader, kills>>

\* The user interrupts the tool and starts it over.
Kill ==
  /\ kills < MaxKills
  /\ ~Returned
  /\ kills' = kills + 1
  /\ action' = 1 /\ step' = "start" /\ writes' = <<>> /\ status' = 0
  /\ Close
  /\ UNCHANGED loader

\* open_device tries until a device answers.
OpenDevice ==
  /\ action = 1 /\ step = "start" /\ ~Returned
  /\ Connect
  /\ UNCHANGED <<engineVars, loader, kills>>

----------------------------------------------------------------------------
(* The bootloader, from the rules of fastboot/README.md (external):
   [left |-> units of a download still to come, ram |-> the download buffer,
    out |-> responses not handed out yet, max |-> units in a packet,
    done |-> history: commands carried out since the last Init packet] *)

Done(l, cmd, ok) == Append(l.done, [cmd |-> cmd, ok |-> ok, ram |-> l.ram])

\* What a complete command leads to; the bootloader may refuse it, answer in a
\* word the tool does not know, or send less than it announced.
Loaded(l, cmd) ==
  LET reply(rs, ok) == [l EXCEPT !.out = rs, !.done = Done(l, cmd, ok)] IN
  CASE cmd[1] = "download" ->
         { [l EXCEPT !.left = cmd[2], !.ram = <<>>, !.out = <<<<<<"DATA", cmd[2]>>>>>>] }
    [] cmd[1] = "upload" ->
         { reply(<< <<<<"DATA", Len(Staged)>>>>, Staged, <<<<"OKAY", 0>>>> >>, TRUE),
           reply(<< <<<<"DATA", Len(Staged)>>>>, Tail(Staged) >>, FALSE),
           reply(<< <<<<"FAIL", 0>>>> >>, FALSE) }
    [] cmd[1] = "getvar" ->
         { reply(<< <<<<w, n>>>> >>, w = "OKAY") : w \in {"OKAY", "HUH?"}, n \in {0, 1} }
    [] OTHER ->
         { reply(<< <<<<"INFO", 0>>>>, <<<<"OKAY", 0>>>> >>, TRUE),
           reply(<< <<<<"FAIL", 0>>>> >>, FALSE) }

\* The data phase ends with a response of its own.
Downloaded(l, data) ==
  LET n == Shorter(l.left, Len(data))
  IN [l EXCEPT !.left = @ - n, !.ram = @ \o SubSeq(data, 1, n),
               !.out = IF l.left = n THEN << <<<<"OKAY", 0>>>> >> ELSE <<>>]

LoaderInit(m) ==
  \E version \in {0, 1}, size \in DeviceMaxData :
    /\ DeviceInit(m, version, size)
    /\ loader' = [loader EXCEPT !.left = 0, !.out = <<>>, !.done = <<>>,
                                !.max = Shorter(HostMaxData, size)]

LoaderAccept(m) ==
  /\ DeviceAccept(m)
  /\ IF loader.left > 0
     THEN loader' = Downloaded(loader, m.packet.data)
     ELSE loader' \in Loaded(loader, m.packet.data[1])

\* The next piece of the next response; an empty-handed device stays silent.
LoaderGive(m) ==
  /\ loader.out # <<>>
  /\ LET r == Head(loader.out)
         n == Shorter(loader.max, Len(r))
         rest == SubSeq(r, n + 1, Len(r))
     IN /\ DeviceGive(m, rest # <<>>, SubSeq(r, 1, n))
        /\ loader' = [loader EXCEPT !.out = IF rest = <<>> THEN Tail(@)
                                            ELSE <<rest>> \o Tail(@)]

LoaderStep ==
  /\ \E m \in requests :
       \/ LoaderInit(m)
       \/ LoaderAccept(m)
       \/ LoaderGive(m)
       \/ (DeviceQuery(m) \/ DeviceError(m) \/ DeviceRepeat(m)) /\ UNCHANGED loader
  /\ UNCHANGED <<hostVars, engineVars, kills>>

----------------------------------------------------------------------------
Init ==
  /\ UdpInit
  /\ action = 1 /\ step = "start" /\ writes = <<>> /\ status = 0
  /\ loader = [left |-> 0, ram |-> <<>>, out |-> <<>>, max |-> 2, done |-> <<>>]
  /\ kills = 0

UdpStep ==
  /\ Send \/ ReceiveTimedOut \/ SocketError \/ Receive
  /\ UNCHANGED <<engineVars, loader, kills>>

EngineStep ==
  \/ CommandStart \/ CheckResponse \/ CommandWriteData \/ Status \/ BadStatus
  \/ UploadRead \/ TransportFailed

\* The tool has exited, or has found no device.
Finished ==
  /\ Returned \/ (host = "closed" /\ session = MaxSessions)
  /\ UNCHANGED vars

Next == OpenDevice \/ UdpStep \/ EngineStep \/ Kill \/ LoaderStep \/ Finished

Spec == Init /\ [][Next]_vars

\* A datagram that the network can deliver, again and again, is none that the tool
\* waits for: each time it comes kResponseTimeoutMs begins anew
Prolonged ==
  /\ host = "waiting"
  /\ \E m \in responses : m.session = session /\ ~Matches(call.packet, m.packet)

\* The tool runs on whatever the network and the device do, but a wait comes to its
\* timeout only if nothing prolongs it.
FairSpec == Spec /\ WF_vars(OpenDevice \/ (UdpStep /\ ~Prolonged) \/ EngineStep)

----------------------------------------------------------------------------
(* Properties *)

Commands == [i \in DOMAIN Queue |-> Queue[i].cmd]
OtherThanDownloads == SelectSeq(Commands, LAMBDA c : c[1] # "download")

(* Whatever is lost, repeated or cut short by a kill and a new run, a partition
   is only ever written with exactly the image the queue sent for it. *)
FlashedWhatWasSent ==
  \A i \in DOMAIN loader.done :
    loader.done[i].cmd[1] = "flash" =>
      loader.done[i].ram = FlattenSeq(Queue[loader.done[i].cmd[2] - 1].data)

Forgiven == {"upload", "reboot"}

(* The device carries out the commands of the queue in order and none twice, it
   gets nothing after one that failed, and when fb_execute_queue returns
   success it has carried out all of them: with the exception of an upload,
   whose failure does not stop the queue, and of a reboot, whose result is
   ignored. *)
QueueCarriedOut ==
  LET done == loader.done
      all  == OtherThanDownloads
  IN /\ IsPrefix([i \in DOMAIN done |-> done[i].cmd], all)
     /\ \A i \in 1..Len(done)-1 : done[i].ok \/ done[i].cmd[1] \in Forgiven
     /\ Returned /\ status = 0 =>
          \A i \in DOMAIN all : all[i][1] \in Forgiven
                                 \/ (i <= Len(done) /\ done[i].ok)

(* fb_execute_queue returns, though the device may fall silent and the network lose
   everything, at any moment: the attempts are used up.  All that can keep it is one
   wait that never ends, in which the network repeats an answer to an earlier packet
   within every kResponseTimeoutMs, which uses up no attempt. *)
QueueEnds == <>(Returned \/ (host = "closed" /\ session = MaxSessions)) \/ <>[]Prolonged
=============================================================================
