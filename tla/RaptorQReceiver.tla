-------------------------- MODULE RaptorQReceiver ---------------------------
(***************************************************************************)
(* The receiving side of one phone: the RaptorQ thread                     *)
(* (RaptorQDecoderHandler), the unzip thread (ZipHandler), and what they   *)
(* keep on disk so that an interrupted reception can be resumed: the rows  *)
(* of the SQLite table File_Logs and one temporary file per reception, a   *)
(* log of serialized packets until the block is decoded and the zip file   *)
(* afterwards.                                                             *)
(*                                                                         *)
(* Every step that changes the disk is an action of its own, and the       *)
(* process may be killed between any two of them or inside a write.  A     *)
(* file operation may fail: the code catches and logs the IOException and  *)
(* goes on.  A packet is (file, ESI); "intact" is FALSE for one that the   *)
(* stream reader pieced together from the bytes of two records.            *)
(***************************************************************************)
EXTENDS SymbolsState, Integers, Sequences

CONSTANTS
  Files,          \* what the senders in front of the camera may be showing
  Junk,           \* the QR code of something else
  Oti,            \* the first 12 bytes of a code: the FEC parameters of a file
  NULL,           \* SQL NULL, a Java null
  MaxSessions, MaxCrashes,  \* bounds: visits of the receiving page, kills of the process
  MaxLeftover,    \* bound: decode messages still queued when the page is left
  MaxFaults       \* bound: file operations that fail, codes that do not belong

Codes == Files \cup {Junk}

ASSUME ReceiverAssumption ==
  /\ MaxSessions \in Nat /\ MaxCrashes \in Nat /\ MaxLeftover \in Nat /\ MaxFaults \in Nat
  /\ Files # {} /\ Junk \notin Files
  /\ NULL \notin {Oti[c] : c \in Codes}
  /\ NULL \notin [file : Codes, esi : ESI, intact : BOOLEAN]

SymbolOverhead == 2    \* OpenRQ.newDecoderWithTwoOverhead

\* A visit inserts a row for its first message, for every leftover one, and again after
\* each failure.
MaxRows == MaxSessions * (1 + MaxLeftover) + MaxFaults

Message == [file : Codes, esi : ESI, intact : {TRUE}]
Packet  == [file : Files, esi : ESI, intact : BOOLEAN]
Name   == 1 .. MaxRows                \* tmp<time>.tmp of the n-th row
Unzipped == 0                         \* the name a row gets once its file is unzipped
Row    == [name : Name \cup {Unzipped}, oti : {Oti[c] : c \in Codes} \cup {NULL},
           received : Nat, complete : BOOLEAN]

\* What a temporary file is made of: records, at most partly written, or zip bytes.
Record(p)  == [kind |-> "packet", packet |-> p]
Torn(p)    == [kind |-> "torn",   packet |-> p]
Zip(whole) == [kind |-> "zip",    whole  |-> whole]
Item == {Record(p) : p \in Packet} \cup {Torn(p) : p \in Packet} \cup {Zip(w) : w \in BOOLEAN}

VARIABLES
  rows,      \* SQLite: the table File_Logs, in ID order
  disk,      \* file system: content of every temporary file, <<>> when absent or empty
  out,       \* file system: what has been unzipped for the user
  proc,      \* the app: "down", "menu" (MainActivity) or "receiving" (ReceiveActivity)
  handler,   \* ReceiveActivity.getHandler() # null
  rpc,       \* RaptorQ thread: where handleMessage stands
  resuming,  \* RaptorQ thread: inside RestartDecode
  hasinit, list, cur, dec, held, check, num,  \* fields of the handler; held is dec's data
  oos,       \* objectOutputStream # null
  pkt,       \* the message being handled
  replay,    \* packets ReadObject returned that are not yet put
  db,        \* SqllitData.sqLiteDatabase: "none", "open" or "closed"
  zpc, zq,   \* unzip thread: where it stands, its queue
  crashes, sessions, left, faults,  \* counters; left: messages still to come
  stray,     \* observer: the message being handled does not belong to the reception
  spoilt,    \* observer: receptions whose data or zip a stray or pieced packet or a
             \* failed write of the zip may have spoilt
  lost,      \* observer: packets this visit has counted although their record failed
  handed     \* observer: how often this visit has told the unzip thread

disks   == <<rows, disk, out>>
thread  == <<rpc, resuming, hasinit, list, cur, dec, held, check, num, pkt, replay, oos>>
zip     == <<zpc, zq>>
env     == <<proc, handler, crashes, sessions, left>>
seen    == <<stray, spoilt, lost, handed>>
vars    == <<disks, thread, zip, env, db, faults, seen>>

-----------------------------------------------------------------------------
\* Reading a log.  ReadObject stops at the first byte it cannot take for a record and
\* keeps what it has.  A torn record may be completed with the bytes that follow it.
WholePrefix(c) ==
  IF \A i \in 1 .. Len(c) : c[i].kind = "packet" THEN Len(c)
  ELSE CHOOSE n \in 0 .. Len(c) - 1 :
         /\ c[n + 1].kind # "packet"
         /\ \A i \in 1 .. n : c[i].kind = "packet"

Pieced(c) == [c[WholePrefix(c) + 1].packet EXCEPT !.intact = FALSE]

ReadObject(c) ==
  LET n     == WholePrefix(c)
      whole == [i \in 1 .. n |-> c[i].packet]
  IN IF n + 1 < Len(c) /\ c[n + 1].kind = "torn"
       THEN {whole, Append(whole, Pieced(c))}
       ELSE {whole}

\* What is left of a record when writing it fails: nothing or a part.
Broken(c, p) == {c, Append(c, Torn(p))}

\* The decoded bytes are the sender's when every symbol they were computed from is.
DecodedWell ==
  LET fromSources == {p \in held : p.esi \in Source}
      used == IF {p.esi : p \in fromSources} = Source THEN fromSources ELSE held
  IN \E f \in Files : \A p \in used : p.file = f /\ p.intact

-----------------------------------------------------------------------------
NoThreads ==
  /\ rpc' = "idle" /\ resuming' = FALSE /\ hasinit' = FALSE /\ cur' = 0
  /\ dec' = NewSymbols(SymbolOverhead) /\ held' = {} /\ check' = {} /\ num' = 0
  /\ pkt' = NULL /\ replay' = <<>> /\ oos' = FALSE
  /\ stray' = FALSE /\ lost' = {} /\ handed' = 0
  /\ zpc' = "idle" /\ zq' = <<>> /\ db' = "none"
  /\ UNCHANGED spoilt

\* The process ends: every thread, queue and open file goes with it.
Die ==
  /\ proc' = "down" /\ handler' = FALSE /\ list' = {} /\ NoThreads
  /\ UNCHANGED <<sessions, left>>

\* One of the things that seldom happen.
Fault == faults < MaxFaults /\ faults' = faults + 1

Init ==
  /\ rows = <<>> /\ disk = [n \in Name |-> <<>>] /\ out = {}
  /\ proc = "down" /\ handler = FALSE
  /\ rpc = "idle" /\ resuming = FALSE /\ hasinit = FALSE /\ list = {} /\ cur = 0
  /\ dec = NewSymbols(SymbolOverhead) /\ held = {} /\ check = {} /\ num = 0
  /\ pkt = NULL /\ replay = <<>> /\ oos = FALSE /\ db = "none"
  /\ zpc = "idle" /\ zq = <<>>
  /\ crashes = 0 /\ sessions = 0 /\ left = 0 /\ faults = 0
  /\ stray = FALSE /\ spoilt = {} /\ lost = {} /\ handed = 0

-----------------------------------------------------------------------------
(* The activities.  A visit the bound makes the last one is not interrupted. *)

\* MainActivity.onCreate: DeleteEmptyFile removes the files of rows without parameters,
\* all but the last file of the listing; its "delete from File_Logs ..." goes through
\* rawQuery, which compiles the statement and never runs it.
Launch ==
  /\ proc = "down"
  /\ proc' = "menu"
  /\ \E last \in Name :
       disk' = [n \in Name |->
                  IF n # last /\ \E i \in DOMAIN rows : rows[i].oti = NULL /\ rows[i].name = n
                    THEN <<>> ELSE disk[n]]
  /\ UNCHANGED <<rows, out, thread, zip, handler, crashes, sessions, left, db, faults, seen>>

\* Mutant: complete rows are listed too.
SearchAll == { [id |-> i, oti |-> rows[i].oti] : i \in DOMAIN rows }

SearchUnComplete ==
  { [id |-> i, oti |-> rows[i].oti] : i \in {j \in DOMAIN rows : ~rows[j].complete} }

\* ReceiveActivity comes up and starts its threads; RaptorQDecoder.run reads the
\* incomplete rows into list, once.
OpenReceive ==
  /\ proc = "menu" /\ sessions < MaxSessions
  /\ proc' = "receiving" /\ handler' = TRUE /\ sessions' = sessions + 1
  /\ left' = MaxLeftover
  /\ list' = SearchUnComplete
  /\ NoThreads
  /\ UNCHANGED <<disks, crashes, faults>>

\* onPause, or TransmissionComplete: the handler is gone, the threads are not.
Pause ==
  /\ proc = "receiving" /\ handler /\ sessions < MaxSessions
  /\ handler' = FALSE
  /\ UNCHANGED <<disks, thread, zip, proc, crashes, sessions, left, db, faults, seen>>

\* Back in the menu once the threads have nothing more to do.
Leave ==
  /\ proc = "receiving" /\ ~handler
  /\ rpc \in {"idle", "quit"} /\ zpc = "idle" /\ zq = <<>>
  /\ proc' = "menu"
  /\ UNCHANGED <<disks, thread, zip, handler, crashes, sessions, left, db, faults, seen>>

\* The process is killed between two steps.
Kill ==
  /\ proc # "down" /\ crashes < MaxCrashes /\ sessions < MaxSessions
  /\ crashes' = crashes + 1
  /\ Die
  /\ UNCHANGED <<disks, faults>>

\* The process is killed inside a write: of a record, which ObjectOutputStream hands to the
\* file in blocks of 1024 bytes, or of the zip.
KillInWrite ==
  /\ crashes < MaxCrashes /\ sessions < MaxSessions
  /\ \/ /\ (rpc = "first" /\ pkt.file # Junk) \/ (rpc = "write" /\ oos)
        /\ disk' = [disk EXCEPT ![cur] = Append(@, Torn(pkt))]
     \/ /\ rpc = "save"
        /\ disk' = [disk EXCEPT ![cur] = <<Zip(FALSE)>>]
  /\ crashes' = crashes + 1
  /\ Die
  /\ UNCHANGED <<rows, out, faults>>

-----------------------------------------------------------------------------
(* The RaptorQ thread.                                                     *)

\* The next decode message.  DecoderHandler passes on whatever code it reads.
Take(c, e) ==
  /\ proc = "receiving" /\ rpc = "idle"
  /\ \/ handler /\ UNCHANGED left
     \/ ~handler /\ left > 0 /\ left' = left - 1
  /\ pkt' = [file |-> c, esi |-> e, intact |-> TRUE]
  /\ hasinit' = TRUE
  /\ rpc' = IF hasinit THEN "put" ELSE "compare"
  /\ UNCHANGED <<disks, zip, proc, handler, crashes, sessions, db,
                resuming, list, cur, dec, held, check, num, replay, oos, spoilt, lost, handed>>

Ready == rpc = "idle" /\ hasinit     \* between two packets of a reception under way

\* The code belongs to the reception that is under way, if there is one.
Belongs(c) == c \in Files /\ (Ready => Oti[c] = rows[cur].oti)

Receive(e) ==
  /\ \E c \in Files : Belongs(c) /\ Take(c, e)
  /\ stray' = FALSE /\ UNCHANGED faults

\* The code of something else: of another sender's file, or no packet at all.
ReceiveStray ==
  /\ Fault /\ stray' = TRUE
  /\ \/ \E c \in Files, e \in ESI : ~Belongs(c) /\ Take(c, e)
     \/ Take(Junk, 0)

\* An exception in the handling of the first packet is caught: the packet is dropped and
\* the next one is treated as the first.
DropFirst ==
  /\ rpc' = "idle" /\ hasinit' = FALSE /\ resuming' = FALSE /\ replay' = <<>>

\* Mutant: any two sets of parameters are equal.
AnyFECParametersEqual(oti, p) == TRUE

FECParametersEqual(oti, p) == oti = Oti[p.file]

\* CompareWithList: the first listed row with these parameters is resumed.  A row whose
\* parameters are NULL ends the comparison with a NullPointerException, a code that is
\* too short or holds no FEC parameters with an exception of its own.
CompareWithList ==
  LET hits == {r \in list : r.oti = NULL \/ FECParametersEqual(r.oti, pkt)}
  IN /\ rpc = "compare"
     /\ \/ /\ pkt.file = Junk
           /\ DropFirst /\ UNCHANGED <<cur, db>>
        \/ /\ hits = {}
           /\ rpc' = "insert"
           /\ UNCHANGED <<resuming, hasinit, replay, cur, db>>
        \/ \E r \in hits :
             /\ \A q \in hits : r.id <= q.id
             /\ IF r.oti = NULL
                  THEN DropFirst /\ UNCHANGED <<cur, db>>
                  ELSE /\ cur' = r.id /\ db' = "open"      \* PickFile
                       /\ rpc' = "restart"
                       /\ UNCHANGED <<resuming, hasinit, replay>>
     /\ UNCHANGED <<disks, zip, env, list, dec, held, check, num, pkt, oos, faults, seen>>

\* RestartDecode up to the replay.  Without a handler SendToReceiveInit throws, without
\* an output stream requireNonNull does.
RestartDecode ==
  /\ rpc = "restart"
  /\ dec' = NewSymbols(SymbolOverhead) /\ held' = {} /\ num' = 0
  /\ \/ /\ handler
        /\ rpc' = "replay" /\ resuming' = TRUE /\ check' = {}
        /\ oos' = TRUE /\ lost' = {}
        /\ replay' \in ReadObject(disk[cur])
        /\ spoilt' = IF \A i \in DOMAIN replay' : replay'[i].intact
                       THEN spoilt ELSE spoilt \cup {cur}
        /\ UNCHANGED <<hasinit, faults>>
     \/ /\ ~handler
        /\ DropFirst /\ UNCHANGED <<check, oos, faults, lost, spoilt>>
     \/ /\ handler /\ Fault
        /\ DropFirst /\ check' = {} /\ UNCHANGED <<oos, lost, spoilt>>
  /\ UNCHANGED <<disks, zip, env, db, list, cur, pkt, stray, handed>>

\* putEncodingPacket with what it means for the data; a symbol already held is ignored.
PutPacket(p) ==
  /\ dec' = Put(dec, {p.esi})
  /\ held' = IF Decoded(dec) \/ p.esi \in Held(dec) THEN held ELSE held \cup {p}

\* Mutants: a check array one slot off; a packet of the log not checked off.
ReplayOffByOne ==
  /\ rpc = "replay" /\ replay # <<>>
  /\ PutPacket(Head(replay))
  /\ replay' = Tail(replay)
  /\ check' = check \cup {Head(replay).esi + 1}
  /\ num' = IF Head(replay).esi + 1 \in check THEN num ELSE num + 1
  /\ UNCHANGED <<disks, zip, env, db, rpc, resuming, hasinit, list, cur, pkt, oos, faults, seen>>

ReplayUnchecked ==
  /\ rpc = "replay" /\ replay # <<>>
  /\ PutPacket(Head(replay))
  /\ replay' = Tail(replay)
  /\ num' = num + 1
  /\ UNCHANGED <<disks, zip, env, db, rpc, resuming, hasinit, list, cur, pkt, check, oos,
                 faults, seen>>

\* One packet of the log is put; after the last one the block may already be decoded.
Replay ==
  /\ rpc = "replay" /\ replay # <<>>
  /\ PutPacket(Head(replay))
  /\ replay' = Tail(replay)
  /\ check' = check \cup {Head(replay).esi}
  /\ num' = IF Head(replay).esi \in check THEN num ELSE num + 1
  /\ UNCHANGED <<disks, zip, env, db, rpc, resuming, hasinit, list, cur, pkt, oos, faults, seen>>

EndReplay ==
  /\ rpc = "replay" /\ replay = <<>>
  /\ IF Decoded(dec)
       THEN rpc' = "delete" /\ UNCHANGED <<resuming, list>>
       ELSE rpc' = "put" /\ resuming' = FALSE /\ list' = {}
  /\ UNCHANGED <<disks, zip, env, db, hasinit, cur, dec, held, check, num, pkt, replay, oos,
                 faults, seen>>

\* StartNewOne inserts the row, then sets its parameters, then decodeFirst puts and saves
\* the packet that started it.
InsertNewFile ==
  /\ rpc = "insert" /\ Len(rows) < MaxRows
  /\ rows' = Append(rows, [name |-> Len(rows) + 1, oti |-> NULL, received |-> 0, complete |-> FALSE])
  /\ cur' = Len(rows) + 1
  /\ rpc' = "update"
  /\ UNCHANGED <<disk, out, zip, env, db, resuming, hasinit, list, dec, held, check, num, pkt,
                 replay, oos, faults, seen>>

\* Mutant: the database is not kept open for Complete and Changename.
UpdateFECParametersUnopened ==
  /\ rpc = "update"
  /\ rows' = [rows EXCEPT ![cur].oti = Oti[pkt.file]]
  /\ dec' = NewSymbols(SymbolOverhead) /\ held' = {} /\ check' = {}
  /\ rpc' = "first" /\ oos' = TRUE /\ lost' = {}
  /\ UNCHANGED <<disk, out, zip, env, db, resuming, hasinit, list, cur, num, pkt, replay,
                 faults, stray, spoilt, handed>>

UpdateFECParameters ==
  /\ rpc = "update"
  /\ rows' = [rows EXCEPT ![cur].oti = Oti[pkt.file]]
  /\ db' = "open"
  /\ dec' = NewSymbols(SymbolOverhead) /\ held' = {} /\ check' = {}
  /\ \/ /\ rpc' = "first" /\ oos' = TRUE /\ lost' = {}
        /\ UNCHANGED <<resuming, hasinit, replay, faults>>
     \/ /\ Fault                               \* requireNonNull of the output stream
        /\ DropFirst /\ UNCHANGED <<oos, lost>>
  /\ UNCHANGED <<disk, out, zip, env, list, cur, num, pkt, stray, spoilt, handed>>

\* decodeFirst.  A failed write is logged and the packet counts; the stream is opened again
\* without asking whether that worked; without a handler SendToReceiveInit throws.
DecodeFirst ==
  /\ rpc = "first"
  /\ \/ /\ pkt.file = Junk                     \* parsePacket(...).value()
        /\ DropFirst
        /\ UNCHANGED <<disk, list, dec, held, check, num, oos, faults, lost>>
     \/ /\ pkt.file # Junk
        /\ PutPacket(pkt)
        /\ check' = {pkt.esi}
        /\ num' = num + 1
        /\ \/ /\ disk' = [disk EXCEPT ![cur] = Append(@, Record(pkt))]
              /\ UNCHANGED <<oos, faults, lost>>
           \/ /\ Fault /\ oos' \in {TRUE, ~handler}
              /\ disk' \in {[disk EXCEPT ![cur] = c] : c \in Broken(disk[cur], pkt)}
              /\ lost' = {pkt.esi}
           \/ /\ Fault /\ handler /\ oos' = FALSE
              /\ disk' = [disk EXCEPT ![cur] = Append(@, Record(pkt))]
              /\ UNCHANGED lost
        /\ IF handler
             THEN rpc' = "put" /\ list' = {} /\ UNCHANGED <<resuming, hasinit, replay>>
             ELSE DropFirst /\ UNCHANGED list
  /\ UNCHANGED <<rows, out, zip, env, db, cur, pkt, stray, spoilt, handed>>

\* The message is no packet of the block being decoded.
Foreign == pkt.file = Junk \/ Oti[pkt.file] # rows[cur].oti

\* Of a foreign message parsePacket(...).value() or the check array throws, and nothing
\* catches it; or its symbol passes for one of this block (DecodeRaptor).
DecodeForeign ==
  /\ rpc = "put" /\ Foreign
  /\ Die /\ UNCHANGED <<disks, crashes, faults>>

\* decodeRaptor.  A decoding operation is announced to the activity before it starts.
DecodeRaptor ==
  LET after == Put(dec, {pkt.esi})
  IN /\ rpc = "put" /\ pkt.file # Junk
     /\ IF StartsDecoding(dec, {pkt.esi}) /\ ~handler
          THEN Die /\ UNCHANGED <<disks, crashes>>
          ELSE /\ PutPacket(pkt)
               /\ \/ /\ after.state = INCOMPLETE
                     /\ check' = check \cup {pkt.esi}
                     /\ num' = IF pkt.esi \in check THEN num ELSE num + 1
                     /\ rpc' = IF pkt.esi \in check THEN "idle" ELSE "write"
                     /\ UNCHANGED disk
                  \/ /\ after.state = DECODED
                     /\ rpc' = "delete"
                     /\ UNCHANGED <<check, num, disk>>
                  \/ /\ after.state = DECODING_FAILURE
                     /\ rpc' = "quit"
                     /\ disk' = [disk EXCEPT ![cur] = <<>>]
                     /\ UNCHANGED <<check, num>>
               /\ spoilt' = IF stray /\ held' # held /\ rpc' # "quit"
                              THEN spoilt \cup {cur} ELSE spoilt
               /\ UNCHANGED <<rows, out, zip, env, db, resuming, hasinit, list, cur, pkt, replay,
                              oos, stray, lost, handed>>
     /\ UNCHANGED faults

\* Mutant: the log is opened anew instead of appended to.
WritePacketOverwrites ==
  /\ rpc = "write" /\ oos
  /\ disk' = [disk EXCEPT ![cur] = <<Record(pkt)>>]
  /\ rpc' = "count"
  /\ UNCHANGED <<rows, out, zip, env, db, resuming, hasinit, list, cur, dec, held, check, num,
                 pkt, replay, oos, faults, seen>>

\* writeObject.  A failure is logged and the packet counts; without a stream there is
\* nothing to catch the NullPointerException.
WritePacket ==
  /\ rpc = "write"
  /\ \/ /\ oos
        /\ \/ /\ disk' = [disk EXCEPT ![cur] = Append(@, Record(pkt))]
              /\ UNCHANGED <<faults, lost>>
           \/ /\ Fault
              /\ disk' \in {[disk EXCEPT ![cur] = c] : c \in Broken(disk[cur], pkt)}
              /\ lost' = lost \cup {pkt.esi}
        /\ rpc' = "count"
        /\ UNCHANGED <<rows, out, zip, env, db, resuming, hasinit, list, cur, dec, held, check,
                       num, pkt, replay, oos, stray, spoilt, handed>>
     \/ /\ ~oos
        /\ Die /\ UNCHANGED <<disks, crashes, faults>>

UpdateReceivedSymbolNum ==
  /\ rpc = "count"
  /\ rows' = [rows EXCEPT ![cur].received = num]
  /\ IF handler
       THEN /\ rpc' = "idle"
            /\ UNCHANGED <<zip, env, db, resuming, hasinit, list, cur, dec, held, check, num, pkt,
                           replay, oos, seen>>
       ELSE Die /\ UNCHANGED crashes           \* SendToReceiveHandler
  /\ UNCHANGED <<disk, out, faults>>

\* Mutant: the row is marked and the unzip thread told before the zip is written.
DeleteLogOnly ==
  /\ rpc = "delete"
  /\ disk' = [disk EXCEPT ![cur] = <<>>]
  /\ rpc' = "complete"
  /\ UNCHANGED <<rows, out, zip, env, db, resuming, hasinit, list, cur, dec, held, check, num,
                 pkt, replay, oos, faults, seen>>

\* The block is decoded: the log is deleted, the zip takes its name, the row is marked,
\* the unzip thread is told.
DeleteLog ==
  /\ rpc = "delete"
  /\ disk' = [disk EXCEPT ![cur] = <<>>]
  /\ rpc' = "save"
  /\ UNCHANGED <<rows, out, zip, env, db, resuming, hasinit, list, cur, dec, held, check, num,
                 pkt, replay, oos, faults, seen>>

\* A failure to create or write the zip is logged, and all goes on with what there is.
SaveZip ==
  /\ rpc = "save"
  /\ \/ /\ disk' = [disk EXCEPT ![cur] = <<Zip(DecodedWell)>>]
        /\ UNCHANGED <<faults, spoilt>>
     \/ /\ Fault
        /\ disk' \in {[disk EXCEPT ![cur] = c] : c \in {<<>>, <<Zip(FALSE)>>}}
        /\ spoilt' = spoilt \cup {cur}
  /\ rpc' = "complete"
  /\ UNCHANGED <<rows, out, zip, env, db, resuming, hasinit, list, cur, dec, held, check, num,
                 pkt, replay, oos, stray, lost, handed>>

Complete ==
  /\ rpc = "complete"
  /\ IF db = "open"
       THEN /\ rows' = [rows EXCEPT ![cur].complete = TRUE]
            /\ rpc' = "unzip"
            /\ UNCHANGED <<zip, env, db, resuming, hasinit, list, cur, dec, held, check, num, pkt,
                           replay, oos, seen>>
       ELSE Die /\ UNCHANGED <<rows, crashes>>   \* IllegalStateException
  /\ UNCHANGED <<disk, out, faults>>

\* Mutants: the looper is not quit; the unzip thread is not told.
SendToUnzipKeepsRunning ==
  /\ rpc = "unzip"
  /\ zq' = Append(zq, cur) /\ handed' = handed + 1
  /\ rpc' = "idle"
  /\ UNCHANGED <<disks, zpc, env, db, hasinit, cur, dec, held, check, num, pkt, replay, resuming,
                 list, oos, faults, stray, spoilt, lost>>

SendToUnzipForgotten ==
  /\ rpc = "unzip"
  /\ rpc' = "quit"
  /\ UNCHANGED <<disks, zip, env, db, hasinit, cur, dec, held, check, num, pkt, replay, resuming,
                 list, oos, faults, seen>>

\* RestartDecode returns to handleMessage, which goes on to decodeRaptor all the same.
SendToUnzip ==
  /\ rpc = "unzip"
  /\ zq' = Append(zq, cur) /\ handed' = handed + 1
  /\ IF resuming
       THEN rpc' = "put" /\ resuming' = FALSE /\ list' = {}
       ELSE rpc' = "quit" /\ UNCHANGED <<resuming, list>>
  /\ UNCHANGED <<disks, zpc, env, db, hasinit, cur, dec, held, check, num, pkt, replay, oos,
                 faults, stray, spoilt, lost>>

RaptorQ ==
  \/ CompareWithList \/ RestartDecode \/ Replay \/ EndReplay
  \/ InsertNewFile \/ UpdateFECParameters \/ DecodeFirst
  \/ DecodeForeign \/ DecodeRaptor \/ WritePacket \/ UpdateReceivedSymbolNum
  \/ DeleteLog \/ SaveZip \/ Complete \/ SendToUnzip

-----------------------------------------------------------------------------
(* The unzip thread.                                                       *)

\* unzip reads the file.  Any failure ends it without a word to the activity: the message
\* R.id.failed is obtained and never sent.  Of bytes that are not the sender's the stream
\* may read as much as makes a file.
UnZipFile ==
  LET item == disk[Head(zq)]
  IN /\ zq # <<>> /\ zpc = "idle"
     /\ \/ /\ item \in {<<Zip(TRUE)>>, <<Zip(FALSE)>>}
           /\ zpc' = "rename" /\ out' = out \cup {Head(zq)}
           /\ UNCHANGED faults
        \/ /\ IF item = <<Zip(TRUE)>> THEN Fault ELSE UNCHANGED faults
           /\ zpc' = "delete" /\ UNCHANGED out
     /\ UNCHANGED <<rows, disk, zq, thread, env, db, seen>>

\* Changename, CloseSqLiteDatabase, and the finish message to the activity.
Changename ==
  /\ zpc = "rename"
  /\ IF db = "open"
       THEN /\ rows' = [rows EXCEPT ![cur].name = Unzipped]
            /\ IF handler
                 THEN zpc' = "delete" /\ db' = "closed" /\ UNCHANGED <<zq, thread, env, seen>>
                 ELSE Die /\ UNCHANGED crashes
       ELSE Die /\ UNCHANGED <<rows, crashes>>
  /\ UNCHANGED <<disk, out, faults>>

\* handleMessage deletes the zip whatever came of it.
DeleteZip ==
  /\ zpc = "delete"
  /\ disk' = [disk EXCEPT ![Head(zq)] = <<>>]
  /\ zq' = Tail(zq)
  /\ zpc' = "idle"
  /\ UNCHANGED <<rows, out, thread, env, db, faults, seen>>

UnZip == UnZipFile \/ Changename \/ DeleteZip

-----------------------------------------------------------------------------
User == Launch \/ OpenReceive \/ Pause \/ Leave
Next == User \/ Kill \/ KillInWrite \/ (\E e \in ESI : Receive(e)) \/ ReceiveStray \/ RaptorQ \/ UnZip

\* Threads run when they can; the sender's video loops, so each of its packets is seen
\* again and again; a user who has not got the file opens the app and the page again.
Fairness ==
  /\ WF_vars(RaptorQ) /\ WF_vars(UnZip)
  /\ \A e \in ESI : SF_vars(Receive(e))
  /\ WF_vars(Launch) /\ WF_vars(Leave) /\ WF_vars(OpenReceive)

Spec == Init /\ [][Next]_vars
FairSpec == Spec /\ Fairness

-----------------------------------------------------------------------------
(* Properties.                                                             *)

Steps == {"idle", "compare", "restart", "replay", "insert", "update", "first", "put",
          "write", "count", "delete", "save", "complete", "unzip", "quit"}

\* The variables keep their types.
TypeOK ==
  /\ rows \in Seq(Row) /\ Len(rows) <= MaxRows
  /\ disk \in [Name -> Seq(Item)]
  /\ out \subseteq Name
  /\ proc \in {"down", "menu", "receiving"} /\ handler \in BOOLEAN
  /\ rpc \in Steps /\ resuming \in BOOLEAN /\ hasinit \in BOOLEAN
  /\ list \subseteq [id : Name, oti : {Oti[c] : c \in Codes} \cup {NULL}]
  /\ cur \in Nat /\ dec \in Symbols /\ held \subseteq Packet /\ check \subseteq ESI /\ num \in Nat
  /\ pkt \in Message \cup {NULL} /\ replay \in Seq(Packet) /\ oos \in BOOLEAN
  /\ db \in {"none", "open", "closed"}
  /\ zpc \in {"idle", "rename", "delete"} /\ zq \in Seq(Name)
  /\ crashes \in Nat /\ sessions \in Nat /\ left \in Nat /\ faults \in Nat
  /\ stray \in BOOLEAN /\ spoilt \subseteq Name /\ lost \subseteq ESI /\ handed \in Nat

\* Between two packets the decoder, its data, the check array and the progress number
\* shown to the user all speak of the same packets, and the decoder is still collecting.
ProgressIsReal ==
  Ready => /\ dec.state = INCOMPLETE
           /\ check = Held(dec)
           /\ check = {p.esi : p \in held}
           /\ num = Cardinality(check)

OnlyRecords(c) == \A i \in DOMAIN c : c[i].kind = "packet"
Logged(c) == {c[i].packet.esi : i \in {j \in DOMAIN c : c[j].kind = "packet"}}

\* What the receiver has counted is what a later visit can resume from: between two
\* packets the log holds the packets of the check array, each of them once, but for those
\* whose own record could not be written.  (A log that begins with zip bytes or holds a
\* torn record is another matter.)
CountedIsSaved ==
  Ready /\ OnlyRecords(disk[cur]) =>
    /\ Logged(disk[cur]) = check \ lost
    /\ Len(disk[cur]) = num - Cardinality(lost)

\* The zip the unzip thread is about to read is the whole zip of one sent file, over any
\* kills and resumptions, unless a stray or pieced packet got into the reception, the
\* zip could not be written, or the block is being decoded for a second time (see
\* HandedOverOnce).
UnzipsWholeFiles ==
  /\ zq # <<>> /\ zpc = "idle"
  /\ handed = 1 /\ rpc = "quit" /\ Head(zq) \notin spoilt
  => disk[Head(zq)] = <<Zip(TRUE)>>

\* A reception is handed to the unzip thread once in a visit.  A block of one symbol may be
\* decoded by its log alone, and then the packet that resumed it decodes it again.
HandedOverOnce == handed <= IF K = 1 THEN 2 ELSE 1

\* No exception ends the process while the page is in the foreground, but for a stray
\* code, a log that could not be opened again, and the second decoding of a block of
\* one symbol, which finds the database closed.
NoUncaughtException ==
  [][proc # "down" /\ proc' = "down" =>
       \/ crashes' = crashes + 1
       \/ ~handler
       \/ rpc = "put" /\ stray
       \/ rpc = "write" /\ ~oos
       \/ K = 1 /\ handed = 1]_vars

\* A completed row is final: it stays complete, its count stays, and its temporary file
\* never becomes a log again.
CompletedIsFinal ==
  [][\A i \in DOMAIN rows : rows[i].complete =>
       /\ rows'[i].complete /\ rows'[i].received = rows[i].received
       /\ rows[i].name \in Name => \A j \in DOMAIN disk'[rows[i].name] :
                                     disk'[rows[i].name][j].kind = "zip"]_vars

\* A row without parameters, in the way of every later comparison.
Poisoned ==
  \E i \in DOMAIN rows : rows[i].oti = NULL /\ ~(rpc = "update" /\ cur = i)

\* As long as no row was left without its parameters, no file operation failed, and only
\* packets that belong there got into a reception, a file is received in the end, however
\* often the process was killed before.
EventuallyReceived == [](~Poisoned /\ faults = 0 /\ spoilt = {}) => <>(out # {})

\* "Deletes the empty files of the database and the disk, and the database's data that
\* is not stored locally": what DeleteEmptyFile is said to have done when the menu is up.
StartupPurgesEmptyRows ==
  [][proc = "down" /\ proc' = "menu" => \A i \in DOMAIN rows' : rows'[i].oti # NULL]_vars

\* "The temporary file, used for resuming": every record written whole is read again.
ResumeReadsEveryRecord ==
  rpc = "restart" => \A r \in ReadObject(disk[cur]) :
    Logged(disk[cur]) \subseteq {r[i].esi : i \in DOMAIN r}

-----------------------------------------------------------------------------
(* The promise of resumable reception, and what stands for its variables.  *)

Phase == [n \in Name |-> IF n \notin DOMAIN rows THEN "new"
                         ELSE IF rows[n].complete THEN "complete" ELSE "open"]
Saved == [n \in Name |-> {disk[n][i].packet.esi : i \in 1 .. WholePrefix(disk[n])}]
Whole == {n \in Name : disk[n] = <<Zip(TRUE)>>}

Transfer == INSTANCE ResumableTransfer
              WITH phase <- Phase, saved <- Saved, whole <- Whole

\* The receiver implements resumable reception: packets are saved one at a time, a row is
\* completed only with the whole zip in place unless the reception is spoilt, and only
\* completed rows are unzipped.
RefinesTransfer == Transfer!Spec
=============================================================================
