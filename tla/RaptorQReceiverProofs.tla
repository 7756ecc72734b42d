------------------------ MODULE RaptorQReceiverProofs ------------------------
(***************************************************************************)
(* The safety properties of resumable reception, and that it implements    *)
(* what is promised (ResumableTransfer), for every size of a block, every  *)
(* family of singular sets, and any number of files, visits and kills.     *)
(***************************************************************************)
EXTENDS RaptorQReceiver, SymbolsStateProofs, SequenceTheorems

\* No two files agree in their FEC parameters.
DistinctOti == \A f, g \in Files : Oti[f] = Oti[g] => f = g

-----------------------------------------------------------------------------
(* A decoder that is still collecting, and the logs it can be resumed from. *)

\* Symbols that neither are all the source symbols nor enough to try a decoding.
Collects(E) == E \subseteq ESI /\ ~(Source \subseteq E) /\ Cardinality(E) < K + SymbolOverhead

\* Symbols that a log may hold: a block of one symbol is decoded by the packet that starts
\* it, which is saved all the same.
Loggable(E) == Collects(E) \/ (K = 1 /\ E = {0})

\* The decoder that was given exactly these symbols.
Made(E) == [sources |-> E \cap Source, repairs |-> E \cap Repair,
            state |-> IF Source \subseteq E THEN DECODED ELSE INCOMPLETE,
            overhead |-> SymbolOverhead]

\* The packets that a reading of c may return: the records at its head, and the first torn one.
Readable(c) == {c[i].packet.esi : i \in {j \in DOMAIN c : /\ c[j].kind # "zip"
                                                       /\ \A k \in 1 .. j - 1 : c[k].kind = "packet"}}

Esis(r) == {r[i].esi : i \in DOMAIN r}

\* A reception under way, from the replay of its log to the handing over of its zip.
Under == {"replay", "put", "write", "count", "delete", "save", "complete", "unzip"}
Active == rpc \in Under \/ Ready

\* Receiving; the decoder has what was counted, even while a log that decoded by itself is
\* being turned into the zip.
Counting == rpc \in {"replay", "put", "write", "count"} \/ Ready \/ resuming

\* The steps from a decoded block to the handing over of its zip.
Closing == {"delete", "save", "complete", "unzip"}

\* A file that is no log any more.
ZipFile(c) == c = <<>> \/ \E w \in BOOLEAN : c = <<Zip(w)>>

-----------------------------------------------------------------------------
(* The parts of the invariant.                                             *)

\* A row's temporary file has the row's number in its name until it is unzipped; a file
\* that has anything in it belongs to a row with parameters, and that of a complete row is
\* no log.
RowsOK ==
  /\ \A i \in DOMAIN rows : rows[i].name \in {i, Unzipped}
  /\ \A n \in Name : disk[n] # <<>> => n \in DOMAIN rows /\ rows[n].oti # NULL
  /\ \A i \in DOMAIN rows : rows[i].complete => ZipFile(disk[i])

\* The list was read when the visit began, and none of its rows has been completed since,
\* but perhaps the one being resumed.
ListOK ==
  /\ \A r \in list : /\ r.id \in DOMAIN rows /\ r.oti = rows[r.id].oti
                     /\ resuming \/ ~rows[r.id].complete
  /\ rpc \in {"update", "first"} => \A r \in list : r.id # cur
  /\ Active /\ ~resuming => list = {}

\* No thread outlives the process.
DownOK == proc = "down" => rpc = "idle" /\ ~hasinit

\* What a message is: one that does not belong is met by a reception under way, or is none.
MessageOK ==
  rpc \notin {"idle", "quit"} =>
    /\ hasinit /\ pkt \in Message
    /\ pkt.file = Junk => stray
    /\ stray => pkt.file = Junk \/ rpc \in Under \ {"replay"}

\* The row a reception is written to: it is of the message's file unless that is stray, and
\* not complete until it is marked; the database is open until the zip is unzipped.
RowOK ==
  /\ Active \/ rpc \in {"restart", "first"} =>
       /\ cur \in DOMAIN rows /\ rows[cur].oti # NULL
       /\ rows[cur].complete <=> rpc = "unzip" \/ handed = 1
       /\ db = "open" \/ handed = 1
  /\ rpc \in Under \cup {"restart", "first"} => stray \/ rows[cur].oti = Oti[pkt.file]
  /\ rpc = "update" => cur \in DOMAIN rows /\ rows[cur].oti = NULL /\ ~rows[cur].complete

\* What is empty: the file of a new row and of a decoded one, the decoder of a new row, and
\* the count of a visit that has not begun to receive.
FreshOK ==
  /\ rpc \in {"update", "first", "save"} => disk[cur] = <<>>
  /\ rpc = "complete" => ZipFile(disk[cur])
  /\ rpc = "first" => dec = Made({}) /\ held = {} /\ lost = {}
  /\ handler /\ (rpc \in {"compare", "insert", "update", "first"} \/ (rpc = "idle" /\ ~hasinit)) => num = 0

\* How often the zip was handed over: once, after which the thread ends, or twice when a log
\* of one symbol was resumed and its block is decoded again.
HandedOK ==
  /\ rpc \notin {"put", "quit"} \cup Closing => handed = 0
  /\ rpc \in {"put"} \cup Closing => handed = 0 \/ (handed = 1 /\ K = 1)
  /\ rpc = "quit" => handed \in {0, 1} \/ (handed = 2 /\ K = 1)
  /\ rpc = "put" /\ handed = 1 => Decoded(dec)
  /\ rpc = "replay" => resuming
  /\ resuming => /\ rpc \in {"replay"} \cup Closing /\ handed = 0
                 /\ rpc # "replay" => K = 1 /\ Decoded(dec)

\* The unzip thread works for a RaptorQ thread that has ended or decodes again.  The first
\* zip that is unzipped closes the database; nothing is left then of the second.
ZipOK ==
  /\ zq # <<>> => /\ zq \in {<<cur>>, <<cur, cur>>} /\ cur \in DOMAIN rows /\ rows[cur].complete
                  /\ handed >= 1 /\ (zq = <<cur, cur>> => handed = 2)
  /\ zpc # "idle" => zq # <<>>
  /\ zpc = "rename" => db = "open"
  /\ zq # <<>> /\ zpc = "idle" => db = "open" \/ (handed = 2 /\ disk[cur] = <<>>)
  /\ rpc = "unzip" /\ zq = <<>> => db = "open" \/ disk[cur] = <<>>

\* Decoder, data, check array and progress number speak of the same packets.
DecoderOK ==
  Counting => /\ Loggable(check) /\ (Collects(check) \/ resuming \/ rpc = "put")
              /\ dec = Made(check)
              /\ {p.esi : p \in held} = check /\ num = Cardinality(check)

\* What is read from a log does not decode, and a log of records alone has each packet once.
LogsOK ==
  \A n \in Name : /\ Loggable(Readable(disk[n]))
                  /\ OnlyRecords(disk[n]) => Len(disk[n]) = Cardinality(Logged(disk[n]))

\* The log of the reception under way against its check array.
SavedOK ==
  /\ Counting /\ handed = 0 => lost \subseteq check
  /\ rpc = "replay" => /\ Loggable(check \cup Esis(replay)) /\ lost = {}
                       /\ OnlyRecords(disk[cur]) => Logged(disk[cur]) = check \cup Esis(replay)
  /\ (Ready \/ rpc \in {"put", "count"}) /\ handed = 0 /\ OnlyRecords(disk[cur]) =>
       Logged(disk[cur]) = check \ lost
  /\ rpc = "write" => /\ pkt.esi \in check /\ pkt.esi \notin lost
                      /\ OnlyRecords(disk[cur]) => Logged(disk[cur]) = (check \ lost) \ {pkt.esi}

\* A file whose records are of a file with these parameters, whole zip bytes aside.
Clean(c, oti) ==
  \A i \in DOMAIN c : /\ c[i].kind # "zip" => Oti[c[i].packet.file] = oti
                      /\ c[i].kind = "packet" => c[i].packet.intact

\* Of a reception that is not spoilt every packet logged is of the file of its row, and so is,
\* and is whole, every packet held or about to be put; what is handed over is the whole zip.
FilesClean  == \A n \in Name : n \in spoilt \/ Clean(disk[n], rows[n].oti)
HeldClean   == Active /\ cur \notin spoilt => \A p \in held : p.intact /\ Oti[p.file] = rows[cur].oti
ReplayClean == rpc = "replay" /\ cur \notin spoilt =>
                 \A i \in DOMAIN replay : replay[i].intact /\ Oti[replay[i].file] = rows[cur].oti
WriteClean  == rpc = "write" /\ stray => cur \in spoilt
ZipWhole    ==
  /\ (rpc \in {"complete", "unzip"} \/ zq # <<>>) /\ cur \notin spoilt =>
       disk[cur] \in {<<>>, <<Zip(TRUE)>>}
  /\ cur \notin spoilt /\ \/ rpc \in {"complete", "unzip"} /\ handed = 0
                          \/ rpc = "quit" /\ handed = 1 /\ zq # <<>> /\ zpc # "delete"
       => disk[cur] = <<Zip(TRUE)>>

DataOK == FilesClean /\ HeldClean /\ ReplayClean /\ WriteClean /\ ZipWhole

\* What the types rest on: a handler that is at work has a message; a reception under way,
\* and every row of the list, is a row of the table; the unzip thread works on its queue.
Placed ==
  /\ rpc \notin {"idle", "quit"} => pkt \in Message
  /\ Active \/ rpc \in {"restart", "update", "first"} => cur \in DOMAIN rows
  /\ \A r \in list : r.id \in DOMAIN rows
  /\ zpc # "idle" => zq # <<>>
  /\ zq # <<>> => cur \in DOMAIN rows
  /\ rpc = "write" => pkt \in Packet

TInv == TypeOK /\ Placed

Parts ==
  /\ RowsOK /\ ListOK /\ DownOK /\ MessageOK /\ RowOK /\ FreshOK /\ HandedOK /\ ZipOK
  /\ DecoderOK /\ LogsOK /\ SavedOK

\* The inductive invariant; DataOK is inductive relative to it when parameters tell files
\* apart.
RInv == TInv /\ Parts

-----------------------------------------------------------------------------
(* The logs.                                                               *)

\* What an item of a file is.
LEMMA ItemKinds ==
  ASSUME NEW x \in Item
  PROVE  /\ x.kind \in {"packet", "torn", "zip"}
         /\ x.kind # "zip" => x.packet \in Packet
         /\ x.kind = "packet" => x = Record(x.packet)
         /\ x.kind = "zip" => \E w \in BOOLEAN : x = Zip(w)
BY DEF Item, Record, Torn, Zip

\* The items a file is made of.
LEMMA Items ==
  /\ \A p \in Packet : /\ Record(p) \in Item /\ Record(p).kind = "packet" /\ Record(p).packet = p
                       /\ Torn(p) \in Item /\ Torn(p).kind = "torn" /\ Torn(p).packet = p
  /\ \A w \in BOOLEAN : Zip(w) \in Item /\ Zip(w).kind = "zip" /\ Zip(w).whole = w
BY DEF Item, Record, Torn, Zip

\* ReadObject stops at the first item that is not a whole record.
LEMMA WholePrefixFacts ==
  ASSUME NEW c \in Seq(Item)
  PROVE  /\ WholePrefix(c) \in 0 .. Len(c)
         /\ \A i \in 1 .. WholePrefix(c) : c[i].kind = "packet"
         /\ WholePrefix(c) < Len(c) => c[WholePrefix(c) + 1].kind # "packet"
<1>0. Len(c) \in Nat
  OBVIOUS
<1>1. CASE \A i \in 1 .. Len(c) : c[i].kind = "packet"
  BY <1>0, <1>1 DEF WholePrefix
<1>2. CASE ~ \A i \in 1 .. Len(c) : c[i].kind = "packet"
  <2> DEFINE T == {i \in 1 .. Len(c) : c[i].kind # "packet"}
             Stops(n) == /\ c[n + 1].kind # "packet"
                         /\ \A i \in 1 .. n : c[i].kind = "packet"
  <2>1. T \in SUBSET Nat /\ T # {}
    BY <1>0, <1>2
  <2>2. PICK x \in T : \A y \in T : x <= y
    BY <2>1, Least
  <2>3. x \in 1 .. Len(c) /\ c[x].kind # "packet"
    BY <2>2
  <2>4. x - 1 \in 0 .. Len(c) - 1 /\ (x - 1) + 1 = x
    BY <1>0, <2>3
  <2>5. \A i \in 1 .. x - 1 : c[i].kind = "packet"
    BY <1>0, <2>2, <2>3
  <2>6. Stops(x - 1)
    BY <2>3, <2>4, <2>5
  <2>7. WholePrefix(c) = CHOOSE n \in 0 .. Len(c) - 1 : Stops(n)
    BY <1>2, Zenon DEF WholePrefix
  <2> HIDE DEF Stops, T
  <2>8. WholePrefix(c) \in 0 .. Len(c) - 1 /\ Stops(WholePrefix(c))
    BY <2>4, <2>6, <2>7, Zenon
  <2> QED BY <1>0, <2>8 DEF Stops
<1> QED BY <1>1, <1>2

\* A whole file has nothing in it, or records alone, or begins with zip bytes: what is read
\* from these.
LEMMA EmptyLog ==
  /\ <<>> \in Seq(Item) /\ Len(<<>>) = 0
  /\ OnlyRecords(<<>>) /\ Logged(<<>>) = {} /\ Readable(<<>>) = {}
BY DEF OnlyRecords, Logged, Readable

\* A file of zip bytes is no log: nothing is read from it.
LEMMA ZipLog ==
  ASSUME NEW w \in BOOLEAN
  PROVE  /\ <<Zip(w)>> \in Seq(Item) /\ Len(<<Zip(w)>>) = 1
         /\ ~OnlyRecords(<<Zip(w)>>) /\ Readable(<<Zip(w)>>) = {}
<1>1. Zip(w) \in Item /\ Zip(w).kind = "zip"
  BY Items
<1> QED BY <1>1 DEF OnlyRecords, Readable

\* Appending one item to a file.
LEMMA AppendItem ==
  ASSUME NEW c \in Seq(Item), NEW x \in Item
  PROVE  /\ Append(c, x) \in Seq(Item) /\ Len(Append(c, x)) = Len(c) + 1
         /\ OnlyRecords(Append(c, x)) <=> OnlyRecords(c) /\ x.kind = "packet"
         /\ x.kind = "packet" => Logged(Append(c, x)) = Logged(c) \cup {x.packet.esi}
         /\ ~OnlyRecords(c) => Readable(Append(c, x)) = Readable(c)
         /\ OnlyRecords(c) /\ x.kind # "zip" =>
              Readable(Append(c, x)) = Logged(c) \cup {x.packet.esi}
<1> DEFINE d == Append(c, x)
           n == Len(c)
<1>1. n \in Nat /\ DOMAIN c = 1 .. n
  OBVIOUS
<1>2. /\ d \in Seq(Item) /\ Len(d) = n + 1 /\ DOMAIN d = 1 .. n + 1
      /\ d[n + 1] = x /\ \A i \in 1 .. n : d[i] = c[i]
  OBVIOUS
<1> HIDE DEF d, n
<1>3. OnlyRecords(d) <=> OnlyRecords(c) /\ x.kind = "packet"
  BY <1>1, <1>2 DEF OnlyRecords
<1>4. ASSUME x.kind = "packet" PROVE Logged(d) = Logged(c) \cup {x.packet.esi}
  BY <1>1, <1>2, <1>4 DEF Logged
<1>5. ASSUME ~OnlyRecords(c) PROVE Readable(d) = Readable(c)
  <2>1. PICK k \in 1 .. n : c[k].kind # "packet"
    BY <1>1, <1>5 DEF OnlyRecords
  <2>2. k \in 1 .. (n + 1) - 1 /\ d[k].kind # "packet"
    BY <1>1, <1>2, <2>1
  <2> DEFINE Read(s) == {j \in DOMAIN s : /\ s[j].kind # "zip"
                                          /\ \A i \in 1 .. j - 1 : s[i].kind = "packet"}
  <2>3. ASSUME NEW j PROVE j \in Read(d) <=> j \in Read(c)
    <3>1. CASE j \in 1 .. n
      BY <1>1, <1>2, <3>1
    <3>2. CASE j = n + 1
      BY <1>1, <1>2, <2>2, <3>2
    <3> QED BY <1>1, <1>2, <3>1, <3>2
  <2>4. Read(d) = Read(c) /\ Read(c) \subseteq 1 .. n
    BY <1>1, <2>3
  <2>5. Readable(d) = {d[i].packet.esi : i \in Read(d)} /\ Readable(c) = {c[i].packet.esi : i \in Read(c)}
    BY DEF Readable
  <2> HIDE DEF Read
  <2> QED BY <1>2, <2>4, <2>5
<1>6. ASSUME OnlyRecords(c), x.kind # "zip" PROVE Readable(d) = Logged(c) \cup {x.packet.esi}
  <2>1. \A i \in 1 .. n : c[i].kind = "packet"
    BY <1>1, <1>6 DEF OnlyRecords
  <2>2. \A j \in DOMAIN d : d[j].kind # "zip" /\ \A k \in 1 .. j - 1 : d[k].kind = "packet"
    BY <1>1, <1>2, <1>6, <2>1
  <2>3. Readable(d) = {d[i].packet.esi : i \in DOMAIN d}
    BY <2>2 DEF Readable
  <2>4. Logged(c) = {c[i].packet.esi : i \in DOMAIN c}
    BY <1>1, <2>1 DEF Logged
  <2> QED BY <1>1, <1>2, <2>3, <2>4
<1> QED BY <1>2, <1>3, <1>4, <1>5, <1>6 DEF d, n

\* What one reading of a log returns.
LEMMA ReadObjectFacts ==
  ASSUME NEW c \in Seq(Item), NEW r \in ReadObject(c)
  PROVE  /\ r \in Seq(Packet)
         /\ Esis(r) \subseteq Readable(c)
         /\ OnlyRecords(c) => Esis(r) = Logged(c)
         /\ (\A j \in DOMAIN c : c[j].kind # "torn") =>
              \A i \in DOMAIN r : \E j \in DOMAIN c : c[j].kind = "packet" /\ r[i] = c[j].packet
<1> DEFINE n     == WholePrefix(c)
           whole == [i \in 1 .. n |-> c[i].packet]
           torn  == n < Len(c) /\ c[n + 1].kind = "torn"
<1>1. /\ Len(c) \in Nat /\ DOMAIN c = 1 .. Len(c)
      /\ n \in 0 .. Len(c)
      /\ \A i \in 1 .. n : i \in DOMAIN c /\ c[i] \in Item /\ c[i].kind = "packet"
      /\ n < Len(c) => n + 1 \in DOMAIN c /\ c[n + 1] \in Item /\ c[n + 1].kind # "packet"
  BY WholePrefixFacts
<1>2. \/ r = whole
      \/ torn /\ r = Append(whole, Pieced(c))
  <2>1. n + 1 < Len(c) => n < Len(c)
    BY <1>1
  <2> QED BY <2>1 DEF ReadObject
<1>3. Pieced(c) = [c[n + 1].packet EXCEPT !.intact = FALSE]
  BY DEF Pieced
<1> HIDE DEF n
<1>4. /\ whole \in Seq(Packet) /\ Len(whole) = n /\ DOMAIN whole = 1 .. n
      /\ \A i \in 1 .. n : whole[i] = c[i].packet
  <2>1. \A i \in 1 .. n : c[i].packet \in Packet
    BY <1>1, ItemKinds
  <2> QED BY <1>1, <2>1
<1> HIDE DEF whole
<1>5. \A i \in 1 .. n : whole[i].esi \in Readable(c)
  <2>1. ASSUME NEW i \in 1 .. n
        PROVE  i \in DOMAIN c /\ c[i].kind # "zip" /\ \A k \in 1 .. i - 1 : c[k].kind = "packet"
    BY <1>1
  <2> QED BY <1>4, <2>1 DEF Readable
<1>6. CASE r = whole
  <2>1. Esis(r) \subseteq Readable(c)
    BY <1>4, <1>5, <1>6 DEF Esis
  <2>2. ASSUME OnlyRecords(c) PROVE Esis(r) = Logged(c)
    <3>2. \A i \in DOMAIN c : c[i].kind = "packet"
      BY <2>2 DEF OnlyRecords
    <3>3. ~(n < Len(c))
      BY <1>1, <3>2
    <3>4. n \in Int /\ Len(c) \in Int /\ n <= Len(c)
      BY <1>1
    <3>1. n = Len(c)
      BY <3>3, <3>4
    <3> QED BY <1>1, <1>4, <1>6, <3>1, <3>2 DEF Esis, Logged
  <2> QED BY <1>1, <1>4, <1>6, <2>1, <2>2
<1>7. CASE torn /\ r = Append(whole, Pieced(c))
  <2> DEFINE p == c[n + 1].packet
             q == Pieced(c)
  <2>1. n + 1 \in DOMAIN c /\ c[n + 1] \in Item /\ c[n + 1].kind = "torn"
    BY <1>1, <1>7
  <2>2. p \in Packet
    BY <2>1, ItemKinds
  <2>3. q \in Packet /\ q.esi = p.esi
    BY <1>3, <2>2 DEF Packet
  <2> HIDE DEF q
  <2>4. /\ r \in Seq(Packet) /\ DOMAIN r = 1 .. n + 1 /\ r[n + 1] = q
        /\ \A i \in 1 .. n : r[i] = whole[i]
    BY <1>1, <1>4, <1>7, <2>3 DEF q
  <2>5. p.esi \in Readable(c)
    <3>1. \A k \in 1 .. (n + 1) - 1 : c[k].kind = "packet"
      BY <1>1
    <3> QED BY <2>1, <3>1 DEF Readable
  <2>6. Esis(r) \subseteq Readable(c)
    BY <1>1, <1>5, <2>3, <2>4, <2>5 DEF Esis
  <2>7. ~OnlyRecords(c)
    BY <2>1 DEF OnlyRecords
  <2> QED BY <2>1, <2>4, <2>6, <2>7
<1> QED BY <1>2, <1>6, <1>7

\* A queue of packets and its first one.
LEMMA FirstPacket ==
  ASSUME NEW r \in Seq(Packet), r # <<>>
  PROVE  /\ Head(r) \in Packet /\ Tail(r) \in Seq(Packet)
         /\ Esis(r) = {Head(r).esi} \cup Esis(Tail(r))
         /\ \E i \in DOMAIN r : Head(r) = r[i]
         /\ \A i \in DOMAIN Tail(r) : \E j \in DOMAIN r : Tail(r)[i] = r[j]
<1>1. /\ Head(r) \in Packet /\ Tail(r) \in Seq(Packet) /\ Len(Tail(r)) = Len(r) - 1
      /\ \A i \in 1 .. Len(Tail(r)) : Tail(r)[i] = r[i + 1]
  BY HeadTailProperties
<1>2. Len(r) \in Nat /\ Len(r) # 0 /\ Head(r) = r[1]
  OBVIOUS
<1>3. DOMAIN r = 1 .. Len(r) /\ DOMAIN Tail(r) = 1 .. Len(r) - 1
  BY <1>1
<1>4. \A i \in DOMAIN Tail(r) : i + 1 \in DOMAIN r /\ Tail(r)[i] = r[i + 1]
  BY <1>1, <1>2, <1>3
<1>5. \A j \in DOMAIN r : j = 1 \/ (j - 1 \in DOMAIN Tail(r) /\ Tail(r)[j - 1] = r[j])
  BY <1>1, <1>2, <1>3
<1>6. Esis(r) \subseteq {Head(r).esi} \cup Esis(Tail(r))
  BY <1>2, <1>5 DEF Esis
<1>7. {Head(r).esi} \cup Esis(Tail(r)) \subseteq Esis(r)
  BY <1>2, <1>3, <1>4 DEF Esis
<1> QED BY <1>1, <1>2, <1>3, <1>4, <1>6, <1>7

\* No packets have no ESIs.
LEMMA NoPackets == Esis(<<>>) = {} /\ <<>> \in Seq(Packet)
BY DEF Esis

-----------------------------------------------------------------------------
(* The decoder while it collects.                                          *)

\* The packets read from a log are finitely many.
LEMMA EsisFinite ==
  /\ IsFiniteSet(ESI) /\ Source \subseteq ESI /\ Repair \subseteq ESI
  /\ Source \cap Repair = {} /\ ESI \subseteq Nat /\ 0 \in Source
  /\ \A E \in SUBSET ESI : IsFiniteSet(E) /\ Cardinality(E) \in Nat
<1>1. K - 1 \in Int /\ K + NumRepairSymbols - 1 \in Int /\ K \in Nat \ {0} /\ NumRepairSymbols \in Nat
  BY BlockAssumption
<1>2. IsFiniteSet(Source) /\ IsFiniteSet(Repair)
  BY <1>1, FS_Interval DEF Source, Repair
<1>3. IsFiniteSet(ESI)
  BY <1>2, FS_Union DEF ESI
<1>4. \A E \in SUBSET ESI : IsFiniteSet(E) /\ Cardinality(E) \in Nat
  BY <1>3, FS_Subset, FS_CardinalityType
<1> QED BY <1>1, <1>3, <1>4 DEF Source, Repair, ESI

\* Fewer symbols collect as well.
LEMMA CollectsSubset ==
  ASSUME NEW E, Collects(E), NEW D \in SUBSET E
  PROVE  Collects(D)
<1>1. E \in SUBSET ESI /\ D \in SUBSET ESI
  BY DEF Collects
<1>2. Cardinality(D) <= Cardinality(E) /\ Cardinality(D) \in Nat /\ Cardinality(E) \in Nat
  BY <1>1, EsisFinite, FS_Subset
<1> QED BY <1>1, <1>2, BlockAssumption DEF Collects, SymbolOverhead

\* No symbol decodes a block; one may, but a log may hold it.
LEMMA LoggableFew == Collects({}) /\ \A e \in ESI : Loggable({e})
<1>1. Collects({})
  <2>1. Cardinality({}) = 0
    BY FS_EmptySet
  <2>2. ~(Source \subseteq {})
    BY EsisFinite
  <2> QED BY <2>1, <2>2, BlockAssumption DEF Collects, SymbolOverhead
<1>2. ASSUME NEW e \in ESI PROVE Loggable({e})
  <2>1. Cardinality({e}) = 1 /\ 1 < K + SymbolOverhead
    BY FS_Singleton, BlockAssumption DEF SymbolOverhead
  <2>2. CASE Source \subseteq {e}
    <3>1. 0 \in Source
      BY EsisFinite
    <3>2. e = 0
      BY <2>2, <3>1
    <3>3. K \in Nat /\ (K > 1 => 1 \in Source) /\ K # 0
      BY BlockAssumption DEF Source
    <3>4. K = 1
      BY <2>2, <3>2, <3>3
    <3> QED BY <3>2, <3>4 DEF Loggable
  <2>3. CASE ~(Source \subseteq {e})
    BY <2>1, <2>3 DEF Loggable, Collects
  <2> QED BY <2>2, <2>3
<1> QED BY <1>1, <1>2

\* Fewer symbols than a log may hold may be held as well.
LEMMA LoggableSubset ==
  ASSUME NEW E, Loggable(E), NEW D \in SUBSET E
  PROVE  Loggable(D) /\ D \subseteq ESI /\ E \subseteq ESI
<1>1. CASE Collects(E)
  BY <1>1, CollectsSubset DEF Loggable, Collects
<1>2. CASE K = 1 /\ E = {0}
  <2>1. D = {} \/ D = {0}
    BY <1>2
  <2>2. 0 \in ESI
    BY EsisFinite
  <2> QED BY <1>2, <2>1, <2>2, LoggableFew DEF Loggable
<1> QED BY <1>1, <1>2 DEF Loggable

\* What a block of one symbol needs is its source symbol.
LEMMA LoggableSource ==
  ASSUME NEW E, Loggable(E), Source \subseteq E
  PROVE  K = 1 /\ E = {0}
BY DEF Loggable, Collects

\* One symbol more or less, counted.
LEMMA OneMore ==
  ASSUME NEW E \in SUBSET ESI, NEW e \in ESI
  PROVE  Cardinality(E \cup {e}) = IF e \in E THEN Cardinality(E) ELSE Cardinality(E) + 1
<1>1. IsFiniteSet(E)
  BY EsisFinite
<1>2. e \in E => E \cup {e} = E
  OBVIOUS
<1> QED BY <1>1, <1>2, FS_AddElement

\* A decoder that was given these symbols: its type, what it holds, whether it is decoded.
LEMMA MadeFacts ==
  ASSUME NEW E \in SUBSET ESI
  PROVE  /\ Made(E) \in Symbols /\ Held(Made(E)) = E
         /\ Made(E).sources = E \cap Source /\ Made(E).repairs = E \cap Repair
         /\ Made(E).overhead = SymbolOverhead
         /\ Made(E).state = IF Source \subseteq E THEN DECODED ELSE INCOMPLETE
         /\ Decoded(Made(E)) <=> Source \subseteq E
BY DEF Made, Symbols, Held, Decoded, SymbolOverhead, SourceBlockState,
       INCOMPLETE, DECODED, ESI

\* A new decoder has nothing yet.
LEMMA NewDecoder == NewSymbols(SymbolOverhead) = Made({})
BY EsisFinite DEF NewSymbols, Made

\* Whether the symbols are enough for an attempt.
LEMMA MadeCount ==
  ASSUME NEW E \in SUBSET ESI
  PROVE  HaveEnoughSymbolsToDecode(Made(E)) <=> Cardinality(E) >= K + SymbolOverhead
<1> DEFINE S == E \cap Source
           R == E \cap Repair
<1>1. S \cup R = E /\ S \cap R = {} /\ S \in SUBSET ESI /\ R \in SUBSET ESI
  BY EsisFinite DEF ESI
<1>2. /\ IsFiniteSet(S) /\ IsFiniteSet(R) /\ Cardinality(S) \in Nat /\ Cardinality(R) \in Nat
  BY <1>1, EsisFinite
<1>3. Cardinality(S \cup R) = Cardinality(S) + Cardinality(R) - Cardinality(S \cap R)
  BY <1>2, FS_Union
<1>4. Cardinality(S \cap R) = 0
  BY <1>1, FS_EmptySet
<1>5. Cardinality(E) = Cardinality(S) + Cardinality(R)
  <2>1. \A a, b \in Nat : a + b - 0 = a + b
    OBVIOUS
  <2>2. Cardinality(E) = Cardinality(S \cup R)
    BY <1>1, Zenon
  <2> HIDE DEF S, R
  <2> QED BY <1>2, <1>3, <1>4, <2>1, <2>2, Zenon
<1> QED BY <1>5, MadeFacts DEF HaveEnoughSymbolsToDecode

\* putEncodingPacket of one packet on a collecting decoder: it goes on collecting exactly
\* when the symbols are still too few, and then it holds one more.
LEMMA CollectingPut ==
  ASSUME NEW E, Collects(E), NEW e \in ESI
  PROVE  /\ e \in E => Put(Made(E), {e}) = Made(E)
         /\ Collects(E \cup {e}) => Put(Made(E), {e}) = Made(E \cup {e})
         /\ Put(Made(E), {e}).state = INCOMPLETE => Collects(E \cup {e})
<1> DEFINE s == Made(E)
           D == E \cup {e}
<1>1. E \in SUBSET ESI /\ D \in SUBSET ESI /\ ~(Source \subseteq E)
  BY DEF Collects
<1>2. /\ s \in Symbols /\ Held(s) = E /\ ~Decoded(s) /\ s.state = INCOMPLETE
      /\ s.sources = E \cap Source /\ s.repairs = E \cap Repair /\ s.overhead = SymbolOverhead
  BY <1>1, MadeFacts
<1>3. CASE e \in E
  <2>1. Put(s, {e}) = s
    BY <1>2, <1>3 DEF Put
  <2>2. D = E
    BY <1>3
  <2> QED BY <2>1, <2>2
<1>4. CASE e \notin E /\ Source \subseteq D
  <2>1. e \in Source
    BY <1>1, <1>4
  <2>2. s.sources \cup {e} = Source
    BY <1>2, <1>4, <2>1
  <2>3. AddSource(s, {e}).state = DECODED
    BY <1>2, <2>2 DEF AddSource, Symbols
  <2>4. Put(s, {e}) = AddSource(s, {e})
    BY <1>2, <1>4, <2>1, <2>3 DEF Put, Decoded
  <2>5. ~Collects(D)
    BY <1>4 DEF Collects
  <2> QED BY <1>4, <2>3, <2>4, <2>5 DEF INCOMPLETE, DECODED
<1>5. CASE e \notin E /\ ~(Source \subseteq D)
  <2> DEFINE added == IF {e} \subseteq Source THEN AddSource(s, {e}) ELSE AddRepair(s, {e})
  <2>1. s = [sources |-> E \cap Source, repairs |-> E \cap Repair,
             state |-> INCOMPLETE, overhead |-> SymbolOverhead]
    BY <1>1 DEF Made
  <2>2. added = Made(D)
    <3>1. CASE e \in Source
      <4>1. e \notin Repair
        BY <3>1, EsisFinite
      <4>2. D \cap Repair = E \cap Repair /\ D \cap Source = (E \cap Source) \cup {e}
        BY <3>1, <4>1
      <4>3. (E \cap Source) \cup {e} # Source
        BY <1>5
      <4> QED BY <2>1, <3>1, <4>2, <4>3 DEF AddSource, Made
    <3>2. CASE e \notin Source
      <4>1. e \in Repair
        BY <3>2 DEF ESI
      <4>2. D \cap Source = E \cap Source /\ D \cap Repair = (E \cap Repair) \cup {e}
        BY <3>2, <4>1
      <4> QED BY <2>1, <3>2, <4>2 DEF AddRepair, Made
    <3> QED BY <3>1, <3>2
  <2>3. ~Decoded(added) /\ (HaveEnoughSymbolsToDecode(added) <=> Cardinality(D) >= K + SymbolOverhead)
    BY <1>1, <1>5, <2>2, MadeFacts, MadeCount
  <2>4. Put(s, {e}) = IF ~Decoded(added) /\ HaveEnoughSymbolsToDecode(added) THEN Decode(added) ELSE added
    BY <1>2, <1>5 DEF Put
  <2>5. Cardinality(D) \in Nat /\ K + SymbolOverhead \in Nat
    BY <1>1, EsisFinite, BlockAssumption DEF SymbolOverhead
  <2>6. CASE Collects(D)
    <3>1. ~(Cardinality(D) >= K + SymbolOverhead)
      BY <2>5, <2>6 DEF Collects
    <3> QED BY <1>5, <2>2, <2>3, <2>4, <2>6, <3>1
  <2>7. CASE ~Collects(D)
    <3>1. Cardinality(D) >= K + SymbolOverhead
      BY <1>1, <1>5, <2>5, <2>7 DEF Collects
    <3>2. Put(s, {e}) = Decode(added) /\ added \in Symbols
      BY <1>1, <2>2, <2>3, <2>4, <3>1, MadeFacts
    <3>3. Put(s, {e}).state # INCOMPLETE
      BY <3>2, DecodeFacts DEF Decoded, DECODED, DECODING_FAILURE, INCOMPLETE
    <3> QED BY <1>5, <2>7, <3>3
  <2> QED BY <2>6, <2>7
<1> QED BY <1>3, <1>4, <1>5

\* putEncodingPacket of a packet that is read from a log.
LEMMA LoggedPut ==
  ASSUME NEW E, NEW e \in ESI, Loggable(E \cup {e})
  PROVE  Put(Made(E), {e}) = Made(E \cup {e})
<1>1. Loggable(E) /\ E \in SUBSET ESI /\ E \cup {e} \in SUBSET ESI
  BY LoggableSubset
<1>2. CASE Collects(E \cup {e})
  <2>1. Collects(E)
    BY <1>2, CollectsSubset
  <2> QED BY <1>2, <2>1, CollectingPut
<1>3. CASE K = 1 /\ E \cup {e} = {0}
  <2>1. e = 0 /\ (E = {} \/ E = {0}) /\ Source = {0} /\ e \notin Repair
    BY <1>3, EsisFinite DEF Source
  <2>2. CASE E = {0}
    <3>1. Decoded(Made(E))
      BY <1>1, <2>1, <2>2, MadeFacts
    <3> QED BY <1>3, <2>2, <3>1 DEF Put
  <2>3. CASE E = {}
    <3>1. /\ ~Decoded(Made(E)) /\ Held(Made(E)) = {}
          /\ Made(E).sources = {} /\ Made(E).repairs = {}
      BY <1>1, <2>1, <2>3, MadeFacts
    <3>2. AddSource(Made(E), {e}) = Made({0})
      BY <2>1, <2>3 DEF AddSource, Made, Repair
    <3>3. Decoded(Made({0}))
      BY <1>1, <1>3, <2>1, MadeFacts
    <3> QED BY <1>3, <2>1, <3>1, <3>2, <3>3 DEF Put
  <2> QED BY <2>1, <2>2, <2>3
<1> QED BY <1>2, <1>3 DEF Loggable

-----------------------------------------------------------------------------
(* The table and the disk.                                                 *)

\* The parameters a row may have.
Parameters == {Oti[c] : c \in Codes} \cup {NULL}

\* The bound on the rows is a number.
LEMMA RowBound == MaxRows \in Nat
BY ReceiverAssumption DEF MaxRows

\* Changing one field of a row: UpdateFECParameters, UpdateReceivedSymbolNum, Complete and
\* Changename.
LEMMA SetOti ==
  ASSUME NEW R \in Seq(Row), NEW i \in DOMAIN R, NEW v \in Parameters,
         NEW S, S = [R EXCEPT ![i].oti = v]
  PROVE  /\ S \in Seq(Row) /\ Len(S) = Len(R) /\ DOMAIN S = DOMAIN R
         /\ \A j \in DOMAIN R : j # i => S[j] = R[j]
         /\ S[i].name = R[i].name /\ S[i].oti = v
         /\ S[i].received = R[i].received /\ S[i].complete = R[i].complete
<1> DEFINE r == [R[i] EXCEPT !.oti = v]
<1>1. R[i] \in Row /\ S = [R EXCEPT ![i] = r] /\ DOMAIN R = 1 .. Len(R)
  OBVIOUS
<1>2. r \in Row /\ r.oti = v /\ r.name = R[i].name /\ r.received = R[i].received /\ r.complete = R[i].complete
  BY <1>1 DEF Row, Parameters
<1> HIDE DEF r
<1>3. S \in Seq(Row) /\ Len(S) = Len(R) /\ \A j \in 1 .. Len(R) : S[j] = IF j = i THEN r ELSE R[j]
  <2>1. r \in Row /\ i \in 1 .. Len(R)
    BY <1>1, <1>2
  <2> QED BY <1>1, <2>1, ExceptSeq
<1>4. DOMAIN S = 1 .. Len(S)
  BY <1>3
<1> QED BY <1>1, <1>2, <1>3, <1>4

\* UpdateReceivedSymbolNum changes the count of one row and nothing else.
LEMMA SetReceived ==
  ASSUME NEW R \in Seq(Row), NEW i \in DOMAIN R, NEW v \in Nat,
         NEW S, S = [R EXCEPT ![i].received = v]
  PROVE  /\ S \in Seq(Row) /\ Len(S) = Len(R) /\ DOMAIN S = DOMAIN R
         /\ \A j \in DOMAIN R : j # i => S[j] = R[j]
         /\ S[i].name = R[i].name /\ S[i].oti = R[i].oti
         /\ S[i].received = v /\ S[i].complete = R[i].complete
<1> DEFINE r == [R[i] EXCEPT !.received = v]
<1>1. R[i] \in Row /\ S = [R EXCEPT ![i] = r] /\ DOMAIN R = 1 .. Len(R)
  OBVIOUS
<1>2. r \in Row /\ r.received = v /\ r.name = R[i].name /\ r.oti = R[i].oti /\ r.complete = R[i].complete
  BY <1>1 DEF Row
<1> HIDE DEF r
<1>3. S \in Seq(Row) /\ Len(S) = Len(R) /\ \A j \in 1 .. Len(R) : S[j] = IF j = i THEN r ELSE R[j]
  <2>1. r \in Row /\ i \in 1 .. Len(R)
    BY <1>1, <1>2
  <2> QED BY <1>1, <2>1, ExceptSeq
<1>4. DOMAIN S = 1 .. Len(S)
  BY <1>3
<1> QED BY <1>1, <1>2, <1>3, <1>4

\* Complete marks one row and changes nothing else.
LEMMA SetComplete ==
  ASSUME rows \in Seq(Row), cur \in DOMAIN rows, rows' = [rows EXCEPT ![cur].complete = TRUE]
  PROVE  /\ rows' \in Seq(Row) /\ Len(rows') = Len(rows) /\ DOMAIN rows' = DOMAIN rows
         /\ \A j \in DOMAIN rows : j # cur => rows'[j] = rows[j]
         /\ rows'[cur].name = rows[cur].name /\ rows'[cur].oti = rows[cur].oti
         /\ rows'[cur].received = rows[cur].received /\ rows'[cur].complete
<1> DEFINE r == [rows[cur] EXCEPT !.complete = TRUE]
<1>1. rows[cur] \in Row /\ rows' = [rows EXCEPT ![cur] = r] /\ DOMAIN rows = 1 .. Len(rows)
  OBVIOUS
<1>2. /\ r \in Row /\ r.complete = TRUE /\ r.name = rows[cur].name /\ r.oti = rows[cur].oti
      /\ r.received = rows[cur].received
  BY <1>1 DEF Row
<1> HIDE DEF r
<1>3. /\ rows' \in Seq(Row) /\ Len(rows') = Len(rows)
      /\ \A j \in 1 .. Len(rows) : rows'[j] = IF j = cur THEN r ELSE rows[j]
  <2>1. r \in Row /\ cur \in 1 .. Len(rows)
    BY <1>1, <1>2
  <2>2. [rows EXCEPT ![cur] = r] \in Seq(Row) /\ Len([rows EXCEPT ![cur] = r]) = Len(rows)
    BY <1>1, <2>1, ExceptSeq
  <2> QED BY <1>1, <2>1, <2>2
<1>4. DOMAIN rows' = 1 .. Len(rows')
  BY <1>3
<1> QED BY <1>1, <1>2, <1>3, <1>4

\* Changename renames one row and changes nothing else.
LEMMA SetName ==
  ASSUME rows \in Seq(Row), cur \in DOMAIN rows, rows' = [rows EXCEPT ![cur].name = Unzipped]
  PROVE  /\ rows' \in Seq(Row) /\ Len(rows') = Len(rows) /\ DOMAIN rows' = DOMAIN rows
         /\ \A j \in DOMAIN rows : j # cur => rows'[j] = rows[j]
         /\ rows'[cur].name = Unzipped /\ rows'[cur].oti = rows[cur].oti
         /\ rows'[cur].received = rows[cur].received /\ rows'[cur].complete = rows[cur].complete
<1> DEFINE r == [rows[cur] EXCEPT !.name = Unzipped]
<1>1. rows[cur] \in Row /\ rows' = [rows EXCEPT ![cur] = r] /\ DOMAIN rows = 1 .. Len(rows)
  OBVIOUS
<1>2. /\ r \in Row /\ r.name = Unzipped /\ r.complete = rows[cur].complete /\ r.oti = rows[cur].oti
      /\ r.received = rows[cur].received
  BY <1>1 DEF Row
<1> HIDE DEF r
<1>3. /\ rows' \in Seq(Row) /\ Len(rows') = Len(rows)
      /\ \A j \in 1 .. Len(rows) : rows'[j] = IF j = cur THEN r ELSE rows[j]
  <2>1. r \in Row /\ cur \in 1 .. Len(rows)
    BY <1>1, <1>2
  <2>2. [rows EXCEPT ![cur] = r] \in Seq(Row) /\ Len([rows EXCEPT ![cur] = r]) = Len(rows)
    BY <1>1, <2>1, ExceptSeq
  <2> QED BY <1>1, <2>1, <2>2
<1>4. DOMAIN rows' = 1 .. Len(rows')
  BY <1>3
<1> QED BY <1>1, <1>2, <1>3, <1>4

\* InsertNewFile.
LEMMA AppendRow ==
  ASSUME NEW R \in Seq(Row), Len(R) < MaxRows,
         NEW S, S = Append(R, [name |-> Len(R) + 1, oti |-> NULL, received |-> 0, complete |-> FALSE])
  PROVE  /\ S \in Seq(Row) /\ Len(S) = Len(R) + 1 /\ Len(S) <= MaxRows
         /\ DOMAIN S = DOMAIN R \cup {Len(R) + 1} /\ Len(R) + 1 \notin DOMAIN R
         /\ \A j \in DOMAIN R : S[j] = R[j]
         /\ S[Len(R) + 1] = [name |-> Len(R) + 1, oti |-> NULL, received |-> 0, complete |-> FALSE]
<1> DEFINE r == [name |-> Len(R) + 1, oti |-> NULL, received |-> 0, complete |-> FALSE]
<1>1. Len(R) \in Nat /\ Len(R) + 1 \in Name /\ MaxRows \in Nat
  BY RowBound DEF Name
<1>2. r \in Row
  BY <1>1 DEF Row
<1> HIDE DEF r
<1>3. /\ S \in Seq(Row) /\ Len(S) = Len(R) + 1 /\ S[Len(R) + 1] = r
      /\ \A j \in 1 .. Len(R) : S[j] = R[j]
  BY <1>2 DEF r
<1> QED BY <1>1, <1>3 DEF r

\* Every row can have a temporary file.
LEMMA RowsAreNames ==
  ASSUME NEW R \in Seq(Row), Len(R) <= MaxRows
  PROVE  DOMAIN R \subseteq Name /\ DOMAIN R = 1 .. Len(R) /\ Len(R) \in Nat
BY RowBound DEF Name

\* Writing one file.
LEMMA WriteFile ==
  ASSUME NEW D \in [Name -> Seq(Item)], NEW n \in Name, NEW c \in Seq(Item),
         NEW S, S = [D EXCEPT ![n] = c]
  PROVE  /\ S \in [Name -> Seq(Item)] /\ S[n] = c
         /\ \A m \in Name : m # n => S[m] = D[m]
OBVIOUS

-----------------------------------------------------------------------------
(* Types.                                                                  *)

\* A message that is a packet at all.
LEMMA MessageTypes ==
  ASSUME NEW p \in Message
  PROVE  /\ p.file \in Codes /\ p.esi \in ESI /\ Oti[p.file] \in Parameters
         /\ p.file # Junk => p \in Packet
BY DEF Message, Packet, Codes, Parameters

\* The decoder and its data after a put.
LEMMA PutPacketTypes ==
  ASSUME TypeOK, NEW p \in Packet, PutPacket(p)
  PROVE  dec' \in Symbols /\ held' \subseteq Packet
<1>1. p.esi \in ESI
  BY DEF Packet
<1>2. {p.esi} \subseteq Source \/ {p.esi} \subseteq Repair
  BY <1>1 DEF ESI
<1>3. dec' \in Symbols
  BY <1>2, PutType DEF PutPacket, TypeOK
<1> QED BY <1>3 DEF PutPacket, TypeOK

\* A new decoder, an empty file.
LEMMA NewTypes ==
  /\ NewSymbols(SymbolOverhead) \in Symbols
  /\ <<>> \in Seq(Item) /\ <<>> \in Seq(Packet) /\ <<>> \in Seq(Name)
BY DEF NewSymbols, SymbolOverhead, Symbols, SourceBlockState, INCOMPLETE

\* A file after a record was written, or its writing failed.
LEMMA WrittenTypes ==
  ASSUME NEW c \in Seq(Item), NEW p \in Packet
  PROVE  \A d \in Broken(c, p) \cup {Append(c, Record(p))} : d \in Seq(Item)
<1>1. Append(c, Torn(p)) \in Seq(Item) /\ Append(c, Record(p)) \in Seq(Item)
  BY Items, AppendItem
<1> QED BY <1>1 DEF Broken

\* Nothing is left of the threads.
LEMMA NoThreadsTypes ==
  ASSUME NoThreads
  PROVE  /\ rpc' \in Steps /\ resuming' \in BOOLEAN /\ hasinit' \in BOOLEAN
         /\ cur' \in Nat /\ dec' \in Symbols /\ held' \subseteq Packet /\ check' \subseteq ESI
         /\ num' \in Nat /\ pkt' \in Message \cup {NULL} /\ replay' \in Seq(Packet)
         /\ oos' \in BOOLEAN /\ stray' \in BOOLEAN /\ lost' \subseteq ESI /\ handed' \in Nat
         /\ spoilt' = spoilt /\ db' \in {"none", "open", "closed"}
         /\ zpc' \in {"idle", "rename", "delete"} /\ zq' \in Seq(Name)
         /\ rpc' = "idle" /\ ~hasinit' /\ zpc' = "idle" /\ zq' = <<>>
BY NewTypes DEF NoThreads, Steps

\* The end of the process keeps the types.
LEMMA DieTypes ==
  ASSUME TInv, Die, rows' \in Seq(Row), Len(rows') <= MaxRows, disk' \in [Name -> Seq(Item)],
         out' = out, crashes' \in Nat, faults' = faults
  PROVE  TInv'
BY NoThreadsTypes DEF Die, TInv, TypeOK, Placed, Active, Under, Ready

\* The types hold when the phone is new,
LEMMA TypesInit == Init => TInv
<1> SUFFICES ASSUME Init PROVE TInv
  OBVIOUS
<1>1. <<>> \in Seq(Row) /\ Len(<<>>) = 0 /\ Len(<<>>) <= MaxRows
  BY RowBound
<1> QED BY <1>1, NewTypes DEF Init, TInv, TypeOK, Placed, Active, Under, Ready, Steps

\* the activities keep them,
LEMMA TypesUser ==
  ASSUME TInv, User
  PROVE  TInv'
<1>0. rows \in Seq(Row) /\ Len(rows) <= MaxRows /\ DOMAIN rows \subseteq Name
  BY RowsAreNames DEF TInv, TypeOK
<1>1. CASE Launch
  <2>1. PICK last \in Name :
          disk' = [n \in Name |->
                     IF n # last /\ \E i \in DOMAIN rows : rows[i].oti = NULL /\ rows[i].name = n
                       THEN <<>> ELSE disk[n]]
    BY <1>1 DEF Launch
  <2>2. disk' \in [Name -> Seq(Item)]
    BY <2>1, NewTypes DEF TInv, TypeOK
  <2>3. /\ UNCHANGED <<rows, out, thread, zip, handler, crashes, sessions, left, db, faults, seen>>
        /\ proc' = "menu"
    BY <1>1 DEF Launch
  <2>4. TypeOK'
    BY <2>2, <2>3 DEF TInv, TypeOK, thread, zip, seen
  <2>5. Placed'
    BY <2>3 DEF TInv, Placed, Active, Under, Ready, thread, zip
  <2> QED BY <2>4, <2>5 DEF TInv
<1>2. CASE OpenReceive
  <2>1. \A i \in DOMAIN rows : rows[i] \in Row /\ i \in Name
    BY <1>0
  <2>2. /\ list' \subseteq [id : Name, oti : {Oti[c] : c \in Codes} \cup {NULL}]
        /\ \A r \in list' : r.id \in DOMAIN rows
    BY <1>2, <2>1 DEF OpenReceive, SearchUnComplete, Row
  <2>3. /\ UNCHANGED <<rows, disk, out, crashes, faults>> /\ proc' = "receiving" /\ handler' = TRUE
        /\ sessions' = sessions + 1 /\ left' = MaxLeftover /\ NoThreads
    BY <1>2 DEF OpenReceive, disks
  <2>4. TypeOK'
    BY <1>2, <2>2, <2>3, NoThreadsTypes, ReceiverAssumption DEF TInv, TypeOK
  <2>5. Placed'
    BY <2>2, <2>3, NoThreadsTypes DEF TInv, Placed, Active, Under, Ready
  <2> QED BY <2>4, <2>5 DEF TInv
<1>3. CASE Pause \/ Leave
  <2>1. /\ UNCHANGED <<disks, thread, zip, crashes, sessions, left, db, faults, seen>>
        /\ handler' \in BOOLEAN /\ proc' \in {"down", "menu", "receiving"}
    BY <1>3 DEF Pause, Leave, TInv, TypeOK
  <2>2. TypeOK'
    BY <2>1 DEF TInv, TypeOK, disks, thread, zip, seen
  <2>3. Placed'
    BY <2>1 DEF TInv, Placed, Active, Under, Ready, disks, thread, zip
  <2> QED BY <2>2, <2>3 DEF TInv
<1> QED BY <1>1, <1>2, <1>3 DEF User

\* so does a kill between two steps or inside a write,
LEMMA TypesKill ==
  ASSUME TInv, Kill \/ KillInWrite
  PROVE  TInv'
<1>0. TypeOK /\ Placed /\ rows \in Seq(Row) /\ Len(rows) <= MaxRows /\ DOMAIN rows \subseteq Name
  BY RowsAreNames DEF TInv, TypeOK
<1>1. CASE Kill
  <2>1. /\ Die /\ rows' = rows /\ disk' = disk /\ out' = out /\ crashes' = crashes + 1
        /\ faults' = faults
    BY <1>1 DEF Kill, disks
  <2> QED BY <1>0, <2>1, DieTypes DEF TypeOK
<1>2. CASE KillInWrite
  <2>1. Die /\ rows' = rows /\ out' = out /\ crashes' = crashes + 1 /\ faults' = faults
    BY <1>2 DEF KillInWrite
  <2>2. disk' \in [Name -> Seq(Item)]
    <3>1. CASE /\ (rpc = "first" /\ pkt.file # Junk) \/ rpc = "write"
               /\ disk' = [disk EXCEPT ![cur] = Append(@, Torn(pkt))]
      <4>1. cur \in Name /\ pkt \in Packet
        BY <1>0, <3>1, MessageTypes DEF Placed, Active, Under
      <4>2. Torn(pkt) \in Item /\ disk[cur] \in Seq(Item)
        BY <1>0, <4>1, Items DEF TypeOK
      <4>3. Append(disk[cur], Torn(pkt)) \in Seq(Item)
        BY <4>2, AppendItem
      <4> QED BY <1>0, <3>1, <4>1, <4>3, WriteFile DEF TypeOK
    <3>2. CASE rpc = "save" /\ disk' = [disk EXCEPT ![cur] = <<Zip(FALSE)>>]
      <4>1. cur \in Name /\ <<Zip(FALSE)>> \in Seq(Item)
        BY <1>0, <3>2, ZipLog DEF Placed, Active, Under
      <4> QED BY <1>0, <3>2, <4>1, WriteFile DEF TypeOK
    <3> QED BY <1>2, <3>1, <3>2 DEF KillInWrite
  <2> QED BY <1>0, <2>1, <2>2, DieTypes DEF TypeOK
<1> QED BY <1>1, <1>2

\* so does the next decode message, whatever it is,
LEMMA TypesTake ==
  ASSUME TInv, NEW c \in Codes, NEW e \in ESI, Take(c, e), stray' \in BOOLEAN, faults' \in Nat
  PROVE  TInv'
<1>1. /\ UNCHANGED <<disks, zip, proc, handler, crashes, sessions, db, resuming, list, cur, dec,
                     held, check, num, replay, oos, spoilt, lost, handed>>
      /\ rpc = "idle" /\ pkt' = [file |-> c, esi |-> e, intact |-> TRUE]
      /\ hasinit' = TRUE /\ rpc' = IF hasinit THEN "put" ELSE "compare"
      /\ left' \in Nat
  BY DEF Take, TInv, TypeOK
<1>2. pkt' \in Message
  BY <1>1 DEF Message
<1>3. TypeOK'
  BY <1>1, <1>2 DEF TInv, TypeOK, disks, zip, Steps
<1>4. Placed'
  BY <1>1, <1>2 DEF TInv, Placed, Active, Under, Ready, disks, zip
<1> QED BY <1>3, <1>4 DEF TInv

\* so do the messages of the sender in front of the camera and the stray ones,
LEMMA TypesReceive ==
  ASSUME TInv, (\E e \in ESI : Receive(e)) \/ ReceiveStray
  PROVE  TInv'
<1>1. PICK c \in Codes, e \in ESI : Take(c, e)
  BY EsisFinite DEF Receive, ReceiveStray, Belongs, Codes
<1>2. stray' \in BOOLEAN /\ (faults' = faults \/ faults' = faults + 1)
  BY DEF Receive, ReceiveStray, Fault
<1>3. faults' \in Nat
  BY <1>2 DEF TInv, TypeOK
<1> QED BY <1>1, <1>2, <1>3, TypesTake

\* so do the comparison with the list and the replay of a log,
LEMMA TypesCompare ==
  ASSUME TInv, CompareWithList \/ RestartDecode \/ Replay \/ EndReplay
  PROVE  TInv'
<1>0. TypeOK /\ Placed /\ rows \in Seq(Row) /\ Len(rows) <= MaxRows /\ DOMAIN rows \subseteq Name
  BY RowsAreNames DEF TInv, TypeOK
<1>1. CASE CompareWithList
  <2>1. /\ UNCHANGED <<disks, zip, env, list, dec, held, check, num, pkt, oos, faults, seen>>
        /\ rpc = "compare"
    BY <1>1 DEF CompareWithList
  <2>2. \/ rpc' = "insert" /\ UNCHANGED <<resuming, hasinit, replay, cur, db>>
        \/ DropFirst /\ UNCHANGED <<cur, db>>
        \/ \E r \in list : /\ cur' = r.id /\ db' = "open" /\ rpc' = "restart"
                           /\ UNCHANGED <<resuming, hasinit, replay>>
    BY <1>1 DEF CompareWithList
  <2>3. CASE rpc' = "insert" /\ UNCHANGED <<resuming, hasinit, replay, cur, db>>
    <3>1. TypeOK'
      BY <1>0, <2>1, <2>3 DEF TypeOK, disks, zip, env, seen, Steps
    <3>2. Placed'
      BY <1>0, <2>1, <2>3 DEF Placed, Active, Under, Ready, disks, zip, env
    <3> QED BY <3>1, <3>2 DEF TInv
  <2>4. CASE DropFirst /\ UNCHANGED <<cur, db>>
    <3>1. TypeOK'
      BY <1>0, <2>1, <2>4, NewTypes DEF TypeOK, disks, zip, env, seen, Steps, DropFirst
    <3>2. Placed'
      BY <1>0, <2>1, <2>4 DEF Placed, Active, Under, Ready, disks, zip, env, DropFirst
    <3> QED BY <3>1, <3>2 DEF TInv
  <2>5. ASSUME NEW r \in list, cur' = r.id, db' = "open", rpc' = "restart",
               UNCHANGED <<resuming, hasinit, replay>>
        PROVE  TInv'
    <3>0. cur' \in DOMAIN rows /\ cur' \in Nat
      BY <1>0, <2>5 DEF Placed, Name
    <3>1. TypeOK'
      BY <1>0, <2>1, <2>5, <3>0 DEF TypeOK, disks, zip, env, seen, Steps
    <3>2. Placed'
      BY <1>0, <2>1, <2>5, <3>0 DEF Placed, Active, Under, Ready, disks, zip, env
    <3> QED BY <3>1, <3>2 DEF TInv
  <2> QED BY <2>2, <2>3, <2>4, <2>5
<1>2. CASE RestartDecode
  <2>1. /\ UNCHANGED <<disks, zip, env, db, list, cur, pkt, stray, handed>> /\ rpc = "restart"
        /\ dec' = NewSymbols(SymbolOverhead) /\ held' = {} /\ num' = 0
    BY <1>2 DEF RestartDecode
  <2>2. cur \in DOMAIN rows /\ cur \in Name /\ disk[cur] \in Seq(Item)
    BY <1>0, <2>1 DEF Placed, TypeOK
  <2>3. /\ \/ rpc' = "replay" /\ hasinit' = hasinit
           \/ rpc' = "idle" /\ hasinit' = FALSE
        /\ resuming' \in BOOLEAN /\ check' \subseteq ESI /\ replay' \in Seq(Packet)
        /\ oos' \in BOOLEAN /\ lost' \subseteq ESI /\ spoilt' \subseteq Name /\ faults' \in Nat
    <3>1. CASE rpc' = "replay"
      <4>1. /\ resuming' = TRUE /\ check' = {} /\ lost' = {} /\ oos' = TRUE /\ faults' = faults
            /\ replay' \in ReadObject(disk[cur]) /\ UNCHANGED hasinit
            /\ spoilt' \in {spoilt, spoilt \cup {cur}}
        BY <1>2, <3>1 DEF RestartDecode, DropFirst
      <4> QED BY <1>0, <2>2, <3>1, <4>1, ReadObjectFacts DEF TypeOK
    <3>2. CASE rpc' # "replay"
      <4>1. /\ DropFirst /\ UNCHANGED <<oos, lost, spoilt>> /\ check' \in {{}, check}
            /\ faults' \in {faults, faults + 1}
        BY <1>2, <3>2 DEF RestartDecode, Fault
      <4>2. faults' \in Nat /\ check' \subseteq ESI /\ oos' \in BOOLEAN /\ lost' \subseteq ESI
            /\ spoilt' \subseteq Name
        BY <1>0, <4>1 DEF TypeOK
      <4> QED BY <4>1, <4>2, NewTypes DEF DropFirst
    <3> QED BY <3>1, <3>2
  <2>4. TypeOK'
    BY <1>0, <2>1, <2>3, NewTypes DEF TypeOK, disks, zip, env, Steps
  <2>5. Placed'
    BY <1>0, <2>1, <2>2, <2>3 DEF Placed, Active, Under, Ready, disks, zip, env
  <2> QED BY <2>4, <2>5 DEF TInv
<1>3. CASE Replay
  <2>1. /\ UNCHANGED <<disks, zip, env, db, rpc, resuming, hasinit, list, cur, pkt, oos, faults, seen>>
        /\ rpc = "replay" /\ replay # <<>> /\ PutPacket(Head(replay))
        /\ replay' = Tail(replay) /\ check' = check \cup {Head(replay).esi}
        /\ num' = IF Head(replay).esi \in check THEN num ELSE num + 1
    BY <1>3 DEF Replay
  <2>2. Head(replay) \in Packet /\ replay' \in Seq(Packet) /\ Head(replay).esi \in ESI
    BY <1>0, <2>1, FirstPacket DEF TypeOK, Packet
  <2>3. dec' \in Symbols /\ held' \subseteq Packet /\ check' \subseteq ESI /\ num' \in Nat
    BY <1>0, <2>1, <2>2, PutPacketTypes DEF TypeOK
  <2>4. TypeOK'
    BY <1>0, <2>1, <2>2, <2>3 DEF TypeOK, disks, zip, env, seen
  <2>5. Placed'
    BY <1>0, <2>1 DEF Placed, Active, Under, Ready, disks, zip, env
  <2> QED BY <2>4, <2>5 DEF TInv
<1>4. CASE EndReplay
  <2>1. /\ UNCHANGED <<disks, zip, env, db, hasinit, cur, dec, held, check, num, pkt, replay, oos,
                       faults, seen>>
        /\ rpc = "replay" /\ rpc' \in {"delete", "put"} /\ resuming' \in BOOLEAN
        /\ list' \in {list, {}}
    BY <1>0, <1>4 DEF EndReplay, TypeOK
  <2>2. TypeOK'
    BY <1>0, <2>1 DEF TypeOK, disks, zip, env, seen, Steps
  <2>3. Placed'
    BY <1>0, <2>1 DEF Placed, Active, Under, Ready, disks, zip, env
  <2> QED BY <2>2, <2>3 DEF TInv
<1> QED BY <1>1, <1>2, <1>3, <1>4

\* so does the start of a new reception,
LEMMA TypesStartNewOne ==
  ASSUME TInv, InsertNewFile \/ UpdateFECParameters \/ DecodeFirst
  PROVE  TInv'
<1>0. TypeOK /\ Placed /\ rows \in Seq(Row) /\ Len(rows) <= MaxRows /\ DOMAIN rows \subseteq Name
  BY RowsAreNames DEF TInv, TypeOK
<1>1. CASE InsertNewFile
  <2>1. /\ UNCHANGED <<disk, out, zip, env, db, resuming, hasinit, list, dec, held, check, num, pkt,
                       replay, oos, faults, seen>>
        /\ rpc = "insert" /\ rpc' = "update" /\ Len(rows) < MaxRows
        /\ rows' = Append(rows, [name |-> Len(rows) + 1, oti |-> NULL, received |-> 0, complete |-> FALSE])
        /\ cur' = Len(rows) + 1
    BY <1>1 DEF InsertNewFile
  <2>2. /\ rows' \in Seq(Row) /\ Len(rows') <= MaxRows /\ cur' \in DOMAIN rows'
        /\ DOMAIN rows \subseteq DOMAIN rows' /\ cur' \in Nat
    <3>1. /\ rows' \in Seq(Row) /\ Len(rows') <= MaxRows
          /\ DOMAIN rows' = DOMAIN rows \cup {Len(rows) + 1}
      BY <1>0, <2>1, AppendRow
    <3> QED BY <1>0, <2>1, <3>1
  <2>3. TypeOK'
    BY <1>0, <2>1, <2>2 DEF TypeOK, zip, env, seen, Steps
  <2>4. \A r \in list' : r.id \in DOMAIN rows'
    BY <1>0, <2>1, <2>2 DEF Placed
  <2>5. zq' = <<>> \/ cur' \in DOMAIN rows'
    BY <2>2
  <2>6. Placed'
    BY <1>0, <2>1, <2>2, <2>4, <2>5 DEF Placed, Active, Under, Ready, zip, env
  <2> QED BY <2>3, <2>6 DEF TInv
<1>2. CASE UpdateFECParameters
  <2>1. /\ UNCHANGED <<disk, out, zip, env, list, cur, num, pkt, stray, spoilt, handed>>
        /\ rpc = "update" /\ rows' = [rows EXCEPT ![cur].oti = Oti[pkt.file]]
        /\ db' = "open" /\ dec' = NewSymbols(SymbolOverhead) /\ held' = {} /\ check' = {}
        /\ \/ rpc' = "first" /\ oos' = TRUE /\ lost' = {} /\ UNCHANGED <<resuming, hasinit, replay, faults>>
           \/ Fault /\ DropFirst /\ UNCHANGED <<oos, lost>>
    BY <1>2 DEF UpdateFECParameters
  <2>2. cur \in DOMAIN rows /\ pkt \in Message
    BY <1>0, <2>1 DEF Placed
  <2>3. Oti[pkt.file] \in Parameters
    BY <2>2, MessageTypes
  <2>4. rows' \in Seq(Row) /\ Len(rows') = Len(rows) /\ DOMAIN rows' = DOMAIN rows
    BY <1>0, <2>1, <2>2, <2>3, SetOti
  <2>5. /\ rpc' \in {"first", "idle"} /\ (rpc' = "idle" => ~hasinit') /\ rpc' \in Steps
        /\ hasinit' \in BOOLEAN /\ resuming' \in BOOLEAN /\ replay' \in Seq(Packet)
        /\ oos' \in BOOLEAN /\ lost' \subseteq ESI /\ faults' \in Nat
    <3>1. CASE rpc' = "first" /\ oos' = TRUE /\ lost' = {} /\ UNCHANGED <<resuming, hasinit, replay, faults>>
      BY <1>0, <3>1 DEF TypeOK, Steps
    <3>2. CASE Fault /\ DropFirst /\ UNCHANGED <<oos, lost>>
      <4>1. faults \in Nat /\ faults' = faults + 1 /\ oos' \in BOOLEAN /\ lost' \subseteq ESI
        BY <1>0, <3>2 DEF TypeOK, Fault
      <4>2. faults' \in Nat
        BY <4>1
      <4>3. rpc' = "idle" /\ hasinit' = FALSE /\ resuming' = FALSE /\ replay' = <<>>
        BY <3>2 DEF DropFirst
      <4> QED BY <4>1, <4>2, <4>3, NewTypes DEF Steps
    <3> QED BY <2>1, <3>1, <3>2
  <2>6. TypeOK'
    BY <1>0, <2>1, <2>4, <2>5, NewTypes DEF TypeOK, zip, env
  <2>7. Placed'
    BY <1>0, <2>1, <2>2, <2>4, <2>5 DEF Placed, Active, Under, Ready, zip, env
  <2> QED BY <2>6, <2>7 DEF TInv
<1>3. CASE DecodeFirst
  <2>1. /\ UNCHANGED <<rows, out, zip, env, db, cur, pkt, stray, spoilt, handed>> /\ rpc = "first"
    BY <1>3 DEF DecodeFirst
  <2>2. cur \in DOMAIN rows /\ cur \in Name /\ pkt \in Message /\ disk[cur] \in Seq(Item)
    BY <1>0, <2>1 DEF Placed, TypeOK
  <2>3. /\ dec' \in Symbols /\ held' \subseteq Packet /\ num' \in Nat /\ check' \subseteq ESI
        /\ disk' \in [Name -> Seq(Item)] /\ lost' \subseteq ESI /\ oos' \in BOOLEAN /\ faults' \in Nat
        /\ \/ rpc' = "put" /\ list' = {} /\ UNCHANGED <<resuming, hasinit, replay>>
           \/ DropFirst /\ UNCHANGED list
    <3>1. CASE pkt.file = Junk
      BY <1>0, <1>3, <3>1 DEF DecodeFirst, TypeOK
    <3>2. CASE pkt.file # Junk
      <4>1. /\ PutPacket(pkt) /\ check' = {pkt.esi} /\ num' = num + 1
            /\ faults' \in {faults, faults + 1}
            /\ oos' \in {oos, TRUE, FALSE} /\ lost' \in {lost, {pkt.esi}}
            /\ \/ rpc' = "put" /\ list' = {} /\ UNCHANGED <<resuming, hasinit, replay>>
               \/ DropFirst /\ UNCHANGED list
        BY <1>3, <3>2 DEF DecodeFirst, Fault
      <4>2. pkt \in Packet /\ pkt.esi \in ESI
        BY <2>2, <3>2, MessageTypes
      <4>3. dec' \in Symbols /\ held' \subseteq Packet
        BY <1>0, <4>1, <4>2, PutPacketTypes
      <4>4. \E d \in Broken(disk[cur], pkt) \cup {Append(disk[cur], Record(pkt))} :
              disk' = [disk EXCEPT ![cur] = d]
        BY <1>3, <3>2 DEF DecodeFirst
      <4>5. \A d \in Broken(disk[cur], pkt) \cup {Append(disk[cur], Record(pkt))} : d \in Seq(Item)
        BY <2>2, <4>2, WrittenTypes
      <4>6. disk' \in [Name -> Seq(Item)]
        BY <1>0, <2>2, <4>4, <4>5, WriteFile DEF TypeOK
      <4>7. num' \in Nat /\ faults' \in Nat /\ lost' \subseteq ESI /\ oos' \in BOOLEAN /\ check' \subseteq ESI
        <5>1. num \in Nat /\ faults \in Nat /\ lost \subseteq ESI /\ oos \in BOOLEAN
          BY <1>0 DEF TypeOK
        <5>2. num' \in Nat /\ faults' \in Nat
          BY <4>1, <5>1
        <5>3. lost' \subseteq ESI /\ check' \subseteq ESI
          BY <4>1, <4>2, <5>1
        <5>4. oos' \in BOOLEAN
          BY <4>1, <5>1
        <5> QED BY <5>2, <5>3, <5>4
      <4> QED BY <4>1, <4>3, <4>6, <4>7
    <3> QED BY <3>1, <3>2
  <2>4. /\ list' \in {list, {}} /\ resuming' \in BOOLEAN /\ hasinit' \in BOOLEAN /\ rpc' \in Steps
        /\ replay' \in Seq(Packet) /\ rpc' \in {"idle", "put"} /\ (rpc' = "idle" => ~hasinit')
    BY <1>0, <2>3, NewTypes DEF TypeOK, DropFirst, Steps
  <2>5. TypeOK'
    BY <1>0, <2>1, <2>3, <2>4 DEF TypeOK, zip, env
  <2>6. Placed'
    BY <1>0, <2>1, <2>2, <2>4 DEF Placed, Active, Under, Ready, zip, env
  <2> QED BY <2>5, <2>6 DEF TInv
<1> QED BY <1>1, <1>2, <1>3

\* so do decoding, saving and counting a packet,
LEMMA TypesDecode ==
  ASSUME TInv, DecodeForeign \/ DecodeRaptor \/ WritePacket \/ UpdateReceivedSymbolNum
  PROVE  TInv'
<1>0. TypeOK /\ Placed /\ rows \in Seq(Row) /\ Len(rows) <= MaxRows /\ DOMAIN rows \subseteq Name
  BY RowsAreNames DEF TInv, TypeOK
<1>1. CASE Die /\ UNCHANGED <<disks, crashes, faults>>
  <2>1. rows' = rows /\ disk' = disk /\ out' = out /\ crashes' = crashes /\ faults' = faults
    BY <1>1 DEF disks
  <2> QED BY <1>0, <1>1, <2>1, DieTypes DEF TypeOK
<1>2. CASE DecodeRaptor /\ ~(Die /\ UNCHANGED <<disks, crashes, faults>>)
  <2>1. /\ rpc = "put" /\ pkt.file # Junk /\ PutPacket(pkt)
        /\ \/ /\ check' = check \cup {pkt.esi}
              /\ num' = IF pkt.esi \in check THEN num ELSE num + 1
              /\ rpc' = IF pkt.esi \in check THEN "idle" ELSE "write"
              /\ UNCHANGED disk
           \/ rpc' = "delete" /\ UNCHANGED <<check, num, disk>>
           \/ rpc' = "quit" /\ disk' = [disk EXCEPT ![cur] = <<>>] /\ UNCHANGED <<check, num>>
        /\ UNCHANGED <<rows, out, zip, env, db, resuming, hasinit, list, cur, pkt, replay, oos, stray,
                       lost, handed, faults>>
        /\ spoilt' \in {spoilt, spoilt \cup {cur}}
    BY <1>2 DEF DecodeRaptor
  <2>2. cur \in DOMAIN rows /\ cur \in Name /\ pkt \in Packet
    BY <1>0, <2>1, MessageTypes DEF Placed, Active, Under
  <2>3. pkt.esi \in ESI /\ dec' \in Symbols /\ held' \subseteq Packet
    BY <1>0, <2>1, <2>2, PutPacketTypes DEF Packet, TypeOK
  <2>4. disk' \in [Name -> Seq(Item)] /\ spoilt' \subseteq Name
    <3>1. disk' = disk \/ disk' = [disk EXCEPT ![cur] = <<>>]
      BY <2>1
    <3>2. disk \in [Name -> Seq(Item)] /\ spoilt \subseteq Name
      BY <1>0 DEF TypeOK
    <3>3. [disk EXCEPT ![cur] = <<>>] \in [Name -> Seq(Item)]
      <4>1. <<>> \in Seq(Item)
        OBVIOUS
      <4> HIDE DEF Name, Item
      <4> QED BY <2>2, <3>2, <4>1
    <3>4. disk' \in [Name -> Seq(Item)]
      BY <3>1, <3>2, <3>3, Zenon
    <3> QED BY <2>1, <2>2, <3>2, <3>4
  <2>5. check' \subseteq ESI /\ num' \in Nat /\ rpc' \in {"idle", "write", "delete", "quit"}
    <3>1. check \subseteq ESI /\ num \in Nat
      BY <1>0 DEF TypeOK
    <3>2. check' \in {check, check \cup {pkt.esi}} /\ num' \in {num, num + 1}
      BY <2>1
    <3>3. rpc' \in {"idle", "write", "delete", "quit"}
      BY <2>1
    <3> QED BY <2>3, <3>1, <3>2, <3>3
  <2>6. TypeOK'
    BY <1>0, <2>1, <2>3, <2>4, <2>5 DEF TypeOK, zip, env, Steps
  <2>7. Placed'
    BY <1>0, <2>1, <2>2, <2>5 DEF Placed, Active, Under, Ready, zip, env
  <2> QED BY <2>6, <2>7 DEF TInv
<1>3. CASE WritePacket /\ ~(Die /\ UNCHANGED <<disks, crashes, faults>>)
  <2>1. /\ UNCHANGED <<rows, out, zip, env, db, resuming, hasinit, list, cur, dec, held, check, num,
                       pkt, replay, oos, stray, spoilt, handed>>
        /\ rpc = "write" /\ rpc' = "count"
        /\ faults' \in {faults, faults + 1} /\ lost' \in {lost, lost \cup {pkt.esi}}
        /\ \E d \in Broken(disk[cur], pkt) \cup {Append(disk[cur], Record(pkt))} :
             disk' = [disk EXCEPT ![cur] = d]
    BY <1>3 DEF WritePacket, Fault
  <2>2. cur \in DOMAIN rows /\ cur \in Name /\ pkt \in Packet /\ disk[cur] \in Seq(Item)
    BY <1>0, <2>1 DEF Placed, TypeOK, Active, Under
  <2>3. \A d \in Broken(disk[cur], pkt) \cup {Append(disk[cur], Record(pkt))} : d \in Seq(Item)
    BY <2>2, WrittenTypes
  <2>4. disk' \in [Name -> Seq(Item)]
    BY <1>0, <2>1, <2>2, <2>3, WriteFile DEF TypeOK
  <2>5. faults' \in Nat /\ lost' \subseteq ESI
    BY <1>0, <2>1, <2>2 DEF TypeOK, Packet
  <2>6. TypeOK'
    BY <1>0, <2>1, <2>4, <2>5 DEF TypeOK, zip, env, Steps
  <2>7. Placed'
    BY <1>0, <2>1, <2>2 DEF Placed, Active, Under, Ready, zip, env
  <2> QED BY <2>6, <2>7 DEF TInv
<1>4. CASE UpdateReceivedSymbolNum
  <2>1. /\ rpc = "count" /\ rows' = [rows EXCEPT ![cur].received = num]
        /\ disk' = disk /\ out' = out /\ faults' = faults
        /\ \/ /\ rpc' = "idle"
              /\ UNCHANGED <<zip, env, db, resuming, hasinit, list, cur, dec, held, check, num, pkt,
                             replay, oos, seen>>
           \/ Die /\ UNCHANGED crashes
    BY <1>4 DEF UpdateReceivedSymbolNum
  <2>2. cur \in DOMAIN rows /\ num \in Nat
    BY <1>0, <2>1 DEF Placed, TypeOK, Active, Under
  <2>3. rows' \in Seq(Row) /\ Len(rows') = Len(rows) /\ DOMAIN rows' = DOMAIN rows
    <3>1. rows \in Seq(Row) /\ rows' = [rows EXCEPT ![cur].received = num]
      BY <1>0, <2>1
    <3> QED BY <2>2, <3>1, SetReceived
  <2>4. CASE Die /\ UNCHANGED crashes
    BY <1>0, <2>1, <2>3, <2>4, DieTypes DEF TypeOK, TInv
  <2>5. CASE /\ rpc' = "idle"
             /\ UNCHANGED <<zip, env, db, resuming, hasinit, list, cur, dec, held, check, num, pkt,
                            replay, oos, seen>>
    <3>1. TypeOK'
      BY <1>0, <2>1, <2>3, <2>5 DEF TypeOK, zip, env, seen, Steps
    <3>2. Placed'
      BY <1>0, <2>1, <2>2, <2>3, <2>5 DEF Placed, Active, Under, Ready, zip, env
    <3> QED BY <3>1, <3>2 DEF TInv
  <2> QED BY <2>1, <2>4, <2>5
<1> QED BY <1>1, <1>2, <1>3, <1>4 DEF DecodeForeign

\* so do the steps after the block is decoded,
LEMMA TypesDecoded ==
  ASSUME TInv, DeleteLog \/ SaveZip \/ Complete \/ SendToUnzip
  PROVE  TInv'
<1>0. TypeOK /\ Placed /\ rows \in Seq(Row) /\ Len(rows) <= MaxRows /\ DOMAIN rows \subseteq Name
  BY RowsAreNames DEF TInv, TypeOK
<1>1. CASE DeleteLog \/ SaveZip
  <2>1. /\ UNCHANGED <<rows, out, zip, env, db, resuming, hasinit, list, cur, dec, held, check, num,
                       pkt, replay, oos, stray, lost, handed>>
        /\ \/ rpc = "delete" /\ rpc' = "save"
           \/ rpc = "save" /\ rpc' = "complete"
        /\ \E c \in {<<>>, <<Zip(FALSE)>>, <<Zip(DecodedWell)>>} : disk' = [disk EXCEPT ![cur] = c]
        /\ faults' \in {faults, faults + 1} /\ spoilt' \in {spoilt, spoilt \cup {cur}}
    BY <1>1 DEF DeleteLog, SaveZip, Fault, seen
  <2>2. cur \in DOMAIN rows /\ cur \in Name
    BY <1>0, <2>1 DEF Placed, Active, Under
  <2>3. DecodedWell \in BOOLEAN
    BY DEF DecodedWell
  <2>4. <<Zip(DecodedWell)>> \in Seq(Item) /\ <<Zip(FALSE)>> \in Seq(Item) /\ <<>> \in Seq(Item)
    BY <2>3, ZipLog, NewTypes
  <2>5. disk' \in [Name -> Seq(Item)]
    <3>1. disk \in [Name -> Seq(Item)]
      BY <1>0 DEF TypeOK
    <3>2. PICK c \in {<<>>, <<Zip(FALSE)>>, <<Zip(DecodedWell)>>} : disk' = [disk EXCEPT ![cur] = c]
      BY <2>1
    <3>3. c \in Seq(Item)
      BY <2>4, <3>2
    <3> QED BY <2>2, <3>1, <3>2, <3>3, WriteFile
  <2>6. faults' \in Nat /\ spoilt' \subseteq Name
    BY <1>0, <2>1, <2>2 DEF TypeOK
  <2>7. TypeOK'
    BY <1>0, <2>1, <2>5, <2>6 DEF TypeOK, zip, env, Steps
  <2>8. Placed'
    BY <1>0, <2>1, <2>2 DEF Placed, Active, Under, Ready, zip, env
  <2> QED BY <2>7, <2>8 DEF TInv
<1>2. CASE Complete
  <2>1. /\ rpc = "complete" /\ disk' = disk /\ out' = out /\ faults' = faults
        /\ \/ /\ rows' = [rows EXCEPT ![cur].complete = TRUE] /\ rpc' = "unzip"
              /\ UNCHANGED <<zip, env, db, resuming, hasinit, list, cur, dec, held, check, num, pkt,
                             replay, oos, seen>>
           \/ Die /\ UNCHANGED <<rows, crashes>>
    BY <1>2 DEF Complete
  <2>2. cur \in DOMAIN rows
    BY <1>0, <2>1 DEF Placed, TypeOK, Active, Under
  <2>3. CASE Die /\ UNCHANGED <<rows, crashes>>
    BY <1>0, <2>1, <2>3, DieTypes DEF TypeOK, TInv
  <2>4. CASE /\ rows' = [rows EXCEPT ![cur].complete = TRUE] /\ rpc' = "unzip"
             /\ UNCHANGED <<zip, env, db, resuming, hasinit, list, cur, dec, held, check, num, pkt,
                            replay, oos, seen>>
    <3>0. rows' \in Seq(Row) /\ Len(rows') = Len(rows) /\ DOMAIN rows' = DOMAIN rows
      <4>1. rows \in Seq(Row) /\ rows' = [rows EXCEPT ![cur].complete = TRUE]
        BY <1>0, <2>4
      <4> QED BY <2>2, <4>1, SetComplete
    <3>1. TypeOK'
      BY <1>0, <2>1, <2>4, <3>0 DEF TypeOK, zip, env, seen, Steps
    <3>2. Placed'
      BY <1>0, <2>1, <2>2, <2>4, <3>0 DEF Placed, Active, Under, Ready, zip, env
    <3> QED BY <3>1, <3>2 DEF TInv
  <2> QED BY <2>1, <2>3, <2>4
<1>3. CASE SendToUnzip
  <2>1. /\ rpc = "unzip" /\ zq' = Append(zq, cur) /\ handed' = handed + 1 /\ rpc' \in {"put", "quit"}
        /\ resuming' \in BOOLEAN /\ list' \in {list, {}}
        /\ UNCHANGED <<disks, zpc, env, db, hasinit, cur, dec, held, check, num, pkt, replay, oos,
                       faults, stray, spoilt, lost>>
    BY <1>0, <1>3 DEF SendToUnzip, TypeOK
  <2>2. cur \in DOMAIN rows /\ cur \in Name
    BY <1>0, <2>1 DEF Placed, Active, Under
  <2>3. zq' \in Seq(Name) /\ zq' # <<>>
    <3>1. zq \in Seq(Name)
      BY <1>0 DEF TypeOK
    <3> HIDE DEF Name
    <3>2. Append(zq, cur) \in Seq(Name) /\ Append(zq, cur) # <<>>
      BY <2>2, <3>1
    <3> QED BY <2>1, <3>2
  <2>4. TypeOK'
    BY <1>0, <2>1, <2>3 DEF TypeOK, disks, env, Steps
  <2>5. Placed'
    BY <1>0, <2>1, <2>2, <2>3 DEF Placed, Active, Under, Ready, disks, env
  <2> QED BY <2>4, <2>5 DEF TInv
<1> QED BY <1>1, <1>2, <1>3

\* and so does the unzip thread.
LEMMA TypesUnZip ==
  ASSUME TInv, UnZip
  PROVE  TInv'
<1>0. TypeOK /\ Placed /\ rows \in Seq(Row) /\ Len(rows) <= MaxRows /\ DOMAIN rows \subseteq Name
  BY RowsAreNames DEF TInv, TypeOK
<1>1. CASE UnZipFile
  <2>1. /\ zq # <<>> /\ zpc' \in {"rename", "delete"} /\ out' \in {out, out \cup {Head(zq)}}
        /\ UNCHANGED <<rows, disk, zq, thread, env, db, seen>> /\ faults' \in {faults, faults + 1}
    BY <1>1 DEF UnZipFile, Fault
  <2>2. Head(zq) \in Name
    BY <1>0, <2>1, HeadTailProperties DEF TypeOK
  <2>3. TypeOK'
    BY <1>0, <2>1, <2>2 DEF TypeOK, thread, env, seen
  <2>4. Placed'
    BY <1>0, <2>1 DEF Placed, Active, Under, Ready, thread
  <2> QED BY <2>3, <2>4 DEF TInv
<1>2. CASE Changename
  <2>1. /\ disk' = disk /\ out' = out /\ zpc = "rename" /\ faults' = faults
        /\ rows' \in {rows, [rows EXCEPT ![cur].name = Unzipped]}
        /\ \/ zpc' = "delete" /\ db' = "closed" /\ UNCHANGED <<zq, thread, env, seen>>
           \/ Die /\ UNCHANGED crashes
    BY <1>2 DEF Changename
  <2>2. rows' \in Seq(Row) /\ Len(rows') = Len(rows) /\ DOMAIN rows' = DOMAIN rows
    <3>1. cur \in DOMAIN rows
      BY <1>0, <2>1 DEF Placed
    <3> QED BY <1>0, <2>1, <3>1, SetName
  <2>3. CASE Die /\ UNCHANGED crashes
    BY <1>0, <2>1, <2>2, <2>3, DieTypes DEF TypeOK, TInv
  <2>4. CASE zpc' = "delete" /\ db' = "closed" /\ UNCHANGED <<zq, thread, env, seen>>
    <3>1. TypeOK'
      BY <1>0, <2>1, <2>2, <2>4 DEF TypeOK, thread, env, seen
    <3>2. Placed'
      BY <1>0, <2>1, <2>2, <2>4 DEF Placed, Active, Under, Ready, thread
    <3> QED BY <3>1, <3>2 DEF TInv
  <2> QED BY <2>1, <2>3, <2>4
<1>3. CASE DeleteZip
  <2>1. /\ zpc = "delete" /\ zpc' = "idle" /\ zq' = Tail(zq)
        /\ disk' = [disk EXCEPT ![Head(zq)] = <<>>]
        /\ UNCHANGED <<rows, out, thread, env, db, faults, seen>>
    BY <1>3 DEF DeleteZip
  <2>2. zq # <<>> /\ Head(zq) \in Name /\ Tail(zq) \in Seq(Name) /\ cur \in DOMAIN rows
    BY <1>0, <2>1, HeadTailProperties DEF TypeOK, Placed
  <2>3. disk' \in [Name -> Seq(Item)]
    BY <1>0, <2>1, <2>2, NewTypes, WriteFile DEF TypeOK
  <2>4. TypeOK'
    BY <1>0, <2>1, <2>2, <2>3 DEF TypeOK, thread, env, seen
  <2>5. Placed'
    BY <1>0, <2>1, <2>2 DEF Placed, Active, Under, Ready, thread
  <2> QED BY <2>4, <2>5 DEF TInv
<1> QED BY <1>1, <1>2, <1>3 DEF UnZip

\* Every step keeps the types.
LEMMA TypesNext == TInv /\ [Next]_vars => TInv'
<1> SUFFICES ASSUME TInv, [Next]_vars PROVE TInv'
  OBVIOUS
<1>1. CASE UNCHANGED vars
  BY <1>1 DEF vars, disks, thread, zip, env, seen, TInv, TypeOK, Placed, Active, Under, Ready
<1> QED BY <1>1, TypesUser, TypesKill, TypesReceive, TypesCompare, TypesStartNewOne, TypesDecode,
           TypesDecoded, TypesUnZip DEF Next, RaptorQ

\* The variables keep their types, whatever the files, the block, the kills and the failures.
THEOREM TypesKept == Spec => []TypeOK
<1>1. TInv => TypeOK
  BY DEF TInv
<1> QED BY TypesInit, TypesNext, <1>1, PTL DEF Spec

-----------------------------------------------------------------------------
(* The invariant of a reception.                                           *)

\* What every step knows of the table and the disk.
LEMMA Surroundings ==
  ASSUME TypeOK
  PROVE  /\ rows \in Seq(Row) /\ Len(rows) <= MaxRows /\ DOMAIN rows \subseteq Name
         /\ disk \in [Name -> Seq(Item)]
BY RowsAreNames DEF TypeOK

\* A step that leaves table and disk alone.
LEMMA SameFiles ==
  ASSUME RowsOK, LogsOK, rows' = rows, disk' = disk
  PROVE  RowsOK' /\ LogsOK'
BY DEF RowsOK, LogsOK

\* A step that writes one file.
LEMMA LogWritten ==
  ASSUME TypeOK, LogsOK, NEW n \in Name, NEW c \in Seq(Item),
         disk' = [disk EXCEPT ![n] = c],
         Loggable(Readable(c)), OnlyRecords(c) => Len(c) = Cardinality(Logged(c))
  PROVE  LogsOK'
<1>1. disk'[n] = c /\ \A m \in Name : m # n => disk'[m] = disk[m]
  BY WriteFile DEF TypeOK
<1>2. ASSUME NEW m \in Name
      PROVE  /\ Loggable(Readable(disk'[m]))
             /\ OnlyRecords(disk'[m]) => Len(disk'[m]) = Cardinality(Logged(disk'[m]))
  <2>1. CASE m = n
    BY <1>1, <2>1
  <2>2. CASE m # n
    BY <1>1, <2>2 DEF LogsOK
  <2> QED BY <2>1, <2>2
<1> QED BY <1>2 DEF LogsOK

\* Writing one file keeps what is known of the rows, if it is emptied or has a row, and if
\* that of a complete row stays no log.
LEMMA FileWritten ==
  ASSUME TypeOK, RowsOK, NEW n \in Name, NEW c \in Seq(Item),
         disk' = [disk EXCEPT ![n] = c], rows' = rows,
         c = <<>> \/ (n \in DOMAIN rows /\ rows[n].oti # NULL),
         ZipFile(c) \/ (n \in DOMAIN rows /\ ~rows[n].complete)
  PROVE  RowsOK'
<1>1. disk'[n] = c /\ \A m \in Name : m # n => disk'[m] = disk[m]
  BY WriteFile DEF TypeOK
<1>2. DOMAIN rows \subseteq Name
  BY Surroundings
<1>3. \A m \in Name : disk'[m] # <<>> => m \in DOMAIN rows /\ rows[m].oti # NULL
  BY <1>1 DEF RowsOK
<1>4. \A m \in DOMAIN rows : rows[m].complete => ZipFile(disk'[m])
  BY <1>1, <1>2 DEF RowsOK
<1> QED BY <1>3, <1>4 DEF RowsOK

\* An empty file and zip bytes are no log that could decode.
LEMMA Emptied ==
  /\ Loggable(Readable(<<>>)) /\ Len(<<>>) = Cardinality(Logged(<<>>)) /\ ZipFile(<<>>)
  /\ \A w \in BOOLEAN : /\ Loggable(Readable(<<Zip(w)>>)) /\ ~OnlyRecords(<<Zip(w)>>)
                        /\ ZipFile(<<Zip(w)>>)
<1>1. Cardinality({}) = 0 /\ Loggable({})
  BY FS_EmptySet, LoggableFew DEF Loggable
<1> QED BY <1>1, EmptyLog, ZipLog DEF ZipFile

\* Appending a packet to a log that can take it.
LEMMA LoggedPacket ==
  ASSUME NEW c \in Seq(Item), NEW E, Loggable(E), NEW p \in Packet, p.esi \in E,
         Loggable(Readable(c)),
         OnlyRecords(c) => /\ Logged(c) \subseteq E /\ p.esi \notin Logged(c)
                           /\ Len(c) = Cardinality(Logged(c)),
         NEW x \in {Record(p), Torn(p)}
  PROVE  /\ Append(c, x) \in Seq(Item)
         /\ Loggable(Readable(Append(c, x)))
         /\ OnlyRecords(Append(c, x)) =>
              /\ OnlyRecords(c) /\ x.kind = "packet"
              /\ Logged(Append(c, x)) = Logged(c) \cup {p.esi}
              /\ Len(Append(c, x)) = Cardinality(Logged(Append(c, x)))
<1>1. /\ x \in Item /\ x.packet = p /\ x.kind \in {"packet", "torn"} /\ x.kind # "zip"
  BY Items
<1>2. Append(c, x) \in Seq(Item) /\ Len(Append(c, x)) = Len(c) + 1
  BY <1>1, AppendItem
<1>3. E \in SUBSET ESI
  BY LoggableSubset
<1>4. CASE OnlyRecords(c)
  <2>1. Readable(Append(c, x)) = Logged(c) \cup {p.esi}
    BY <1>1, <1>4, AppendItem
  <2>2. Logged(c) \cup {p.esi} \in SUBSET E
    BY <1>4
  <2>3. Loggable(Readable(Append(c, x)))
    BY <2>1, <2>2, LoggableSubset
  <2>4. ASSUME OnlyRecords(Append(c, x))
        PROVE  /\ x.kind = "packet" /\ Logged(Append(c, x)) = Logged(c) \cup {p.esi}
               /\ Len(Append(c, x)) = Cardinality(Logged(Append(c, x)))
    <3>1. x.kind = "packet"
      BY <1>1, <2>4, AppendItem
    <3>2. Logged(Append(c, x)) = Logged(c) \cup {p.esi}
      BY <1>1, <3>1, AppendItem
    <3>3. Cardinality(Logged(c) \cup {p.esi}) = Cardinality(Logged(c)) + 1
      BY <1>3, <1>4, OneMore
    <3>4. Len(c) = Cardinality(Logged(c))
      BY <1>4
    <3> QED BY <1>2, <3>1, <3>2, <3>3, <3>4
  <2> QED BY <1>2, <1>4, <2>3, <2>4
<1>5. CASE ~OnlyRecords(c)
  <2>1. Readable(Append(c, x)) = Readable(c) /\ ~OnlyRecords(Append(c, x))
    BY <1>1, <1>5, AppendItem
  <2> QED BY <1>2, <2>1
<1> QED BY <1>4, <1>5

\* The log after a packet was written, or its writing failed.
LEMMA WrittenLog ==
  ASSUME NEW c \in Seq(Item), NEW E, Loggable(E), NEW p \in Packet, p.esi \in E,
         Loggable(Readable(c)),
         OnlyRecords(c) => /\ Logged(c) \subseteq E /\ p.esi \notin Logged(c)
                           /\ Len(c) = Cardinality(Logged(c)),
         NEW d, d \in Broken(c, p) \/ d = Append(c, Record(p))
  PROVE  /\ d \in Seq(Item) /\ Loggable(Readable(d))
         /\ OnlyRecords(d) => OnlyRecords(c) /\ Len(d) = Cardinality(Logged(d))
         /\ OnlyRecords(d) /\ d \in Broken(c, p) => Logged(d) = Logged(c)
         /\ OnlyRecords(d) /\ d = Append(c, Record(p)) => Logged(d) = Logged(c) \cup {p.esi}
<1>1. CASE d = c
  <2>1. Len(Append(c, Record(p))) = Len(c) + 1 /\ Len(c) \in Nat
    BY Items, AppendItem
  <2>2. d # Append(c, Record(p))
    BY <1>1, <2>1
  <2> QED BY <1>1, <2>2
<1>2. CASE d = Append(c, Torn(p)) /\ d # c
  <2>1. Torn(p).kind # "packet"
    BY Items
  <2>2. Torn(p) \in {Record(p), Torn(p)}
    OBVIOUS
  <2>3. d \in Seq(Item) /\ Loggable(Readable(d)) /\ ~OnlyRecords(d)
    BY <1>2, <2>1, <2>2, LoggedPacket
  <2> QED BY <2>3
<1>3. CASE d = Append(c, Record(p)) /\ d # c
  <2>1. Record(p) \in {Record(p), Torn(p)} /\ Torn(p).kind # "packet"
    BY Items
  <2>2. /\ d \in Seq(Item) /\ Loggable(Readable(d))
        /\ OnlyRecords(d) => /\ OnlyRecords(c) /\ Logged(d) = Logged(c) \cup {p.esi}
                             /\ Len(d) = Cardinality(Logged(d))
    BY <1>3, <2>1, LoggedPacket
  <2>3. d \in Broken(c, p) => d = Append(c, Torn(p))
    BY <1>3 DEF Broken
  <2>4. d = Append(c, Torn(p)) => ~OnlyRecords(d)
    BY <2>1, Items, AppendItem
  <2> QED BY <1>3, <2>2, <2>3, <2>4
<1> QED BY <1>1, <1>2, <1>3 DEF Broken

\* Between receptions, when nothing is with the unzip thread, most parts say nothing.
LEMMA QuietParts ==
  ASSUME RowsOK', LogsOK', ListOK', rpc' = "idle", ~hasinit', ~resuming', handed' = 0,
         zq' = <<>>, zpc' = "idle", handler' => num' = 0
  PROVE  Parts'
BY DEF DownOK, Ready, Active, Under, Counting, Closing, MessageOK, RowOK, FreshOK, HandedOK, ZipOK,
       DecoderOK, SavedOK, Parts

\* The list of a visit that goes on without a reception.
LEMMA QuietList ==
  ASSUME ListOK, ~resuming, list' = list, rows' = rows, rpc' = "idle", ~hasinit'
  PROVE  ListOK'
BY DEF ListOK, Active, Under, Ready

\* While nothing has been handed over the unzip thread has nothing to do.
LEMMA NothingHanded ==
  ASSUME Parts, handed = 0
  PROVE  zq = <<>> /\ zpc = "idle"
BY DEF Parts, ZipOK

\* When a message is handled for the first time nothing has been handed over.
LEMMA Beginning ==
  ASSUME Parts, rpc \in {"compare", "restart", "insert", "update", "first"} \/ (rpc = "idle" /\ ~hasinit)
  PROVE  handed = 0 /\ zq = <<>> /\ zpc = "idle" /\ ~resuming
<1>1. handed = 0 /\ ~resuming
  BY DEF Parts, HandedOK, Closing
<1> QED BY <1>1, NothingHanded

\* The end of the process keeps every part that its files keep.
LEMMA DieParts ==
  ASSUME Die, RowsOK', LogsOK'
  PROVE  Parts'
<1>1. /\ list' = {} /\ rpc' = "idle" /\ ~hasinit' /\ ~resuming' /\ handed' = 0 /\ num' = 0
      /\ zq' = <<>> /\ zpc' = "idle"
  BY DEF Die, NoThreads
<1>2. ListOK'
  BY <1>1 DEF ListOK
<1> QED BY <1>1, <1>2, QuietParts

\* The parts hold when the phone is new,
LEMMA PartsInit == Init => Parts
<1> SUFFICES ASSUME Init PROVE Parts
  OBVIOUS
<1>1. \A n \in Name : disk[n] = <<>>
  BY DEF Init
<1>2. LogsOK
  BY <1>1, Emptied DEF LogsOK
<1>3. RowsOK
  BY <1>1 DEF Init, RowsOK
<1> QED BY <1>2, <1>3 DEF Init, Parts, Ready, Active, Under, Counting, Closing, ListOK, DownOK,
                           MessageOK, RowOK, FreshOK, HandedOK, ZipOK, DecoderOK, SavedOK

\* the activities keep them: the list is of incomplete rows when a visit begins;
LEMMA PartsUser ==
  ASSUME TInv, Parts, User
  PROVE  Parts'
<1>0. /\ TypeOK /\ RowsOK /\ LogsOK /\ ListOK /\ rows \in Seq(Row) /\ DOMAIN rows \subseteq Name
      /\ disk \in [Name -> Seq(Item)]
  BY Surroundings DEF TInv, Parts
<1>1. CASE Launch
  <2>1. PICK last \in Name :
          disk' = [n \in Name |->
                     IF n # last /\ \E i \in DOMAIN rows : rows[i].oti = NULL /\ rows[i].name = n
                       THEN <<>> ELSE disk[n]]
    BY <1>1 DEF Launch
  <2>2. \A n \in Name : disk'[n] \in {<<>>, disk[n]}
    BY <2>1
  <2>3. UNCHANGED <<rows, thread, zip, handler, seen>>
    BY <1>1 DEF Launch
  <2>4. RowsOK'
    <3>1. \A n \in Name : disk'[n] # <<>> => n \in DOMAIN rows' /\ rows'[n].oti # NULL
      BY <1>0, <2>2, <2>3 DEF RowsOK
    <3>2. \A i \in DOMAIN rows' : rows'[i].complete => ZipFile(disk'[i])
      BY <1>0, <2>2, <2>3, Emptied DEF RowsOK
    <3> QED BY <1>0, <2>3, <3>1, <3>2 DEF RowsOK
  <2>5. LogsOK'
    BY <1>0, <2>2, Emptied DEF LogsOK
  <2>6. rpc = "idle" /\ ~hasinit
    BY <1>1 DEF Launch, Parts, DownOK
  <2>7. handed = 0 /\ zq = <<>> /\ zpc = "idle" /\ ~resuming
    BY <2>6, Beginning
  <2>8. handler => num = 0
    BY <2>6 DEF Parts, FreshOK
  <2>9. /\ rpc' = "idle" /\ ~hasinit' /\ ~resuming' /\ handed' = 0 /\ zq' = <<>> /\ zpc' = "idle"
        /\ handler' => num' = 0
        /\ list' = list
    BY <2>3, <2>6, <2>7, <2>8 DEF thread, zip, seen
  <2>10. ListOK'
    BY <1>0, <2>3, <2>7, <2>9, QuietList
  <2> QED BY <2>4, <2>5, <2>9, <2>10, QuietParts
<1>2. CASE OpenReceive
  <2>1. NoThreads /\ rows' = rows /\ disk' = disk /\ list' = SearchUnComplete
    BY <1>2 DEF OpenReceive, disks
  <2>2. RowsOK' /\ LogsOK'
    BY <1>0, <2>1, SameFiles
  <2>3. /\ rpc' = "idle" /\ ~hasinit' /\ ~resuming' /\ handed' = 0 /\ num' = 0
        /\ zq' = <<>> /\ zpc' = "idle"
    BY <2>1 DEF NoThreads
  <2>4. ListOK'
    BY <2>1, <2>3 DEF ListOK, SearchUnComplete, Active, Under, Ready
  <2> QED BY <2>2, <2>3, <2>4, QuietParts
<1>3. CASE Pause \/ Leave
  <2>1. /\ UNCHANGED <<disks, thread, zip, db, seen>>
        /\ handler' = FALSE \/ handler' = handler
        /\ proc' # "down" /\ proc # "down"
    BY <1>3 DEF Pause, Leave
  <2>2. RowsOK' /\ LogsOK'
    BY <1>0, <2>1, SameFiles DEF disks
  <2>3. ListOK' /\ DownOK' /\ MessageOK' /\ RowOK'
    BY <2>1 DEF Parts, ListOK, DownOK, MessageOK, RowOK, Ready, Active, Under, thread, zip, disks, seen
  <2>4. FreshOK'
    BY <2>1 DEF Parts, FreshOK, thread, disks, seen
  <2>5. HandedOK' /\ ZipOK'
    BY <2>1 DEF Parts, HandedOK, Closing, ZipOK, thread, zip, disks, seen
  <2>6. DecoderOK' /\ SavedOK'
    BY <2>1 DEF Parts, DecoderOK, SavedOK, Ready, Counting, thread, disks, seen
  <2> QED BY <2>2, <2>3, <2>4, <2>5, <2>6 DEF Parts
<1> QED BY <1>1, <1>2, <1>3 DEF User

\* so does a kill: a torn record or a part of a zip is not read as more than it is;
LEMMA PartsKill ==
  ASSUME TInv, Parts, Kill \/ KillInWrite
  PROVE  Parts'
<1>0. /\ TypeOK /\ RowsOK /\ LogsOK /\ rows \in Seq(Row) /\ DOMAIN rows \subseteq Name
      /\ disk \in [Name -> Seq(Item)]
  BY Surroundings DEF TInv, Parts
<1>1. CASE Kill
  <2>1. Die /\ rows' = rows /\ disk' = disk
    BY <1>1 DEF Kill, disks
  <2> QED BY <1>0, <2>1, SameFiles, DieParts
<1>2. CASE /\ KillInWrite
           /\ (rpc = "first" /\ pkt.file # Junk) \/ (rpc = "write" /\ oos)
           /\ disk' = [disk EXCEPT ![cur] = Append(@, Torn(pkt))]
  <2>1. Die /\ rows' = rows
    BY <1>2 DEF KillInWrite
  <2>2. handed = 0
    BY <1>2 DEF Parts, HandedOK, Closing
  <2>3. /\ cur \in DOMAIN rows /\ cur \in Name /\ rows[cur].oti # NULL /\ ~rows[cur].complete
        /\ disk[cur] \in Seq(Item)
    BY <1>0, <1>2, <2>2 DEF Parts, RowOK, Active, Under
  <2>4. pkt \in Packet /\ pkt.esi \in ESI
    BY <1>2, MessageTypes DEF TInv, Placed, Packet
  <2> DEFINE c == Append(disk[cur], Torn(pkt))
  <2>5. c \in Seq(Item) /\ Loggable(Readable(c)) /\ ~OnlyRecords(c)
    <3>0. Torn(pkt).kind # "packet" /\ Torn(pkt) \in {Record(pkt), Torn(pkt)}
      BY <2>4, Items
    <3>1. CASE rpc = "first"
      <4>1. disk[cur] = <<>> /\ Loggable({pkt.esi})
        BY <2>4, <3>1, LoggableFew DEF Parts, FreshOK
      <4>2. /\ OnlyRecords(disk[cur]) => /\ Logged(disk[cur]) \subseteq {pkt.esi}
                                         /\ pkt.esi \notin Logged(disk[cur])
                                         /\ Len(disk[cur]) = Cardinality(Logged(disk[cur]))
            /\ Loggable(Readable(disk[cur]))
        BY <4>1, Emptied, EmptyLog
      <4> QED BY <2>3, <2>4, <3>0, <4>1, <4>2, LoggedPacket
    <3>2. CASE rpc = "write"
      <4>1. Loggable(check) /\ pkt.esi \in check
        BY <3>2 DEF Parts, DecoderOK, SavedOK, Counting
      <4>2. /\ OnlyRecords(disk[cur]) => /\ Logged(disk[cur]) \subseteq check
                                         /\ pkt.esi \notin Logged(disk[cur])
                                         /\ Len(disk[cur]) = Cardinality(Logged(disk[cur]))
            /\ Loggable(Readable(disk[cur]))
        BY <2>3, <3>2 DEF Parts, SavedOK, LogsOK
      <4> QED BY <2>3, <2>4, <3>0, <4>1, <4>2, LoggedPacket
    <3> QED BY <1>2, <3>1, <3>2
  <2> HIDE DEF c
  <2>6. disk' = [disk EXCEPT ![cur] = c]
    BY <1>2 DEF c
  <2>7. LogsOK'
    BY <1>0, <2>3, <2>5, <2>6, LogWritten
  <2>8. RowsOK'
    BY <1>0, <2>1, <2>3, <2>5, <2>6, FileWritten
  <2> QED BY <2>1, <2>7, <2>8, DieParts
<1>3. CASE KillInWrite /\ rpc = "save" /\ disk' = [disk EXCEPT ![cur] = <<Zip(FALSE)>>]
  <2>1. Die /\ rows' = rows
    BY <1>3 DEF KillInWrite
  <2>2. cur \in DOMAIN rows /\ cur \in Name /\ rows[cur].oti # NULL
    BY <1>0, <1>3 DEF Parts, RowOK, Active, Under
  <2>3. /\ <<Zip(FALSE)>> \in Seq(Item) /\ Loggable(Readable(<<Zip(FALSE)>>))
        /\ ~OnlyRecords(<<Zip(FALSE)>>) /\ ZipFile(<<Zip(FALSE)>>)
    BY Emptied, ZipLog
  <2>4. LogsOK'
    BY <1>0, <1>3, <2>2, <2>3, LogWritten
  <2>5. RowsOK'
    BY <1>0, <1>3, <2>1, <2>2, <2>3, FileWritten
  <2> QED BY <2>1, <2>4, <2>5, DieParts
<1> QED BY <1>1, <1>2, <1>3 DEF KillInWrite

\* so does the next decode message, which belongs to the reception unless it is stray.
LEMMA PartsTake ==
  ASSUME TInv, Parts, NEW c \in Codes, NEW e \in ESI, Take(c, e),
         c = Junk => stray', hasinit => stray' \/ rows[cur].oti = Oti[c],
         ~hasinit => (stray' => c = Junk)
  PROVE  Parts'
<1>0. TypeOK /\ RowsOK /\ LogsOK
  BY DEF TInv, Parts, TypeOK
<1>1. /\ UNCHANGED <<disks, zip, proc, handler, db, resuming, list, cur, dec, held, check, num,
                     replay, oos, spoilt, lost, handed>>
      /\ proc = "receiving" /\ rpc = "idle" /\ hasinit' = TRUE
      /\ pkt' = [file |-> c, esi |-> e, intact |-> TRUE]
      /\ rpc' = IF hasinit THEN "put" ELSE "compare"
  BY DEF Take
<1>2. RowsOK' /\ LogsOK'
  BY <1>0, <1>1, SameFiles DEF disks
<1>3. pkt' \in Message /\ pkt'.file = c
  BY <1>1 DEF Message
<1>4. handed = 0 /\ zq = <<>> /\ zpc = "idle" /\ ~resuming /\ zq' = <<>> /\ handed' = 0
  <2>1. handed = 0 /\ ~resuming
    BY <1>1 DEF Parts, HandedOK, Closing
  <2> QED BY <1>1, <2>1, NothingHanded DEF zip
<1>5. MessageOK'
  <2>1. hasinit => rpc' \in Under \ {"replay"}
    BY <1>1 DEF Under
  <2> QED BY <1>1, <1>3, <2>1 DEF MessageOK
<1>6. HandedOK' /\ ZipOK' /\ DownOK'
  BY <1>1, <1>4 DEF HandedOK, Closing, ZipOK, DownOK, zip
<1>7. CASE hasinit
  <2>1. Ready /\ Active /\ Counting /\ rpc' = "put"
    BY <1>1, <1>7 DEF Ready, Active, Counting
  <2>2. ListOK'
    BY <1>1, <2>1 DEF Parts, ListOK, disks
  <2>3. RowOK'
    BY <1>1, <1>3, <1>4, <1>7, <2>1 DEF Parts, RowOK, disks
  <2>4. FreshOK' /\ SavedOK'
    BY <1>1, <2>1 DEF Parts, FreshOK, SavedOK, disks
  <2>5. DecoderOK'
    BY <1>1, <2>1 DEF Parts, DecoderOK
  <2> QED BY <1>2, <1>5, <1>6, <2>2, <2>3, <2>4, <2>5 DEF Parts
<1>8. CASE ~hasinit
  <2>1. rpc' = "compare" /\ ~Active' /\ ~Counting' /\ ~Ready'
    BY <1>1, <1>4, <1>8 DEF Active, Counting, Ready, Under
  <2>2. ListOK'
    BY <1>1, <1>4, <2>1 DEF Parts, ListOK, disks
  <2>3. RowOK' /\ DecoderOK' /\ SavedOK'
    BY <2>1 DEF RowOK, DecoderOK, SavedOK, Under
  <2>4. FreshOK'
    BY <1>1, <1>8, <2>1 DEF Parts, FreshOK
  <2> QED BY <1>2, <1>5, <1>6, <2>2, <2>3, <2>4 DEF Parts
<1> QED BY <1>7, <1>8

\* A message of the file being received, or a stray one.
LEMMA PartsReceive ==
  ASSUME TInv, Parts, (\E e \in ESI : Receive(e)) \/ ReceiveStray
  PROVE  Parts'
<1>1. CASE \E e \in ESI : Receive(e)
  <2>1. PICK e \in ESI : Receive(e)
    BY <1>1
  <2>2. PICK c \in Files : Belongs(c) /\ Take(c, e)
    BY <2>1 DEF Receive
  <2>3. c \in Codes /\ c # Junk
    BY ReceiverAssumption DEF Codes
  <2>4. hasinit => rows[cur].oti = Oti[c]
    BY <2>2 DEF Belongs, Take, Ready
  <2>5. stray' = FALSE
    BY <2>1 DEF Receive
  <2> QED BY <2>2, <2>3, <2>4, <2>5, PartsTake
<1>2. CASE ReceiveStray
  <2>1. PICK c \in Codes, e \in ESI : Take(c, e) /\ (c = Junk \/ ~Belongs(c))
    BY <1>2, EsisFinite DEF ReceiveStray, Codes
  <2>2. stray' = TRUE
    BY <1>2 DEF ReceiveStray
  <2>3. ~hasinit => c = Junk
    BY <2>1 DEF Belongs, Ready, Codes
  <2> QED BY <2>1, <2>2, <2>3, PartsTake
<1> QED BY <1>1, <1>2

\* An exception while the first message is handled: it is dropped.
LEMMA Dropped ==
  ASSUME Parts, DropFirst, rpc \in {"compare", "restart", "update", "first"},
         RowsOK', LogsOK', UNCHANGED <<zip, env, handed>>, list' = list,
         DOMAIN rows' = DOMAIN rows,
         \A j \in DOMAIN rows : rows'[j] = rows[j] \/ (rpc = "update" /\ j = cur),
         handler => num' = 0
  PROVE  Parts'
<1>1. handed = 0 /\ zq = <<>> /\ zpc = "idle" /\ ~resuming
  BY Beginning
<1>2. /\ rpc' = "idle" /\ ~hasinit' /\ ~resuming' /\ handed' = 0 /\ zq' = <<>> /\ zpc' = "idle"
      /\ handler' => num' = 0
  BY <1>1 DEF DropFirst, zip, env
<1>3. \A r \in list : r.id \in DOMAIN rows /\ rows'[r.id] = rows[r.id]
  BY DEF Parts, ListOK
<1>4. ListOK'
  BY <1>1, <1>2, <1>3 DEF Parts, ListOK, Active, Under, Ready
<1> QED BY <1>2, <1>4, QuietParts

\* The comparison with the list, and what a visit resumes: a row that is not complete, with
\* the parameters of the message.
LEMMA PartsCompare ==
  ASSUME TInv, Parts, CompareWithList
  PROVE  Parts'
<1>0. TypeOK /\ RowsOK /\ LogsOK /\ proc # "down"
  BY DEF TInv, Parts, DownOK, CompareWithList
<1>1. UNCHANGED <<disks, zip, env, list, dec, held, check, num, pkt, oos, faults, seen>> /\ rpc = "compare"
  BY DEF CompareWithList
<1>2. RowsOK' /\ LogsOK' /\ rows' = rows
  BY <1>0, <1>1, SameFiles DEF disks
<1>3. handed = 0 /\ zq = <<>> /\ zpc = "idle" /\ ~resuming /\ (handler => num = 0)
  BY <1>1, Beginning DEF Parts, FreshOK
<1>4. /\ hasinit /\ pkt \in Message /\ (pkt.file = Junk <=> stray)
  BY <1>1 DEF Parts, MessageOK, Under
<1>5. \/ rpc' = "insert" /\ UNCHANGED <<resuming, hasinit, replay, cur, db>>
      \/ DropFirst /\ UNCHANGED <<cur, db>>
      \/ \E r \in list : /\ r.oti # NULL /\ (r.oti = NULL \/ FECParametersEqual(r.oti, pkt))
                         /\ cur' = r.id /\ db' = "open" /\ rpc' = "restart"
                         /\ UNCHANGED <<resuming, hasinit, replay>>
  BY DEF CompareWithList
<1>6. CASE rpc' = "insert" /\ UNCHANGED <<resuming, hasinit, replay, cur, db>>
  <2>1. ~Active' /\ ~Ready' /\ ~Counting'
    BY <1>1, <1>3, <1>6 DEF Active, Under, Ready, Counting
  <2>2. ListOK' /\ DownOK' /\ MessageOK' /\ RowOK'
    BY <1>0, <1>1, <1>3, <1>4, <1>6, <2>1 DEF Parts, ListOK, DownOK, MessageOK, RowOK, Under, disks, env, seen
  <2>3. FreshOK'
    BY <1>1, <1>3, <1>6 DEF Parts, FreshOK, disks, env, seen
  <2>4. HandedOK' /\ ZipOK'
    BY <1>1, <1>3, <1>6 DEF HandedOK, Closing, ZipOK, zip, seen
  <2>5. DecoderOK' /\ SavedOK'
    BY <1>6, <2>1 DEF DecoderOK, SavedOK
  <2> QED BY <1>2, <2>2, <2>3, <2>4, <2>5 DEF Parts
<1>7. CASE DropFirst /\ UNCHANGED <<cur, db>>
  BY <1>1, <1>2, <1>3, <1>7, Dropped DEF seen
<1>8. ASSUME NEW r \in list, r.oti # NULL, r.oti = NULL \/ FECParametersEqual(r.oti, pkt),
             cur' = r.id, db' = "open", rpc' = "restart", UNCHANGED <<resuming, hasinit, replay>>
      PROVE  Parts'
  <2>1. ~Active' /\ ~Ready' /\ ~Counting'
    BY <1>1, <1>3, <1>8 DEF Active, Under, Ready, Counting
  <2>2. /\ cur' \in DOMAIN rows /\ rows[cur'].oti = Oti[pkt.file] /\ rows[cur'].oti # NULL
        /\ ~rows[cur'].complete
    BY <1>3, <1>8 DEF Parts, ListOK, FECParametersEqual
  <2>3. RowOK'
    BY <1>1, <1>2, <1>3, <1>8, <2>1, <2>2 DEF RowOK, seen
  <2>4. ListOK' /\ DownOK' /\ MessageOK'
    BY <1>0, <1>1, <1>2, <1>3, <1>4, <1>8, <2>1 DEF Parts, ListOK, DownOK, MessageOK, env, seen
  <2>5. FreshOK'
    BY <1>8 DEF FreshOK
  <2>6. HandedOK' /\ ZipOK'
    BY <1>1, <1>3, <1>8 DEF HandedOK, Closing, ZipOK, zip, seen
  <2>7. DecoderOK' /\ SavedOK'
    BY <1>8, <2>1 DEF DecoderOK, SavedOK
  <2> QED BY <1>2, <2>3, <2>4, <2>5, <2>6, <2>7 DEF Parts
<1> QED BY <1>5, <1>6, <1>7, <1>8

\* The replay starts from the log, with a new decoder.
LEMMA PartsRestart ==
  ASSUME TInv, Parts, RestartDecode
  PROVE  Parts'
<1>0. TypeOK /\ RowsOK /\ LogsOK /\ proc # "down" /\ disk \in [Name -> Seq(Item)] /\ DOMAIN rows \subseteq Name
  BY Surroundings DEF TInv, Parts, DownOK, RestartDecode
<1>1. /\ UNCHANGED <<disks, zip, env, db, list, cur, pkt, stray, handed>> /\ rpc = "restart"
      /\ dec' = Made({}) /\ held' = {} /\ num' = 0
      /\ \/ /\ rpc' = "replay" /\ resuming' = TRUE /\ check' = {} /\ hasinit' = hasinit
            /\ lost' = {} /\ replay' \in ReadObject(disk[cur])
         \/ DropFirst
  BY NewDecoder DEF RestartDecode
<1>2. RowsOK' /\ LogsOK' /\ rows' = rows /\ disk' = disk
  BY <1>0, <1>1, SameFiles DEF disks
<1>3. handed = 0 /\ zq = <<>> /\ zpc = "idle" /\ ~resuming
  BY <1>1, Beginning
<1>4. /\ cur \in DOMAIN rows /\ rows[cur].oti # NULL /\ (stray \/ rows[cur].oti = Oti[pkt.file])
      /\ ~rows[cur].complete /\ db = "open" /\ cur \in Name /\ disk[cur] \in Seq(Item)
  BY <1>0, <1>1, <1>3 DEF Parts, RowOK
<1>5. CASE DropFirst
  BY <1>1, <1>2, <1>5, Dropped
<1>6. CASE /\ rpc' = "replay" /\ resuming' = TRUE /\ check' = {} /\ hasinit' = hasinit
           /\ lost' = {} /\ replay' \in ReadObject(disk[cur])
  <2>1. MessageOK'
    <3>1. hasinit /\ pkt \in Message /\ (pkt.file = Junk <=> stray)
      BY <1>1 DEF Parts, MessageOK, Under
    <3> QED BY <1>1, <1>6, <3>1 DEF MessageOK
  <2>2. ListOK' /\ DownOK'
    BY <1>0, <1>1, <1>2, <1>3, <1>6 DEF Parts, ListOK, DownOK, env
  <2>3. RowOK'
    BY <1>1, <1>2, <1>3, <1>4, <1>6 DEF RowOK, Under
  <2>4. HandedOK' /\ ZipOK' /\ FreshOK'
    BY <1>1, <1>3, <1>6 DEF HandedOK, Closing, ZipOK, FreshOK, zip
  <2>5. DecoderOK'
    <3>1. Loggable({}) /\ Cardinality({}) = 0
      BY LoggableFew, FS_EmptySet DEF Loggable
    <3> QED BY <1>1, <1>6, <3>1 DEF DecoderOK
  <2>6. /\ Esis(replay') \subseteq Readable(disk[cur])
        /\ OnlyRecords(disk[cur]) => Esis(replay') = Logged(disk[cur])
    BY <1>4, <1>6, ReadObjectFacts
  <2>7. Loggable({} \cup Esis(replay'))
    <3>1. Loggable(Readable(disk[cur])) /\ {} \cup Esis(replay') \in SUBSET Readable(disk[cur])
      BY <1>0, <1>4, <2>6 DEF LogsOK
    <3> QED BY <3>1, LoggableSubset
  <2>8. SavedOK'
    BY <1>1, <1>2, <1>6, <2>6, <2>7 DEF SavedOK, Ready
  <2> QED BY <1>2, <2>1, <2>2, <2>3, <2>4, <2>5, <2>8 DEF Parts
<1> QED BY <1>1, <1>5, <1>6

\* One packet put on a decoder, when a log may hold the symbols it then has: the symbols,
\* and the packets they come from.
LEMMA PutKeepsMade ==
  ASSUME NEW p \in Packet, PutPacket(p), dec = Made(check),
         {q.esi : q \in held} = check, Loggable(check \cup {p.esi})
  PROVE  /\ dec' = Made(check \cup {p.esi})
         /\ {q.esi : q \in held'} = check \cup {p.esi}
         /\ held' \subseteq held \cup {p}
<1>1. p.esi \in ESI /\ check \in SUBSET ESI
  BY LoggableSubset DEF Packet
<1>2. Held(dec) = check /\ (Decoded(dec) <=> Source \subseteq check)
  BY <1>1, MadeFacts
<1>3. dec' = Made(check \cup {p.esi})
  BY <1>1, LoggedPut DEF PutPacket
<1>4. Decoded(dec) => p.esi \in check
  <2> SUFFICES ASSUME Decoded(dec) PROVE p.esi \in check
    OBVIOUS
  <2>1. Source \subseteq check /\ Source \subseteq check \cup {p.esi}
    BY <1>2
  <2>2. check \cup {p.esi} = {0} /\ 0 \in Source
    BY <2>1, LoggableSource, EsisFinite
  <2> QED BY <2>1, <2>2
<1>5. CASE p.esi \in check
  BY <1>2, <1>3, <1>5 DEF PutPacket
<1>6. CASE p.esi \notin check
  <2>1. held' = held \cup {p}
    BY <1>2, <1>4, <1>6 DEF PutPacket
  <2> QED BY <1>3, <2>1
<1> QED BY <1>5, <1>6

\* One packet of the log is put: it moves from what is to be replayed to the check array.
LEMMA PartsReplay ==
  ASSUME TInv, Parts, Replay
  PROVE  Parts'
<1>0. TypeOK /\ RowsOK /\ LogsOK /\ proc # "down"
  BY DEF TInv, Parts, DownOK, Replay
<1> DEFINE p == Head(replay)
<1>1. /\ UNCHANGED <<disks, zip, env, db, rpc, resuming, hasinit, list, cur, pkt, oos, faults, seen>>
      /\ rpc = "replay" /\ replay # <<>> /\ PutPacket(p)
      /\ replay' = Tail(replay) /\ check' = check \cup {p.esi}
      /\ num' = IF p.esi \in check THEN num ELSE num + 1
  BY DEF Replay
<1>2. RowsOK' /\ LogsOK' /\ rows' = rows /\ disk' = disk
  BY <1>0, <1>1, SameFiles DEF disks
<1>3. p \in Packet /\ p.esi \in ESI /\ Esis(replay) = {p.esi} \cup Esis(replay')
  BY <1>0, <1>1, FirstPacket DEF TypeOK, Packet
<1> HIDE DEF p
<1>4. /\ Loggable(check) /\ dec = Made(check) /\ {q.esi : q \in held} = check
      /\ num = Cardinality(check) /\ Loggable(check \cup Esis(replay)) /\ check \in SUBSET ESI
      /\ lost = {} /\ (OnlyRecords(disk[cur]) => Logged(disk[cur]) = check \cup Esis(replay))
      /\ resuming
  BY <1>1, LoggableSubset DEF Parts, HandedOK, DecoderOK, SavedOK, Counting
<1>5. Loggable(check')
  <2>1. check' \in SUBSET (check \cup Esis(replay))
    BY <1>1, <1>3
  <2> QED BY <1>4, <2>1, LoggableSubset
<1>6. /\ dec' = Made(check') /\ {q.esi : q \in held'} = check'
  BY <1>1, <1>3, <1>4, <1>5, PutKeepsMade
<1>7. num' = Cardinality(check')
  BY <1>1, <1>3, <1>4, OneMore
<1>8. DecoderOK'
  BY <1>1, <1>4, <1>5, <1>6, <1>7 DEF DecoderOK
<1>9. check' \cup Esis(replay') = check \cup Esis(replay)
  BY <1>1, <1>3
<1>10. SavedOK'
  BY <1>1, <1>2, <1>4, <1>9 DEF SavedOK, Ready, seen
<1>11. ListOK' /\ DownOK' /\ MessageOK' /\ RowOK'
  BY <1>0, <1>1, <1>2 DEF Parts, ListOK, DownOK, MessageOK, RowOK, Active, Under, Ready, env, seen
<1>12. HandedOK' /\ ZipOK' /\ FreshOK'
  BY <1>0, <1>1, <1>2 DEF Parts, HandedOK, Closing, ZipOK, FreshOK, zip, seen
<1> QED BY <1>2, <1>8, <1>10, <1>11, <1>12 DEF Parts

\* The replay of a log decodes the block only if that has one symbol.
LEMMA PartsEndReplay ==
  ASSUME TInv, Parts, EndReplay
  PROVE  Parts'
<1>0. TypeOK /\ RowsOK /\ LogsOK /\ proc # "down"
  BY DEF TInv, Parts, DownOK, EndReplay
<1>1. /\ UNCHANGED <<disks, zip, env, db, hasinit, cur, dec, held, check, num, pkt, replay, oos,
                     faults, seen>>
      /\ rpc = "replay" /\ replay = <<>>
  BY DEF EndReplay
<1>2. /\ resuming /\ handed = 0 /\ dec = Made(check) /\ Loggable(check) /\ check \in SUBSET ESI
      /\ lost = {} /\ (OnlyRecords(disk[cur]) => Logged(disk[cur]) = check)
      /\ {p.esi : p \in held} = check /\ num = Cardinality(check)
  <2>1. check \cup Esis(replay) = check
    BY <1>1, NoPackets
  <2> QED BY <1>1, <2>1, LoggableSubset DEF Parts, HandedOK, DecoderOK, SavedOK, Counting
<1>3. RowsOK' /\ LogsOK' /\ rows' = rows /\ disk' = disk
  BY <1>0, <1>1, SameFiles DEF disks
<1>4. MessageOK' /\ DownOK' /\ RowOK' /\ ZipOK' /\ FreshOK'
  <2>1. rpc' \in {"delete", "put"}
    BY DEF EndReplay
  <2>2. MessageOK' /\ DownOK' /\ RowOK'
    BY <1>0, <1>1, <1>2, <1>3, <2>1 DEF Parts, DownOK, MessageOK, RowOK, Active, Under, Ready, env, seen
  <2>3. ZipOK' /\ FreshOK'
    BY <1>1, <1>3, <2>1 DEF Parts, ZipOK, FreshOK, zip, seen
  <2> QED BY <2>2, <2>3
<1>5. CASE Decoded(dec)
  <2>1. rpc' = "delete" /\ UNCHANGED <<resuming, list>>
    BY <1>5 DEF EndReplay
  <2>2. K = 1
    BY <1>2, <1>5, MadeFacts, LoggableSource
  <2>3. ListOK'
    BY <1>1, <1>2, <1>3, <2>1 DEF Parts, ListOK
  <2>4. HandedOK'
    BY <1>1, <1>2, <1>5, <2>1, <2>2 DEF HandedOK, Closing, seen
  <2>5. DecoderOK' /\ SavedOK'
    BY <1>1, <1>2, <2>1 DEF DecoderOK, SavedOK, Ready, seen
  <2> QED BY <1>3, <1>4, <2>3, <2>4, <2>5 DEF Parts
<1>6. CASE ~Decoded(dec)
  <2>1. rpc' = "put" /\ ~resuming' /\ list' = {}
    BY <1>6 DEF EndReplay
  <2>2. ListOK'
    BY <2>1 DEF ListOK
  <2>3. HandedOK'
    BY <1>1, <1>2, <2>1 DEF HandedOK, Closing, seen
  <2>4. DecoderOK' /\ SavedOK'
    BY <1>1, <1>2, <1>3, <2>1 DEF DecoderOK, SavedOK, Ready, seen
  <2> QED BY <1>3, <1>4, <2>2, <2>3, <2>4 DEF Parts
<1> QED BY <1>5, <1>6

\* A new row: nothing has its number yet, no file, no entry of the list.
LEMMA PartsInsert ==
  ASSUME TInv, Parts, InsertNewFile
  PROVE  Parts'
<1>0. /\ TypeOK /\ RowsOK /\ LogsOK /\ proc # "down" /\ rows \in Seq(Row) /\ DOMAIN rows \subseteq Name
  BY Surroundings DEF TInv, Parts, DownOK, InsertNewFile
<1>1. /\ UNCHANGED <<disk, out, zip, env, db, resuming, hasinit, list, dec, held, check, num, pkt,
                     replay, oos, faults, seen>>
      /\ rpc = "insert" /\ rpc' = "update" /\ cur' = Len(rows) + 1 /\ Len(rows) < MaxRows
      /\ rows' = Append(rows, [name |-> Len(rows) + 1, oti |-> NULL, received |-> 0, complete |-> FALSE])
  BY DEF InsertNewFile
<1>2. /\ DOMAIN rows' = DOMAIN rows \cup {cur'} /\ cur' \notin DOMAIN rows
      /\ \A j \in DOMAIN rows : rows'[j] = rows[j]
      /\ rows'[cur'].name = cur' /\ rows'[cur'].oti = NULL /\ rows'[cur'].complete = FALSE
  BY <1>0, <1>1, AppendRow
<1>3. cur' \in Name
  BY <1>0, <1>1, RowBound DEF Name
<1>4. handed = 0 /\ zq = <<>> /\ zpc = "idle" /\ ~resuming /\ (handler => num = 0)
  BY <1>1, Beginning DEF Parts, FreshOK
<1>5. RowsOK'
  <2>1. \A i \in DOMAIN rows' : rows'[i].name \in {i, Unzipped}
    BY <1>0, <1>2 DEF RowsOK
  <2>2. \A n \in Name : disk[n] # <<>> => n \in DOMAIN rows' /\ rows'[n].oti # NULL
    BY <1>0, <1>2 DEF RowsOK
  <2>3. \A i \in DOMAIN rows' : rows'[i].complete => ZipFile(disk[i])
    BY <1>0, <1>2 DEF RowsOK
  <2> QED BY <1>1, <2>1, <2>2, <2>3 DEF RowsOK
<1>6. LogsOK'
  BY <1>0, <1>1 DEF LogsOK
<1>7. FreshOK'
  <2>1. disk[cur'] = <<>>
    BY <1>0, <1>2, <1>3 DEF RowsOK
  <2> QED BY <1>1, <1>4, <2>1 DEF FreshOK, env
<1>8. ~Active' /\ ~Ready' /\ ~Counting'
  BY <1>1, <1>4 DEF Active, Under, Ready, Counting
<1>9. ListOK'
  BY <1>1, <1>2, <1>4, <1>8 DEF Parts, ListOK
<1>10. RowOK'
  BY <1>1, <1>2, <1>8 DEF RowOK, Under
<1>11. DownOK' /\ MessageOK'
  BY <1>0, <1>1 DEF Parts, DownOK, MessageOK, Under, env, seen
<1>12. HandedOK' /\ ZipOK'
  BY <1>1, <1>4 DEF HandedOK, Closing, ZipOK, zip, seen
<1>13. DecoderOK' /\ SavedOK'
  BY <1>1, <1>8 DEF DecoderOK, SavedOK
<1> QED BY <1>5, <1>6, <1>7, <1>9, <1>10, <1>11, <1>12, <1>13 DEF Parts

\* The row gets its parameters, the reception a decoder that has nothing yet.
LEMMA PartsUpdate ==
  ASSUME TInv, Parts, UpdateFECParameters
  PROVE  Parts'
<1>0. /\ TypeOK /\ RowsOK /\ LogsOK /\ proc # "down" /\ rows \in Seq(Row) /\ DOMAIN rows \subseteq Name
  BY Surroundings DEF TInv, Parts, DownOK, UpdateFECParameters
<1>1. /\ UNCHANGED <<disk, out, zip, env, list, cur, num, pkt, stray, spoilt, handed>>
      /\ rpc = "update" /\ rows' = [rows EXCEPT ![cur].oti = Oti[pkt.file]]
      /\ db' = "open" /\ dec' = Made({}) /\ held' = {} /\ check' = {}
      /\ \/ rpc' = "first" /\ lost' = {} /\ UNCHANGED <<resuming, hasinit, replay>>
         \/ DropFirst
  BY NewDecoder DEF UpdateFECParameters
<1>2. /\ cur \in DOMAIN rows /\ ~rows[cur].complete /\ disk[cur] = <<>> /\ (handler => num = 0)
      /\ hasinit /\ pkt \in Message /\ (pkt.file = Junk <=> stray)
  BY <1>1 DEF Parts, MessageOK, RowOK, FreshOK, Under
<1>3. Oti[pkt.file] \in Parameters /\ Oti[pkt.file] # NULL
  BY <1>2, MessageTypes, ReceiverAssumption DEF Codes
<1>4. /\ DOMAIN rows' = DOMAIN rows /\ \A j \in DOMAIN rows : j # cur => rows'[j] = rows[j]
      /\ rows'[cur].name = rows[cur].name /\ rows'[cur].oti = Oti[pkt.file]
      /\ rows'[cur].complete = rows[cur].complete
  BY <1>0, <1>1, <1>2, <1>3, SetOti
<1>5. RowsOK'
  <2>1. \A i \in DOMAIN rows' : rows'[i].name \in {i, Unzipped}
    BY <1>0, <1>4 DEF RowsOK
  <2>2. \A n \in Name : disk[n] # <<>> => n \in DOMAIN rows' /\ rows'[n].oti # NULL
    BY <1>0, <1>3, <1>4 DEF RowsOK
  <2>3. \A i \in DOMAIN rows' : rows'[i].complete => ZipFile(disk[i])
    BY <1>0, <1>2, <1>4 DEF RowsOK
  <2> QED BY <1>1, <2>1, <2>2, <2>3 DEF RowsOK
<1>6. LogsOK'
  BY <1>0, <1>1 DEF LogsOK
<1>7. handed = 0 /\ zq = <<>> /\ zpc = "idle" /\ ~resuming
  BY <1>1, Beginning
<1>8. CASE DropFirst
  <2>1. UNCHANGED <<zip, env, handed>> /\ list' = list /\ (handler => num' = 0)
    BY <1>1, <1>2
  <2> QED BY <1>1, <1>4, <1>5, <1>6, <1>8, <2>1, Dropped
<1>9. CASE rpc' = "first" /\ lost' = {} /\ UNCHANGED <<resuming, hasinit, replay>>
  <2>1. ~Active' /\ ~Ready' /\ ~Counting'
    BY <1>7, <1>9 DEF Active, Under, Ready, Counting
  <2>2. ListOK'
    BY <1>1, <1>4, <1>7, <1>9, <2>1 DEF Parts, ListOK
  <2>3. RowOK'
    BY <1>1, <1>2, <1>3, <1>4, <1>7, <1>9, <2>1 DEF RowOK
  <2>4. FreshOK'
    BY <1>1, <1>2, <1>9 DEF FreshOK, env
  <2>5. DownOK' /\ MessageOK'
    BY <1>0, <1>1, <1>2, <1>9 DEF DownOK, MessageOK, env
  <2>6. HandedOK' /\ ZipOK'
    BY <1>1, <1>7, <1>9 DEF HandedOK, Closing, ZipOK, zip
  <2>7. DecoderOK' /\ SavedOK'
    BY <1>9, <2>1 DEF DecoderOK, SavedOK
  <2> QED BY <1>5, <1>6, <2>2, <2>3, <2>4, <2>5, <2>6, <2>7 DEF Parts
<1> QED BY <1>1, <1>8, <1>9

\* The first packet of a new row: it is counted and held, and logged unless that fails.
LEMMA PartsFirst ==
  ASSUME TInv, Parts, DecodeFirst
  PROVE  Parts'
<1>0. /\ TypeOK /\ RowsOK /\ LogsOK /\ proc # "down" /\ rows \in Seq(Row) /\ DOMAIN rows \subseteq Name
      /\ disk \in [Name -> Seq(Item)] /\ rpc = "first"
  BY Surroundings DEF TInv, Parts, DownOK, DecodeFirst
<1>1. UNCHANGED <<rows, out, zip, env, db, cur, pkt, stray, spoilt, handed>>
  BY DEF DecodeFirst
<1>2. handed = 0 /\ zq = <<>> /\ zpc = "idle" /\ ~resuming
  BY <1>0, Beginning
<1>3. /\ cur \in DOMAIN rows /\ cur \in Name /\ rows[cur].oti # NULL /\ ~rows[cur].complete
      /\ (stray \/ rows[cur].oti = Oti[pkt.file])
      /\ db = "open" /\ disk[cur] = <<>>
      /\ dec = Made({}) /\ held = {} /\ lost = {} /\ (handler => num = 0)
  BY <1>0, <1>2 DEF Parts, RowOK, FreshOK
<1>4. hasinit /\ pkt \in Message /\ (pkt.file = Junk <=> stray)
  BY <1>0 DEF Parts, MessageOK, Under
<1>5. CASE pkt.file = Junk
  <2>1. DropFirst /\ UNCHANGED <<disk, list, num>>
    BY <1>5 DEF DecodeFirst
  <2>2. RowsOK' /\ LogsOK'
    BY <1>0, <1>1, <2>1, SameFiles
  <2> QED BY <1>0, <1>1, <1>3, <2>1, <2>2, Dropped
<1>6. CASE pkt.file # Junk
  <2>1. /\ PutPacket(pkt) /\ check' = {pkt.esi} /\ num' = num + 1
        /\ IF handler
             THEN rpc' = "put" /\ list' = {} /\ UNCHANGED <<resuming, hasinit, replay>>
             ELSE DropFirst /\ UNCHANGED list
    BY <1>6 DEF DecodeFirst
  <2>2. pkt \in Packet /\ pkt.esi \in ESI
    BY <1>4, <1>6, MessageTypes
  <2>3. Loggable({pkt.esi}) /\ Cardinality({pkt.esi}) = 1
    BY <2>2, LoggableFew, FS_Singleton
  <2>4. dec' = Made({pkt.esi}) /\ {q.esi : q \in held'} = {pkt.esi}
    <3>1. ~Decoded(Made({})) /\ Held(Made({})) = {}
      BY MadeFacts, EsisFinite
    <3>2. held' = {pkt}
      BY <1>3, <2>1, <3>1 DEF PutPacket
    <3>3. {} \cup {pkt.esi} = {pkt.esi}
      OBVIOUS
    <3>4. Put(Made({}), {pkt.esi}) = Made({pkt.esi})
      BY <2>2, <2>3, <3>3, LoggedPut
    <3> QED BY <1>3, <2>1, <3>2, <3>4 DEF PutPacket
  <2>5. PICK c : /\ disk' = [disk EXCEPT ![cur] = c]
                 /\ \/ c \in Broken(disk[cur], pkt) /\ lost' = {pkt.esi}
                    \/ c = Append(disk[cur], Record(pkt)) /\ lost' = lost
    BY <1>6 DEF DecodeFirst
  <2>6. /\ c \in Seq(Item) /\ Loggable(Readable(c))
        /\ OnlyRecords(c) => Len(c) = Cardinality(Logged(c)) /\ Logged(c) = {pkt.esi} \ lost'
    <3>1. /\ disk[cur] \in Seq(Item) /\ Loggable(Readable(disk[cur])) /\ Logged(disk[cur]) = {}
          /\ Len(disk[cur]) = Cardinality(Logged(disk[cur]))
      BY <1>3, Emptied, EmptyLog
    <3>2. /\ c \in Seq(Item) /\ Loggable(Readable(c))
          /\ OnlyRecords(c) => Len(c) = Cardinality(Logged(c))
          /\ OnlyRecords(c) /\ c \in Broken(disk[cur], pkt) => Logged(c) = Logged(disk[cur])
          /\ OnlyRecords(c) /\ c = Append(disk[cur], Record(pkt)) => Logged(c) = Logged(disk[cur]) \cup {pkt.esi}
      <4> DEFINE E == {pkt.esi}
                 a == disk[cur]
      <4>1. /\ pkt.esi \in E /\ Loggable(E) /\ pkt \in Packet /\ a \in Seq(Item) /\ Loggable(Readable(a))
            /\ OnlyRecords(a) => /\ Logged(a) \subseteq E /\ pkt.esi \notin Logged(a)
                                 /\ Len(a) = Cardinality(Logged(a))
        BY <2>2, <2>3, <3>1
      <4>2. c \in Broken(a, pkt) \/ c = Append(a, Record(pkt))
        BY <2>5
      <4> HIDE DEF E, a
      <4>3. /\ c \in Seq(Item) /\ Loggable(Readable(c))
            /\ OnlyRecords(c) => Len(c) = Cardinality(Logged(c))
            /\ OnlyRecords(c) /\ c \in Broken(a, pkt) => Logged(c) = Logged(a)
            /\ OnlyRecords(c) /\ c = Append(a, Record(pkt)) => Logged(c) = Logged(a) \cup {pkt.esi}
        BY <4>1, <4>2, WrittenLog
      <4> QED BY <4>3 DEF a
    <3>3. CASE c \in Broken(disk[cur], pkt) /\ lost' = {pkt.esi}
      <4>1. {pkt.esi} \ lost' = {}
        BY <3>3
      <4> QED BY <3>1, <3>2, <3>3, <4>1
    <3>4. CASE c = Append(disk[cur], Record(pkt)) /\ lost' = lost
      <4>1. {pkt.esi} \ lost' = {pkt.esi} /\ {} \cup {pkt.esi} = {pkt.esi}
        BY <1>3, <3>4
      <4> QED BY <3>1, <3>2, <3>4, <4>1
    <3> QED BY <2>5, <3>3, <3>4
  <2>7. disk'[cur] = c
    BY <1>0, <1>3, <2>5, <2>6, WriteFile
  <2>8. LogsOK'
    BY <1>0, <1>3, <2>5, <2>6, LogWritten
  <2>9. RowsOK'
    BY <1>0, <1>1, <1>3, <2>5, <2>6, FileWritten
  <2>10. CASE handler
    <3>1. rpc' = "put" /\ list' = {} /\ UNCHANGED <<resuming, hasinit, replay>>
      BY <2>1, <2>10
    <3>2. num' = Cardinality({pkt.esi})
      BY <1>3, <2>1, <2>3, <2>10
    <3>3. DecoderOK'
      BY <2>1, <2>3, <2>4, <3>1, <3>2 DEF DecoderOK
    <3>4. SavedOK'
      BY <1>1, <1>3, <2>1, <2>5, <2>6, <2>7, <3>1 DEF SavedOK, Ready
    <3>5. ListOK' /\ DownOK' /\ MessageOK' /\ FreshOK'
      BY <1>0, <1>1, <1>4, <3>1 DEF ListOK, DownOK, MessageOK, FreshOK, Under, env
    <3>6. RowOK'
      BY <1>1, <1>2, <1>3, <3>1 DEF RowOK
    <3>7. HandedOK' /\ ZipOK'
      BY <1>1, <1>2, <3>1 DEF HandedOK, Closing, ZipOK, zip
    <3> QED BY <2>8, <2>9, <3>3, <3>4, <3>5, <3>6, <3>7 DEF Parts
  <2>11. CASE ~handler
    <3>1. DropFirst /\ list' = list
      BY <2>1, <2>11
    <3> QED BY <1>0, <1>1, <2>8, <2>9, <2>11, <3>1, Dropped
  <2> QED BY <2>10, <2>11
<1> QED BY <1>5, <1>6

\* decodeRaptor goes on collecting, or it is done, or it gives the log up.
LEMMA PartsDecode ==
  ASSUME TInv, Parts, DecodeForeign \/ DecodeRaptor
  PROVE  Parts'
<1>0. /\ TypeOK /\ RowsOK /\ LogsOK /\ proc # "down" /\ rpc = "put"
      /\ rows \in Seq(Row) /\ DOMAIN rows \subseteq Name /\ disk \in [Name -> Seq(Item)]
  BY Surroundings DEF TInv, Parts, DownOK, DecodeForeign, DecodeRaptor
<1>1. CASE Die /\ UNCHANGED disks
  <2>1. rows' = rows /\ disk' = disk
    BY <1>1 DEF disks
  <2> QED BY <1>0, <1>1, <2>1, SameFiles, DieParts
<1>2. CASE DecodeRaptor /\ ~(Die /\ UNCHANGED disks)
  <2>1. /\ PutPacket(pkt) /\ pkt.file # Junk
        /\ \/ /\ Put(dec, {pkt.esi}).state = INCOMPLETE
              /\ check' = check \cup {pkt.esi}
              /\ num' = IF pkt.esi \in check THEN num ELSE num + 1
              /\ rpc' = IF pkt.esi \in check THEN "idle" ELSE "write"
              /\ disk' = disk
           \/ rpc' = "delete" /\ disk' = disk
           \/ rpc' = "quit" /\ disk' = [disk EXCEPT ![cur] = <<>>]
        /\ UNCHANGED <<rows, out, zip, env, db, resuming, hasinit, list, cur, pkt, replay, oos, stray,
                       lost, handed>>
    BY <1>2 DEF DecodeRaptor
  <2>2. /\ cur \in DOMAIN rows /\ cur \in Name /\ rows[cur].oti # NULL
        /\ (rows[cur].complete <=> handed = 1) /\ (db = "open" \/ handed = 1)
        /\ (stray \/ rows[cur].oti = Oti[pkt.file])
    BY <1>0 DEF Parts, RowOK, Active, Under
  <2>3. /\ list = {} /\ ~resuming /\ hasinit /\ pkt \in Message
        /\ (pkt.file = Junk => stray)
        /\ (handed = 0 \/ (handed = 1 /\ K = 1)) /\ (handed = 1 => Decoded(dec))
    BY <1>0 DEF Parts, ListOK, HandedOK, Closing, MessageOK, Active, Under
  <2>4. /\ Loggable(check) /\ dec = Made(check) /\ {p.esi : p \in held} = check
        /\ num = Cardinality(check) /\ check \in SUBSET ESI
        /\ handed = 0 => lost \subseteq check
        /\ handed = 0 /\ OnlyRecords(disk[cur]) => Logged(disk[cur]) = check \ lost
    BY <1>0, LoggableSubset DEF Parts, DecoderOK, SavedOK, Counting
  <2>5. pkt \in Packet /\ pkt.esi \in ESI
    BY <2>1, <2>3, MessageTypes
  <2>6. ListOK' /\ DownOK' /\ MessageOK'
    <3>1. rpc' \in {"idle", "write", "delete", "quit"}
      BY <2>1
    <3>2. ListOK'
      BY <2>1, <2>3 DEF ListOK
    <3>3. DownOK'
      BY <1>0, <2>1 DEF DownOK, env
    <3>4. MessageOK'
      BY <2>1, <2>3, <3>1 DEF MessageOK, Under
    <3> QED BY <3>2, <3>3, <3>4
  <2>7. RowOK'
    <3>1. rpc' \in {"idle", "write", "delete", "quit"}
      BY <2>1
    <3> QED BY <2>1, <2>2, <3>1 DEF RowOK, Active, Under, Ready
  <2>8. FreshOK'
    <3>1. rpc' \in {"idle", "write", "delete", "quit"} /\ hasinit'
      BY <2>1, <2>3
    <3> QED BY <3>1 DEF FreshOK
  <2>9. ZipOK'
    <3>1. rpc' # "unzip"
      BY <2>1
    <3>2. zq # <<>> /\ zpc = "idle" => db = "open"
      BY <2>3 DEF Parts, ZipOK
    <3> QED BY <2>1, <3>1, <3>2 DEF Parts, ZipOK, zip
  <2>10. CASE /\ Put(dec, {pkt.esi}).state = INCOMPLETE
              /\ check' = check \cup {pkt.esi}
              /\ num' = IF pkt.esi \in check THEN num ELSE num + 1
              /\ rpc' = IF pkt.esi \in check THEN "idle" ELSE "write"
              /\ disk' = disk
    <3>0. ~Decoded(dec) /\ handed = 0 /\ Collects(check)
      <4>1. ~Decoded(dec)
        <5>1. Decoded(dec) => Put(dec, {pkt.esi}) = dec
          BY DEF Put
        <5> QED BY <2>10, <5>1 DEF Decoded, DECODED, INCOMPLETE
      <4>2. ~(Source \subseteq check)
        BY <2>4, <4>1, MadeFacts
      <4>3. K = 1 /\ check = {0} => Source \subseteq check
        BY DEF Source
      <4> QED BY <2>3, <2>4, <4>1, <4>2, <4>3 DEF Loggable
    <3>1. Collects(check')
      BY <2>4, <2>5, <2>10, <3>0, CollectingPut
    <3>2. dec' = Made(check') /\ {q.esi : q \in held'} = check'
      BY <2>1, <2>4, <2>5, <2>10, <3>1, PutKeepsMade DEF Loggable
    <3>3. num' = Cardinality(check')
      BY <2>4, <2>5, <2>10, OneMore
    <3>4. DecoderOK'
      BY <3>1, <3>2, <3>3 DEF DecoderOK, Loggable
    <3>5. SavedOK'
      <4>1. CASE pkt.esi \in check
        <5>1. check' = check /\ rpc' = "idle"
          BY <2>10, <4>1
        <5> QED BY <2>1, <2>4, <2>10, <3>0, <5>1 DEF SavedOK
      <4>2. CASE pkt.esi \notin check
        <5>1. /\ rpc' = "write" /\ pkt.esi \in check' /\ pkt.esi \notin lost
              /\ (check' \ lost) \ {pkt.esi} = check \ lost /\ lost \subseteq check'
          BY <2>4, <2>10, <3>0, <4>2
        <5> QED BY <2>1, <2>4, <2>10, <3>0, <5>1 DEF SavedOK, Ready
      <4> QED BY <4>1, <4>2
    <3>6. HandedOK'
      BY <2>1, <2>3, <2>10, <3>0 DEF HandedOK, Closing
    <3>7. RowsOK' /\ LogsOK'
      BY <1>0, <2>1, <2>10, SameFiles
    <3> QED BY <2>6, <2>7, <2>8, <2>9, <3>4, <3>5, <3>6, <3>7 DEF Parts
  <2>11. CASE rpc' = "delete" /\ disk' = disk
    <3>1. RowsOK' /\ LogsOK'
      BY <1>0, <2>1, <2>11, SameFiles
    <3>2. ~Counting'
      BY <2>1, <2>3, <2>11 DEF Counting, Ready
    <3>3. DecoderOK' /\ SavedOK'
      BY <2>11, <3>2 DEF DecoderOK, SavedOK, Ready
    <3>4. HandedOK'
      BY <2>1, <2>3, <2>11 DEF HandedOK, Closing
    <3> QED BY <2>6, <2>7, <2>8, <2>9, <3>1, <3>3, <3>4 DEF Parts
  <2>12. CASE rpc' = "quit" /\ disk' = [disk EXCEPT ![cur] = <<>>]
    <3>1. RowsOK' /\ LogsOK'
      BY <1>0, <2>1, <2>2, <2>12, EmptyLog, Emptied, LogWritten, FileWritten
    <3>2. ~Counting'
      BY <2>1, <2>3, <2>12 DEF Counting, Ready
    <3>3. DecoderOK' /\ SavedOK'
      BY <2>12, <3>2 DEF DecoderOK, SavedOK, Ready
    <3>4. HandedOK'
      BY <2>1, <2>3, <2>12 DEF HandedOK, Closing
    <3> QED BY <2>6, <2>7, <2>8, <2>9, <3>1, <3>3, <3>4 DEF Parts
  <2> QED BY <2>1, <2>10, <2>11, <2>12
<1> QED BY <1>1, <1>2 DEF DecodeForeign

\* The packet that was counted is logged, unless that fails.
LEMMA PartsWrite ==
  ASSUME TInv, Parts, WritePacket
  PROVE  Parts'
<1>0. /\ TypeOK /\ RowsOK /\ LogsOK /\ proc # "down" /\ rows \in Seq(Row) /\ DOMAIN rows \subseteq Name
      /\ disk \in [Name -> Seq(Item)] /\ rpc = "write"
  BY Surroundings DEF TInv, Parts, DownOK, WritePacket
<1>1. CASE Die /\ UNCHANGED disks
  <2>1. rows' = rows /\ disk' = disk
    BY <1>1 DEF disks
  <2> QED BY <1>0, <1>1, <2>1, SameFiles, DieParts
<1>2. CASE ~(Die /\ UNCHANGED disks)
  <2>1. /\ UNCHANGED <<rows, out, zip, env, db, resuming, hasinit, list, cur, dec, held, check, num,
                       pkt, replay, oos, stray, spoilt, handed>>
        /\ rpc' = "count"
        /\ \E c : /\ disk' = [disk EXCEPT ![cur] = c]
                  /\ \/ c \in Broken(disk[cur], pkt) /\ lost' = lost \cup {pkt.esi}
                     \/ c = Append(disk[cur], Record(pkt)) /\ lost' = lost
    BY <1>2 DEF WritePacket
  <2>2. handed = 0 /\ ~resuming
    BY <1>0 DEF Parts, HandedOK, Closing
  <2>3. /\ cur \in DOMAIN rows /\ cur \in Name /\ rows[cur].oti # NULL /\ ~rows[cur].complete
        /\ disk[cur] \in Seq(Item) /\ pkt \in Packet
    BY <1>0, <2>2 DEF Parts, RowOK, TInv, Placed, Active, Under
  <2>4. /\ Loggable(check) /\ pkt.esi \in check /\ pkt.esi \notin lost /\ lost \subseteq check
        /\ OnlyRecords(disk[cur]) => Logged(disk[cur]) = (check \ lost) \ {pkt.esi}
    BY <1>0, <2>2 DEF Parts, DecoderOK, SavedOK, Counting
  <2>5. /\ Loggable(Readable(disk[cur]))
        /\ OnlyRecords(disk[cur]) => Len(disk[cur]) = Cardinality(Logged(disk[cur]))
    BY <2>3 DEF Parts, LogsOK
  <2>6. PICK c : /\ disk' = [disk EXCEPT ![cur] = c]
                 /\ \/ c \in Broken(disk[cur], pkt) /\ lost' = lost \cup {pkt.esi}
                    \/ c = Append(disk[cur], Record(pkt)) /\ lost' = lost
    BY <2>1
  <2>7. /\ c \in Seq(Item) /\ Loggable(Readable(c))
        /\ OnlyRecords(c) => Len(c) = Cardinality(Logged(c)) /\ Logged(c) = check \ lost'
    <3>1. /\ c \in Seq(Item) /\ Loggable(Readable(c))
          /\ OnlyRecords(c) => OnlyRecords(disk[cur]) /\ Len(c) = Cardinality(Logged(c))
          /\ OnlyRecords(c) /\ c \in Broken(disk[cur], pkt) => Logged(c) = Logged(disk[cur])
          /\ OnlyRecords(c) /\ c = Append(disk[cur], Record(pkt)) => Logged(c) = Logged(disk[cur]) \cup {pkt.esi}
      <4>1. OnlyRecords(disk[cur]) => /\ Logged(disk[cur]) \subseteq check /\ pkt.esi \notin Logged(disk[cur])
                                      /\ Len(disk[cur]) = Cardinality(Logged(disk[cur]))
        BY <2>4, <2>5
      <4> QED BY <2>3, <2>4, <2>5, <2>6, <4>1, WrittenLog
    <3> QED BY <2>4, <2>6, <3>1
  <2>8. disk'[cur] = c
    BY <1>0, <2>3, <2>6, <2>7, WriteFile
  <2>9. LogsOK'
    BY <1>0, <2>3, <2>6, <2>7, LogWritten
  <2>10. RowsOK'
    BY <1>0, <2>1, <2>3, <2>6, <2>7, FileWritten
  <2>11. SavedOK'
    BY <2>1, <2>2, <2>4, <2>6, <2>7, <2>8 DEF SavedOK, Ready
  <2>12. ListOK' /\ DownOK' /\ MessageOK'
    BY <1>0, <2>1 DEF Parts, ListOK, DownOK, MessageOK, Active, Under, Ready, env
  <2>13. RowOK' /\ FreshOK'
    BY <1>0, <2>1 DEF Parts, RowOK, FreshOK, Active, Under, Ready
  <2>14. HandedOK' /\ ZipOK'
    BY <1>0, <2>1, <2>2, NothingHanded DEF HandedOK, Closing, ZipOK, zip
  <2>15. DecoderOK'
    BY <1>0, <2>1, <2>2 DEF Parts, DecoderOK, Counting, Ready
  <2> QED BY <2>9, <2>10, <2>11, <2>12, <2>13, <2>14, <2>15 DEF Parts
<1> QED BY <1>1, <1>2

\* The count is written: to the row, or, without an activity, as the last thing the process does.
LEMMA PartsCount ==
  ASSUME TInv, Parts, UpdateReceivedSymbolNum
  PROVE  Parts'
<1>0. /\ TypeOK /\ RowsOK /\ LogsOK /\ proc # "down" /\ rows \in Seq(Row) /\ num \in Nat
  BY Surroundings DEF TInv, TypeOK, Parts, DownOK, UpdateReceivedSymbolNum
<1>1. /\ rpc = "count" /\ rows' = [rows EXCEPT ![cur].received = num] /\ disk' = disk
      /\ \/ /\ rpc' = "idle"
            /\ UNCHANGED <<zip, env, db, resuming, hasinit, list, cur, dec, held, check, num, pkt,
                           replay, oos, seen>>
         \/ Die
  BY DEF UpdateReceivedSymbolNum
<1>2. handed = 0 /\ ~resuming /\ cur \in DOMAIN rows /\ hasinit /\ list = {}
  BY <1>1 DEF Parts, HandedOK, Closing, RowOK, MessageOK, ListOK, Active, Under
<1>3. /\ DOMAIN rows' = DOMAIN rows /\ \A j \in DOMAIN rows : j # cur => rows'[j] = rows[j]
      /\ rows'[cur].name = rows[cur].name /\ rows'[cur].oti = rows[cur].oti
      /\ rows'[cur].complete = rows[cur].complete
  <2>1. rows \in Seq(Row) /\ rows' = [rows EXCEPT ![cur].received = num]
    BY <1>0, <1>1
  <2> QED BY <1>0, <1>2, <2>1, SetReceived
<1>4. RowsOK'
  BY <1>0, <1>1, <1>2, <1>3 DEF RowsOK
<1>5. LogsOK'
  BY <1>0, <1>1 DEF LogsOK
<1>6. CASE Die
  BY <1>4, <1>5, <1>6, DieParts
<1>7. CASE /\ rpc' = "idle"
           /\ UNCHANGED <<zip, env, db, resuming, hasinit, list, cur, dec, held, check, num, pkt,
                          replay, oos, seen>>
  <2>1. RowOK'
    BY <1>1, <1>2, <1>3, <1>7 DEF Parts, RowOK, Active, Under, Ready, seen
  <2>2. ListOK' /\ DownOK' /\ MessageOK' /\ FreshOK'
    BY <1>0, <1>2, <1>7 DEF ListOK, DownOK, MessageOK, FreshOK, env
  <2>3. HandedOK' /\ ZipOK'
    BY <1>2, <1>7, NothingHanded DEF HandedOK, Closing, ZipOK, zip, seen
  <2>4. DecoderOK'
    BY <1>1, <1>2, <1>7 DEF Parts, DecoderOK, Counting
  <2>5. SavedOK'
    BY <1>1, <1>7 DEF Parts, SavedOK, Counting, Ready, seen
  <2> QED BY <1>4, <1>5, <2>1, <2>2, <2>3, <2>4, <2>5 DEF Parts
<1> QED BY <1>1, <1>6, <1>7

\* The log makes room for the zip, which takes its name, if it can be written.
LEMMA PartsSave ==
  ASSUME TInv, Parts, DeleteLog \/ SaveZip
  PROVE  Parts'
<1>0. /\ TypeOK /\ RowsOK /\ LogsOK /\ rows \in Seq(Row) /\ DOMAIN rows \subseteq Name
      /\ disk \in [Name -> Seq(Item)]
  BY Surroundings DEF TInv, Parts
<1>1. /\ UNCHANGED <<rows, out, zip, env, db, resuming, hasinit, list, cur, dec, held, check, num,
                     pkt, replay, oos, stray, lost, handed>>
      /\ \/ rpc = "delete" /\ rpc' = "save" /\ disk' = [disk EXCEPT ![cur] = <<>>]
         \/ /\ rpc = "save" /\ rpc' = "complete"
            /\ \E c \in {<<>>, <<Zip(FALSE)>>, <<Zip(DecodedWell)>>} : disk' = [disk EXCEPT ![cur] = c]
  BY DEF DeleteLog, SaveZip, seen
<1>2. cur \in DOMAIN rows /\ cur \in Name /\ rows[cur].oti # NULL
  BY <1>0, <1>1 DEF Parts, RowOK, Active, Under
<1>3. DecodedWell \in BOOLEAN
  BY DEF DecodedWell
<1>4. PICK c \in {<<>>, <<Zip(FALSE)>>, <<Zip(DecodedWell)>>} :
        disk' = [disk EXCEPT ![cur] = c] /\ (rpc' = "save" => c = <<>>)
  BY <1>1
<1>5. /\ c \in Seq(Item) /\ Loggable(Readable(c)) /\ ZipFile(c)
      /\ OnlyRecords(c) => Len(c) = Cardinality(Logged(c))
  BY <1>3, Emptied, EmptyLog, ZipLog
<1>6. LogsOK'
  BY <1>0, <1>2, <1>4, <1>5, LogWritten
<1>7. RowsOK'
  BY <1>0, <1>1, <1>2, <1>4, <1>5, FileWritten
<1>8. FreshOK'
  <2>1. disk'[cur] = c
    BY <1>0, <1>2, <1>4, <1>5, WriteFile
  <2> QED BY <1>1, <1>4, <1>5, <2>1 DEF FreshOK
<1>9. ListOK' /\ DownOK' /\ MessageOK' /\ RowOK'
  BY <1>0, <1>1 DEF Parts, ListOK, DownOK, MessageOK, RowOK, Active, Under, Ready, env
<1>10. HandedOK'
  BY <1>1 DEF Parts, HandedOK, Closing
<1>11. ZipOK'
  <2>1. handed = 0 \/ handed = 1
    BY <1>1 DEF Parts, HandedOK, Closing
  <2>2. zq # <<>> /\ zpc = "idle" => db = "open"
    BY <2>1 DEF Parts, ZipOK
  <2> QED BY <1>1, <2>2 DEF Parts, ZipOK, zip
<1>12. DecoderOK' /\ SavedOK'
  BY <1>1 DEF Parts, DecoderOK, SavedOK, Counting, Ready
<1> QED BY <1>6, <1>7, <1>8, <1>9, <1>10, <1>11, <1>12 DEF Parts

\* The database is open when the row is marked, unless a block of one symbol was decoded for
\* the second time.
LEMMA PartsComplete ==
  ASSUME TInv, Parts, Complete
  PROVE  Parts' /\ (proc' = proc \/ (K = 1 /\ handed = 1))
<1>0. /\ TypeOK /\ RowsOK /\ LogsOK /\ rows \in Seq(Row) /\ rpc = "complete" /\ proc # "down"
  BY Surroundings DEF TInv, Parts, DownOK, Complete
<1>1. /\ cur \in DOMAIN rows /\ (db = "open" \/ handed = 1) /\ (handed = 0 \/ (handed = 1 /\ K = 1))
      /\ ZipFile(disk[cur]) /\ (resuming \/ list = {})
  BY <1>0 DEF Parts, RowOK, HandedOK, Closing, FreshOK, ListOK, Active, Under
<1>2. CASE db # "open"
  <2>1. Die /\ rows' = rows /\ disk' = disk
    BY <1>2 DEF Complete
  <2> QED BY <1>0, <1>1, <1>2, <2>1, SameFiles, DieParts
<1>3. CASE db = "open"
  <2>1. /\ rows' = [rows EXCEPT ![cur].complete = TRUE] /\ disk' = disk /\ rpc' = "unzip"
        /\ UNCHANGED <<zip, env, db, resuming, hasinit, list, cur, dec, held, check, num, pkt, replay,
                       oos, seen>>
    BY <1>3 DEF Complete
  <2>2. /\ DOMAIN rows' = DOMAIN rows /\ \A j \in DOMAIN rows : j # cur => rows'[j] = rows[j]
        /\ rows'[cur].name = rows[cur].name /\ rows'[cur].oti = rows[cur].oti
        /\ rows'[cur].complete
    BY <1>0, <1>1, <2>1, SetComplete
  <2>3. RowsOK'
    BY <1>0, <1>1, <2>1, <2>2 DEF RowsOK
  <2>4. LogsOK'
    BY <1>0, <2>1 DEF LogsOK
  <2>5. RowOK'
    BY <1>0, <1>1, <2>1, <2>2 DEF Parts, RowOK, Active, Under, Ready, seen
  <2>6. ListOK'
    BY <1>1, <2>1, <2>2 DEF Parts, ListOK
  <2>7. DownOK' /\ MessageOK' /\ FreshOK'
    BY <1>0, <2>1 DEF Parts, DownOK, MessageOK, FreshOK, Under, env, seen
  <2>8. HandedOK'
    BY <1>0, <2>1 DEF Parts, HandedOK, Closing, seen
  <2>9. ZipOK'
    <3>1. zq # <<>> => zq \in {<<cur>>, <<cur, cur>>} /\ handed >= 1 /\ (zq = <<cur, cur>> => handed = 2)
      BY DEF Parts, ZipOK
    <3>2. zpc # "idle" => zq # <<>>
      BY DEF Parts, ZipOK
    <3> QED BY <1>1, <1>3, <2>1, <2>2, <3>1, <3>2 DEF ZipOK, zip, seen
  <2>10. DecoderOK' /\ SavedOK'
    BY <1>0, <2>1 DEF Parts, DecoderOK, SavedOK, Counting, Ready, seen
  <2>11. proc' = proc
    BY <2>1 DEF env
  <2> QED BY <2>3, <2>4, <2>5, <2>6, <2>7, <2>8, <2>9, <2>10, <2>11 DEF Parts
<1> QED BY <1>2, <1>3

\* A queue of one that is given one more.
LEMMA SecondOne == ASSUME NEW x PROVE Append(<<x>>, x) = <<x, x>>
<1>1. /\ Len(<<x>>) = 1 /\ <<x>> \in Seq({x}) /\ <<x>>[1] = x
      /\ Len(<<x, x>>) = 2 /\ <<x, x>> \in Seq({x}) /\ <<x, x>>[1] = x /\ <<x, x>>[2] = x
  OBVIOUS
<1>2. Append(<<x>>, x) \in Seq({x}) /\ Len(Append(<<x>>, x)) = 2
  BY <1>1, AppendProperties
<1>3. Append(<<x>>, x)[1] = x /\ Append(<<x>>, x)[2] = x
  BY <1>1, AppendProperties
<1>4. \A i \in 1 .. 2 : Append(<<x>>, x)[i] = <<x, x>>[i]
  BY <1>1, <1>3
<1> QED BY <1>1, <1>2, <1>4, SeqEqual

\* The reception is handed over, and its thread ends, or decodes the block again.
LEMMA PartsHandOver ==
  ASSUME TInv, Parts, SendToUnzip
  PROVE  Parts'
<1>0. /\ TypeOK /\ RowsOK /\ LogsOK /\ rows \in Seq(Row) /\ DOMAIN rows \subseteq Name /\ rpc = "unzip"
      /\ proc # "down"
  BY Surroundings DEF TInv, Parts, DownOK, SendToUnzip
<1>1. /\ cur \in DOMAIN rows /\ rows[cur].complete /\ rows[cur].oti # NULL
      /\ (db = "open" \/ handed = 1) /\ (stray \/ rows[cur].oti = Oti[pkt.file])
      /\ hasinit /\ pkt \in Message /\ (pkt.file = Junk => stray)
      /\ (handed = 0 \/ (handed = 1 /\ K = 1))
  BY <1>0 DEF Parts, RowOK, MessageOK, HandedOK, Closing, Active, Under
<1>2. /\ zq' = Append(zq, cur) /\ handed' = handed + 1
      /\ UNCHANGED <<disks, zpc, env, db, hasinit, cur, dec, held, check, num, pkt, replay, oos,
                     faults, stray, spoilt, lost>>
      /\ rows' = rows /\ disk' = disk
  BY DEF SendToUnzip, disks
<1>3. RowsOK' /\ LogsOK'
  BY <1>0, <1>2, SameFiles
<1>4. CASE resuming
  <2>1. rpc' = "put" /\ ~resuming' /\ list' = {}
    BY <1>4 DEF SendToUnzip
  <2>2. handed = 0 /\ K = 1 /\ Decoded(dec) /\ zq = <<>> /\ zpc = "idle"
    BY <1>0, <1>4, NothingHanded DEF Parts, HandedOK
  <2>3. zq' = <<cur>> /\ handed' = 1
    BY <1>2, <2>2
  <2>4. ListOK' /\ DownOK' /\ MessageOK' /\ FreshOK'
    BY <1>0, <1>1, <1>2, <2>1 DEF ListOK, DownOK, MessageOK, FreshOK, Under, env
  <2>5. RowOK'
    BY <1>1, <1>2, <2>1, <2>3 DEF RowOK
  <2>6. HandedOK'
    BY <1>2, <2>1, <2>2, <2>3 DEF HandedOK, Closing
  <2>7. ZipOK'
    <3>1. <<cur>> # <<cur, cur>>
      OBVIOUS
    <3> QED BY <1>1, <1>2, <2>1, <2>2, <2>3, <3>1 DEF ZipOK
  <2>8. DecoderOK'
    BY <1>2, <1>4, <2>1 DEF Parts, DecoderOK, Counting
  <2>9. SavedOK'
    BY <2>1, <2>3 DEF SavedOK, Ready
  <2> QED BY <1>3, <2>4, <2>5, <2>6, <2>7, <2>8, <2>9 DEF Parts
<1>5. CASE ~resuming
  <2>1. rpc' = "quit" /\ ~resuming' /\ list' = list
    BY <1>5 DEF SendToUnzip
  <2>2. list = {}
    BY <1>0, <1>5 DEF Parts, ListOK, Active, Under
  <2>3. ~Active' /\ ~Counting' /\ ~Ready'
    BY <2>1 DEF Active, Under, Counting, Ready
  <2>4. ListOK' /\ DownOK' /\ MessageOK' /\ RowOK' /\ FreshOK' /\ DecoderOK' /\ SavedOK'
    BY <1>0, <1>2, <2>1, <2>2, <2>3
       DEF ListOK, DownOK, MessageOK, RowOK, FreshOK, DecoderOK, SavedOK, Under, env
  <2>5. HandedOK'
    BY <1>1, <1>2, <2>1 DEF HandedOK, Closing
  <2>6. ZipOK'
    <3>1. CASE zq = <<>>
      <4>1. zq' = <<cur>> /\ zpc = "idle" /\ <<cur>> # <<cur, cur>>
        BY <1>2, <3>1 DEF Parts, ZipOK
      <4>2. db = "open" \/ (handed = 1 /\ disk[cur] = <<>>)
        BY <1>0, <1>1, <3>1 DEF Parts, ZipOK
      <4> QED BY <1>1, <1>2, <2>1, <4>1, <4>2 DEF ZipOK
    <3>2. CASE zq # <<>>
      <4>1. zq = <<cur>> /\ handed = 1
        BY <1>1, <3>2 DEF Parts, ZipOK
      <4>0. Append(<<cur>>, cur) = <<cur, cur>>
        BY SecondOne
      <4>2. zq' = <<cur, cur>> /\ handed' = 2
        BY <1>2, <4>0, <4>1
      <4>3. (zpc = "rename" => db = "open") /\ (zpc = "idle" => db = "open")
        BY <3>2, <4>1 DEF Parts, ZipOK
      <4> QED BY <1>1, <1>2, <2>1, <4>2, <4>3 DEF ZipOK
    <3> QED BY <3>1, <3>2
  <2> QED BY <1>3, <2>4, <2>5, <2>6 DEF Parts
<1> QED BY <1>4, <1>5

\* The unzip thread works for a complete row that has been handed over.
LEMMA PartsUnZip ==
  ASSUME TInv, Parts, UnZip
  PROVE  Parts'
<1>0. /\ TypeOK /\ RowsOK /\ LogsOK /\ rows \in Seq(Row) /\ DOMAIN rows \subseteq Name
      /\ disk \in [Name -> Seq(Item)]
  BY Surroundings DEF TInv, Parts
<1>1. zq # <<>>
  BY DEF Parts, ZipOK, UnZip, UnZipFile, Changename, DeleteZip
<1>2. /\ zq \in {<<cur>>, <<cur, cur>>} /\ Head(zq) = cur /\ cur \in DOMAIN rows /\ cur \in Name
      /\ rows[cur].complete /\ handed >= 1 /\ (zq = <<cur, cur>> => handed = 2) /\ handed # 0
  BY <1>0, <1>1 DEF Parts, ZipOK
<1>3. /\ rpc \in {"put", "quit"} \cup Closing /\ ~resuming /\ proc # "down" /\ ~Ready
      /\ (rpc # "quit" => handed = 1 /\ list = {})
  <2>1. rpc \in {"put", "quit"} \cup Closing /\ ~resuming
    BY <1>2 DEF Parts, HandedOK
  <2>2. rpc # "quit" => handed = 1
    BY <1>2, <2>1 DEF Parts, HandedOK
  <2>3. rpc # "quit" => list = {}
    BY <2>1 DEF Parts, ListOK, Active, Under, Closing
  <2> QED BY <2>1, <2>2, <2>3 DEF Parts, DownOK, Ready, Closing
<1>4. CASE UnZipFile
  <2>1. /\ zpc' \in {"rename", "delete"} /\ UNCHANGED <<rows, disk, zq, thread, env, db, seen>>
        /\ zpc = "idle" /\ (zpc' = "rename" => disk[cur] \in {<<Zip(TRUE)>>, <<Zip(FALSE)>>})
    BY <1>2, <1>4 DEF UnZipFile
  <2>9. \A w \in BOOLEAN : <<Zip(w)>> # <<>>
    BY ZipLog, EmptyLog, Zenon
  <2>10. zpc' = "rename" => disk[cur] # <<>>
    BY <2>1, <2>9
  <2>2. RowsOK' /\ LogsOK'
    BY <1>0, <2>1, SameFiles
  <2>3. ListOK' /\ DownOK' /\ MessageOK' /\ RowOK'
    BY <2>1 DEF Parts, ListOK, DownOK, MessageOK, RowOK, Active, Under, Ready, thread, env, seen
  <2>4. FreshOK' /\ HandedOK'
    BY <2>1 DEF Parts, FreshOK, HandedOK, Closing, thread, env, seen
  <2>5. DecoderOK' /\ SavedOK'
    BY <2>1 DEF Parts, DecoderOK, SavedOK, Counting, Ready, thread, seen
  <2>6. ZipOK'
    BY <1>1, <2>1, <2>10 DEF Parts, ZipOK, thread, seen
  <2> QED BY <2>2, <2>3, <2>4, <2>5, <2>6 DEF Parts
<1>5. CASE Changename
  <2>1. db = "open" /\ zpc = "rename"
    BY <1>5 DEF Parts, ZipOK, Changename
  <2>2. /\ rows' = [rows EXCEPT ![cur].name = Unzipped] /\ disk' = disk
        /\ \/ zpc' = "delete" /\ db' = "closed" /\ UNCHANGED <<zq, thread, env, seen>>
           \/ Die
    BY <1>5, <2>1 DEF Changename
  <2>3. /\ DOMAIN rows' = DOMAIN rows /\ \A j \in DOMAIN rows : j # cur => rows'[j] = rows[j]
        /\ rows'[cur].name = Unzipped /\ rows'[cur].oti = rows[cur].oti
        /\ rows'[cur].complete = rows[cur].complete
    <3>1. rows \in Seq(Row) /\ rows' = [rows EXCEPT ![cur].name = Unzipped]
      BY <1>0, <2>2
    <3> QED BY <1>2, <3>1, SetName
  <2>4. RowsOK'
    BY <1>0, <1>2, <2>2, <2>3 DEF RowsOK
  <2>5. LogsOK'
    BY <1>0, <2>2 DEF LogsOK
  <2>6. CASE Die
    BY <2>4, <2>5, <2>6, DieParts
  <2>7. CASE zpc' = "delete" /\ db' = "closed" /\ UNCHANGED <<zq, thread, env, seen>>
    <3>1. ListOK'
      BY <1>2, <1>3, <2>3, <2>7 DEF Parts, ListOK, Active, Under, Ready, thread
    <3>2. RowOK'
      BY <1>2, <1>3, <2>3, <2>7 DEF Parts, RowOK, Active, Under, Ready, Closing, thread, seen
    <3>3. DownOK' /\ MessageOK'
      BY <2>7 DEF Parts, DownOK, MessageOK, thread, env, seen
    <3>4. FreshOK' /\ HandedOK'
      BY <2>2, <2>7 DEF Parts, FreshOK, HandedOK, Closing, thread, env, seen
    <3>5. DecoderOK' /\ SavedOK'
      BY <2>2, <2>7 DEF Parts, DecoderOK, SavedOK, Counting, Ready, thread, seen
    <3>6. ZipOK'
      BY <1>1, <2>2, <2>3, <2>7 DEF Parts, ZipOK, thread, seen
    <3> QED BY <2>4, <2>5, <3>1, <3>2, <3>3, <3>4, <3>5, <3>6 DEF Parts
  <2> QED BY <2>2, <2>6, <2>7
<1>6. CASE DeleteZip
  <2>1. /\ disk' = [disk EXCEPT ![cur] = <<>>] /\ zq' = Tail(zq) /\ zpc' = "idle"
        /\ UNCHANGED <<rows, out, thread, env, db, faults, seen>>
    BY <1>2, <1>6 DEF DeleteZip
  <2>2. RowsOK' /\ LogsOK'
    BY <1>0, <1>2, <2>1, EmptyLog, Emptied, LogWritten, FileWritten
  <2>3. disk'[cur] = <<>>
    BY <1>0, <1>2, <2>1, EmptyLog, WriteFile
  <2>4. ListOK' /\ DownOK' /\ MessageOK' /\ RowOK'
    BY <2>1 DEF Parts, ListOK, DownOK, MessageOK, RowOK, Active, Under, Ready, thread, env, seen
  <2>5. FreshOK' /\ HandedOK'
    BY <2>1, <2>3, Emptied DEF Parts, FreshOK, HandedOK, Closing, thread, env, seen
  <2>6. DecoderOK'
    BY <2>1 DEF Parts, DecoderOK, Counting, Ready, thread
  <2>7. SavedOK'
    BY <1>2, <1>3, <2>1 DEF SavedOK, Counting, Closing, Ready, thread, seen
  <2>8. ZipOK'
    <3>0. Tail(<<cur>>) = <<>> /\ Tail(<<cur, cur>>) = <<cur>>
      OBVIOUS
    <3>1. zq' = <<>> \/ (zq' = <<cur>> /\ handed = 2)
      <4>1. CASE zq = <<cur>>
        BY <2>1, <3>0, <4>1
      <4>2. CASE zq = <<cur, cur>>
        BY <1>2, <2>1, <3>0, <4>2
      <4> QED BY <1>2, <4>1, <4>2
    <3> QED BY <1>2, <2>1, <2>3, <3>1 DEF ZipOK, thread, seen
  <2> QED BY <2>2, <2>4, <2>5, <2>6, <2>7, <2>8 DEF Parts
<1> QED BY <1>4, <1>5, <1>6 DEF UnZip

\* The invariant holds when the phone is new.
LEMMA RInvInit == Init => RInv
BY TypesInit, PartsInit DEF RInv

\* Every step keeps the invariant.
LEMMA RInvNext == RInv /\ [Next]_vars => RInv'
<1> SUFFICES ASSUME RInv, [Next]_vars PROVE RInv'
  OBVIOUS
<1>1. TInv /\ Parts /\ TInv'
  BY TypesNext DEF RInv
<1>2. CASE UNCHANGED vars
  <2>1. RowsOK' /\ LogsOK'
    BY <1>1, <1>2, SameFiles DEF Parts, vars, disks
  <2>2. ListOK' /\ DownOK' /\ MessageOK' /\ RowOK'
    BY <1>1, <1>2 DEF Parts, ListOK, DownOK, MessageOK, RowOK, Active, Under, Ready, vars, disks, thread,
                      env, seen
  <2>3. FreshOK' /\ HandedOK' /\ ZipOK'
    BY <1>1, <1>2 DEF Parts, FreshOK, HandedOK, ZipOK, Closing, vars, disks, thread, zip, env, seen
  <2>4. DecoderOK' /\ SavedOK'
    BY <1>1, <1>2 DEF Parts, DecoderOK, SavedOK, Counting, Ready, vars, disks, thread, seen
  <2> QED BY <1>1, <2>1, <2>2, <2>3, <2>4 DEF RInv, Parts
<1>3. CASE User \/ Kill \/ KillInWrite \/ (\E e \in ESI : Receive(e)) \/ ReceiveStray
  BY <1>1, <1>3, PartsUser, PartsKill, PartsReceive DEF RInv
<1>4. CASE RaptorQ
  BY <1>1, <1>4, PartsCompare, PartsRestart, PartsReplay, PartsEndReplay, PartsInsert, PartsUpdate,
     PartsFirst, PartsDecode, PartsWrite, PartsCount, PartsSave, PartsComplete, PartsHandOver
     DEF RaptorQ, RInv
<1>5. CASE UnZip
  BY <1>1, <1>5, PartsUnZip DEF RInv
<1> QED BY <1>2, <1>3, <1>4, <1>5 DEF Next

-----------------------------------------------------------------------------
(* What it is for.                                                         *)

\* Between two packets the decoder, its data, the check array and the progress number speak
\* of the same packets, and the decoder is still collecting, whatever log it resumed from.
THEOREM ProgressHolds == Spec => []ProgressIsReal
<1>1. RInv => ProgressIsReal
  <2> SUFFICES ASSUME RInv, Ready PROVE ProgressIsReal
    BY DEF ProgressIsReal
  <2>1. rpc = "idle" /\ ~resuming
    BY DEF RInv, Parts, HandedOK, Closing, Ready
  <2>2. /\ dec = Made(check) /\ {p.esi : p \in held} = check /\ num = Cardinality(check)
        /\ Collects(check)
    BY <2>1 DEF RInv, Parts, DecoderOK, Counting
  <2>3. check \in SUBSET ESI /\ ~(Source \subseteq check)
    BY <2>2 DEF Collects
  <2>4. dec.state = INCOMPLETE /\ Held(dec) = check
    BY <2>2, <2>3, MadeFacts
  <2> QED BY <2>2, <2>4 DEF ProgressIsReal
<1> QED BY RInvInit, RInvNext, <1>1, PTL DEF Spec

\* What has been counted can be resumed from: between two packets the log holds the packets of
\* the check array, each once, but for those whose record could not be written.
THEOREM CountedHolds == Spec => []CountedIsSaved
<1>1. RInv => CountedIsSaved
  <2> SUFFICES ASSUME RInv, Ready, OnlyRecords(disk[cur])
               PROVE  Logged(disk[cur]) = check \ lost /\ Len(disk[cur]) = num - Cardinality(lost)
    BY DEF CountedIsSaved
  <2>0. handed = 0 /\ cur \in Name
    BY Surroundings DEF RInv, TInv, Parts, RowOK, HandedOK, Closing, Active, Ready
  <2>1. Logged(disk[cur]) = check \ lost /\ num = Cardinality(check) /\ lost \subseteq check
    BY <2>0 DEF RInv, Parts, SavedOK, DecoderOK, Counting
  <2>2. Len(disk[cur]) = Cardinality(Logged(disk[cur]))
    BY <2>0 DEF RInv, Parts, LogsOK
  <2>3. IsFiniteSet(check) /\ IsFiniteSet(lost)
    BY <2>1, EsisFinite DEF RInv, TInv, TypeOK
  <2>4. Cardinality(check \ lost) = Cardinality(check) - Cardinality(check \cap lost)
    BY <2>3, FS_Difference
  <2>5. check \cap lost = lost
    BY <2>1
  <2> QED BY <2>1, <2>2, <2>4, <2>5
<1> QED BY RInvInit, RInvNext, <1>1, PTL DEF Spec

\* A visit hands its reception over once, and twice at most when the block has one symbol.
THEOREM HandedOverOnceHolds == Spec => []HandedOverOnce
<1>1. RInv => HandedOverOnce
  <2> SUFFICES ASSUME RInv PROVE HandedOverOnce
    OBVIOUS
  <2>1. handed \in {0, 1} \/ (handed = 2 /\ K = 1)
    BY DEF RInv, Parts, HandedOK
  <2> QED BY <2>1 DEF HandedOverOnce
<1> QED BY RInvInit, RInvNext, <1>1, PTL DEF Spec

\* No exception of the two threads ends the process while the page is in the foreground, but
\* for a stray code, a log that could not be opened again, and the second decoding of a block
\* of one symbol: the database is open whenever a row is marked or renamed.
THEOREM NoExceptionHolds == Spec => NoUncaughtException
<1> DEFINE Excused == \/ crashes' = crashes + 1
                      \/ ~handler
                      \/ rpc = "put" /\ stray
                      \/ rpc = "write" /\ ~oos
                      \/ K = 1 /\ handed = 1
<1>1. RInv /\ [Next]_vars => [proc # "down" /\ proc' = "down" => Excused]_vars
  <2> SUFFICES ASSUME RInv, Next, proc # "down", proc' = "down", handler PROVE Excused
    OBVIOUS
  <2>1. CASE User
    BY <2>1 DEF User, Launch, OpenReceive, Pause, Leave
  <2>2. CASE Kill \/ KillInWrite
    BY <2>2 DEF Kill, KillInWrite
  <2>3. CASE (\E e \in ESI : Receive(e)) \/ ReceiveStray
    BY <2>3 DEF Receive, ReceiveStray, Take
  <2>4. CASE RaptorQ
    <3>1. CASE Complete
      BY <3>1, PartsComplete DEF RInv
    <3>2. CASE DecodeForeign
      <4>1. rpc = "put" /\ (pkt.file = Junk \/ Oti[pkt.file] # rows[cur].oti)
        BY <3>2 DEF DecodeForeign, Foreign
      <4>2. stray
        BY <4>1 DEF RInv, Parts, MessageOK, RowOK, Under
      <4> QED BY <4>1, <4>2
    <3>3. CASE DecodeRaptor
      BY <3>3 DEF DecodeRaptor, env
    <3>4. CASE WritePacket
      BY <3>4 DEF WritePacket, env
    <3>5. CASE UpdateReceivedSymbolNum
      BY <3>5 DEF UpdateReceivedSymbolNum, env
    <3>6. CASE CompareWithList \/ RestartDecode \/ Replay \/ EndReplay \/ InsertNewFile
      BY <3>6 DEF CompareWithList, RestartDecode, Replay, EndReplay, InsertNewFile, env
    <3>7. CASE UpdateFECParameters \/ DecodeFirst \/ DeleteLog \/ SaveZip \/ SendToUnzip
      BY <3>7 DEF UpdateFECParameters, DecodeFirst, DeleteLog, SaveZip, SendToUnzip, env
    <3> QED BY <2>4, <3>1, <3>2, <3>3, <3>4, <3>5, <3>6, <3>7 DEF RaptorQ
  <2>5. CASE UnZip
    <3>1. CASE Changename
      <4>1. zpc = "rename" /\ zq # <<>> /\ db = "open"
        BY <3>1 DEF Changename, RInv, Parts, ZipOK
      <4> QED BY <3>1, <4>1 DEF Changename, env
    <3> QED BY <2>5, <3>1 DEF UnZip, UnZipFile, DeleteZip, env
  <2> QED BY <2>1, <2>2, <2>3, <2>4, <2>5 DEF Next
<1> QED BY RInvInit, RInvNext, <1>1, PTL DEF Spec, NoUncaughtException

\* What a step does to the table: nothing, a new row, or a change of one row that leaves a
\* complete row complete and its count as it is.
RowsKept == \A i \in DOMAIN rows : /\ i \in DOMAIN rows'
                                   /\ rows[i].complete => rows'[i].complete /\ rows'[i].received = rows[i].received

\* Every step keeps the completed rows.
LEMMA RowsKeptNext ==
  ASSUME RInv, Next
  PROVE  RowsKept
<1>0. TypeOK /\ rows \in Seq(Row)
  BY Surroundings DEF RInv, TInv
<1>1. CASE rows' = rows
  BY <1>1 DEF RowsKept
<1>2. CASE InsertNewFile
  <2>1. \A j \in DOMAIN rows : j \in DOMAIN rows' /\ rows'[j] = rows[j]
    BY <1>0, <1>2, AppendRow DEF InsertNewFile
  <2> QED BY <2>1 DEF RowsKept
<1>3. CASE UpdateFECParameters
  <2>1. cur \in DOMAIN rows /\ ~rows[cur].complete /\ pkt \in Message
    BY <1>3 DEF UpdateFECParameters, RInv, TInv, Placed, Parts, RowOK
  <2>2. DOMAIN rows' = DOMAIN rows /\ \A j \in DOMAIN rows : j # cur => rows'[j] = rows[j]
    BY <1>0, <1>3 DEF UpdateFECParameters
  <2> QED BY <2>1, <2>2 DEF RowsKept
<1>4. CASE UpdateReceivedSymbolNum
  <2>1. cur \in DOMAIN rows /\ ~rows[cur].complete
    BY <1>4 DEF UpdateReceivedSymbolNum, RInv, Parts, RowOK, HandedOK, Closing, Active, Under
  <2>2. DOMAIN rows' = DOMAIN rows /\ \A j \in DOMAIN rows : j # cur => rows'[j] = rows[j]
    BY <1>0, <1>4 DEF UpdateReceivedSymbolNum
  <2> QED BY <2>1, <2>2 DEF RowsKept
<1>5. CASE Complete /\ rows' = [rows EXCEPT ![cur].complete = TRUE]
  <2>1. cur \in DOMAIN rows
    BY <1>5 DEF Complete, RInv, Parts, RowOK, Active, Under
  <2>2. /\ DOMAIN rows' = DOMAIN rows /\ rows'[cur].complete /\ rows'[cur].received = rows[cur].received
        /\ \A j \in DOMAIN rows : j # cur => rows'[j] = rows[j]
    BY <1>0, <1>5, <2>1, SetComplete
  <2> QED BY <2>1, <2>2 DEF RowsKept
<1>6. CASE Changename /\ rows' = [rows EXCEPT ![cur].name = Unzipped]
  <2>1. cur \in DOMAIN rows
    BY <1>6 DEF Changename, RInv, Parts, ZipOK
  <2>2. /\ DOMAIN rows' = DOMAIN rows
        /\ rows'[cur].complete = rows[cur].complete /\ rows'[cur].received = rows[cur].received
        /\ \A j \in DOMAIN rows : j # cur => rows'[j] = rows[j]
    BY <1>0, <1>6, <2>1, SetName
  <2> QED BY <2>1, <2>2 DEF RowsKept
<1>7. CASE User \/ Kill \/ KillInWrite \/ (\E e \in ESI : Receive(e)) \/ ReceiveStray
  <2>1. rows' = rows
    BY <1>7 DEF User, Launch, OpenReceive, Pause, Leave, Kill, KillInWrite, Receive, ReceiveStray, Take, disks
  <2> QED BY <1>1, <2>1
<1>8. CASE RaptorQ
  <2>1. CASE CompareWithList \/ RestartDecode \/ Replay \/ EndReplay \/ DecodeFirst
    BY <1>1, <2>1 DEF CompareWithList, RestartDecode, Replay, EndReplay, DecodeFirst, disks
  <2>2. CASE DecodeForeign \/ DecodeRaptor \/ WritePacket
    BY <1>1, <2>2 DEF DecodeForeign, DecodeRaptor, WritePacket, disks
  <2>3. CASE DeleteLog \/ SaveZip \/ SendToUnzip
    BY <1>1, <2>3 DEF DeleteLog, SaveZip, SendToUnzip, disks
  <2>4. CASE Complete
    BY <1>1, <1>5, <2>4 DEF Complete
  <2> QED BY <1>2, <1>3, <1>4, <1>8, <2>1, <2>2, <2>3, <2>4 DEF RaptorQ
<1>9. CASE UnZip
  <2>1. CASE Changename
    BY <1>1, <1>6, <2>1 DEF Changename
  <2> QED BY <1>1, <1>9, <2>1 DEF UnZip, UnZipFile, DeleteZip
<1> QED BY <1>7, <1>8, <1>9 DEF Next

\* A completed row stays complete and keeps its count; its file never becomes a log again, not
\* even when the block of one symbol is decoded for a second time.
THEOREM CompletedIsFinalHolds == Spec => CompletedIsFinal
<1> DEFINE Final ==
      \A i \in DOMAIN rows : rows[i].complete =>
        /\ rows'[i].complete /\ rows'[i].received = rows[i].received
        /\ rows[i].name \in Name => \A j \in DOMAIN disk'[rows[i].name] :
                                      disk'[rows[i].name][j].kind = "zip"
<1>1. RInv /\ [Next]_vars => [Final]_vars
  <2> SUFFICES ASSUME RInv, Next, NEW i \in DOMAIN rows, rows[i].complete
               PROVE  /\ rows'[i].complete /\ rows'[i].received = rows[i].received
                      /\ rows[i].name \in Name => \A j \in DOMAIN disk'[rows[i].name] :
                                                    disk'[rows[i].name][j].kind = "zip"
    OBVIOUS
  <2>1. i \in DOMAIN rows' /\ rows'[i].complete /\ rows'[i].received = rows[i].received
    BY RowsKeptNext DEF RowsKept
  <2>2. ZipFile(disk'[i])
    BY <2>1, RInvNext DEF RInv, Parts, RowsOK
  <2>3. ASSUME rows[i].name \in Name PROVE rows[i].name = i
    BY <2>3 DEF RInv, Parts, RowsOK, Name, Unzipped
  <2>4. \A w \in BOOLEAN : \A j \in DOMAIN <<Zip(w)>> : <<Zip(w)>>[j].kind = "zip"
    BY DEF Zip
  <2>5. \A j \in DOMAIN disk'[i] : disk'[i][j].kind = "zip"
    <3>1. CASE disk'[i] = <<>>
      BY <3>1
    <3>2. CASE \E w \in BOOLEAN : disk'[i] = <<Zip(w)>>
      BY <2>4, <3>2
    <3> QED BY <2>2, <3>1, <3>2 DEF ZipFile
  <2> QED BY <2>1, <2>3, <2>5
<1> QED BY RInvInit, RInvNext, <1>1, PTL DEF Spec, CompletedIsFinal

-----------------------------------------------------------------------------
(* What is in the files.  From here on no two files agree in their         *)
(* parameters.                                                             *)

\* A file that is emptied, or left as it is with the parameters of its row, stays clean.
LEMMA CleanKept ==
  ASSUME FilesClean, spoilt \subseteq spoilt',
         \A n \in Name : disk'[n] = <<>> \/ (disk'[n] = disk[n] /\ rows'[n].oti = rows[n].oti)
  PROVE  FilesClean'
<1>1. ASSUME NEW n \in Name, n \notin spoilt' PROVE Clean(disk'[n], rows'[n].oti)
  <2>1. CASE disk'[n] = <<>>
    BY <2>1 DEF Clean
  <2>2. CASE disk'[n] = disk[n] /\ rows'[n].oti = rows[n].oti
    BY <1>1, <2>2 DEF FilesClean
  <2> QED BY <2>1, <2>2
<1> QED BY <1>1 DEF FilesClean

\* Writing a clean file, or any to a spoilt reception, keeps all files clean.
LEMMA CleanWritten ==
  ASSUME TypeOK, FilesClean, rows' = rows, spoilt \subseteq spoilt', NEW n \in Name, NEW c \in Seq(Item),
         disk' = [disk EXCEPT ![n] = c], n \in spoilt' \/ Clean(c, rows[n].oti)
  PROVE  FilesClean'
<1>1. disk'[n] = c /\ \A m \in Name : m # n => disk'[m] = disk[m]
  BY WriteFile DEF TypeOK
<1> QED BY <1>1 DEF FilesClean

\* A record of the right file, whole or torn, keeps its log clean.
LEMMA CleanRecord ==
  ASSUME NEW c \in Seq(Item), NEW oti, Clean(c, oti),
         NEW p \in Packet, p.intact, Oti[p.file] = oti
  PROVE  \A d \in Broken(c, p) \cup {Append(c, Record(p))} : d \in Seq(Item) /\ Clean(d, oti)
<1>1. ASSUME NEW x \in {Record(p), Torn(p)} PROVE Append(c, x) \in Seq(Item) /\ Clean(Append(c, x), oti)
  <2>1. x \in Item /\ x.packet = p
    BY Items
  <2>2. /\ Append(c, x) \in Seq(Item) /\ DOMAIN Append(c, x) = 1 .. Len(c) + 1
        /\ Append(c, x)[Len(c) + 1] = x /\ \A i \in 1 .. Len(c) : Append(c, x)[i] = c[i]
    BY <2>1
  <2>3. DOMAIN c = 1 .. Len(c) /\ Len(c) \in Nat
    OBVIOUS
  <2> QED BY <2>1, <2>2, <2>3 DEF Clean
<1> QED BY <1>1 DEF Broken

\* Nothing that could be of the wrong file is in an empty file or in a zip.
LEMMA CleanZip ==
  ASSUME NEW oti
  PROVE  Clean(<<>>, oti) /\ \A w \in BOOLEAN : Clean(<<Zip(w)>>, oti)
<1>1. \A w \in BOOLEAN : Clean(<<Zip(w)>>, oti)
  BY Items DEF Clean
<1> QED BY <1>1 DEF Clean

\* What is read from a clean log is of the same file, and whole unless it was pieced together.
LEMMA CleanRead ==
  ASSUME NEW c \in Seq(Item), NEW oti, Clean(c, oti), NEW r \in ReadObject(c)
  PROVE  \A i \in DOMAIN r : Oti[r[i].file] = oti
<1> DEFINE n     == WholePrefix(c)
           whole == [i \in 1 .. n |-> c[i].packet]
           torn  == n + 1 < Len(c) /\ c[n + 1].kind = "torn"
<1>1. r = whole \/ (torn /\ r = Append(whole, Pieced(c)))
  BY DEF ReadObject
<1>2. /\ n \in Nat /\ Len(c) \in Nat /\ DOMAIN c = 1 .. Len(c)
      /\ \A i \in 1 .. n : i \in DOMAIN c /\ c[i] \in Item /\ c[i].kind = "packet"
  BY WholePrefixFacts
<1>3. Pieced(c) = [c[n + 1].packet EXCEPT !.intact = FALSE]
  BY DEF Pieced
<1> HIDE DEF n
<1>4. /\ whole \in Seq(Packet) /\ Len(whole) = n /\ DOMAIN whole = 1 .. n
      /\ \A i \in 1 .. n : whole[i] = c[i].packet
  <2>1. \A i \in 1 .. n : c[i].packet \in Packet
    BY <1>2, ItemKinds
  <2> QED BY <1>2, <2>1
<1> HIDE DEF whole
<1>5. \A i \in 1 .. n : Oti[whole[i].file] = oti
  BY <1>2, <1>4 DEF Clean
<1>6. CASE r = whole
  BY <1>4, <1>5, <1>6
<1>7. CASE torn /\ r = Append(whole, Pieced(c))
  <2>1. n + 1 \in DOMAIN c /\ c[n + 1] \in Item /\ c[n + 1].kind = "torn"
    BY <1>2, <1>7
  <2>2. c[n + 1].packet \in Packet /\ Oti[c[n + 1].packet.file] = oti
    BY <2>1, ItemKinds DEF Clean
  <2>3. Pieced(c) \in Packet /\ Pieced(c).file = c[n + 1].packet.file
    BY <1>3, <2>2 DEF Packet
  <2>4. /\ DOMAIN r = 1 .. n + 1 /\ r[n + 1] = Pieced(c)
        /\ \A i \in 1 .. n : r[i] = whole[i]
    BY <1>2, <1>4, <1>7, <2>3
  <2> QED BY <1>2, <1>5, <2>2, <2>3, <2>4
<1> QED BY <1>1, <1>6, <1>7

\* A decoder that holds whole packets of one file only decodes that file.
LEMMA DecodesTheFile ==
  ASSUME DistinctOti, TypeOK, NEW oti, \A p \in held : p.intact /\ Oti[p.file] = oti
  PROVE  DecodedWell = TRUE
<1>1. PICK f \in Files : \A p \in held : p.file = f
  <2>1. CASE held = {}
    BY <2>1, ReceiverAssumption
  <2>2. CASE held # {}
    <3>1. PICK q \in held : TRUE
      BY <2>2
    <3>2. q.file \in Files /\ \A p \in held : p.file \in Files /\ Oti[p.file] = Oti[q.file]
      BY <3>1 DEF TypeOK, Packet
    <3> QED BY <3>2 DEF DistinctOti
  <2> QED BY <2>1, <2>2
<1> DEFINE fromSources == {p \in held : p.esi \in Source}
           used == IF {p.esi : p \in fromSources} = Source THEN fromSources ELSE held
<1>2. used \subseteq held
  OBVIOUS
<1> HIDE DEF used
<1>3. \E g \in Files : \A p \in used : p.file = g /\ p.intact
  BY <1>1, <1>2
<1> QED BY <1>3 DEF DecodedWell, used

\* When no reception is under way and nothing is with the unzip thread, only the files count.
LEMMA QuietData ==
  ASSUME FilesClean', ~Active', rpc' \notin {"replay", "write", "complete", "unzip"}, zq' = <<>>
  PROVE  DataOK'
BY DEF DataOK, HeldClean, ReplayClean, WriteClean, ZipWhole

\* A process that ends leaves only its files.
LEMMA DieClean ==
  ASSUME Die, FilesClean'
  PROVE  DataOK'
<1>1. rpc' = "idle" /\ ~hasinit' /\ zq' = <<>>
  BY DEF Die, NoThreads
<1> QED BY <1>1, QuietData DEF Active, Under, Ready

\* The data are clean when the phone is new,
LEMMA DataInit == Init => DataOK
<1> SUFFICES ASSUME Init PROVE DataOK
  OBVIOUS
<1>1. \A n \in Name : disk[n] = <<>>
  BY DEF Init
<1>2. FilesClean
  BY <1>1, CleanZip DEF FilesClean
<1> QED BY <1>2 DEF Init, DataOK, HeldClean, ReplayClean, WriteClean, ZipWhole, Active, Under, Ready

\* they stay so whatever the activities and kills do: a torn record is of the right file,
LEMMA DataEnvironment ==
  ASSUME RInv, DataOK, User \/ Kill \/ KillInWrite \/ (\E e \in ESI : Receive(e)) \/ ReceiveStray
  PROVE  DataOK'
<1>0. /\ TypeOK /\ rows \in Seq(Row) /\ DOMAIN rows \subseteq Name /\ disk \in [Name -> Seq(Item)]
      /\ FilesClean
  BY Surroundings DEF RInv, TInv, DataOK
<1>1. CASE Launch
  <2>1. PICK last \in Name :
          disk' = [n \in Name |->
                     IF n # last /\ \E i \in DOMAIN rows : rows[i].oti = NULL /\ rows[i].name = n
                       THEN <<>> ELSE disk[n]]
    BY <1>1 DEF Launch
  <2>2. UNCHANGED <<rows, thread, zip, seen>>
    BY <1>1 DEF Launch
  <2>3. rpc = "idle" /\ ~hasinit
    BY <1>1 DEF Launch, RInv, Parts, DownOK
  <2>4. zq = <<>>
    BY <2>3, Beginning DEF RInv
  <2>5. FilesClean'
    BY <1>0, <2>1, <2>2, CleanKept DEF seen
  <2> QED BY <2>2, <2>3, <2>4, <2>5, QuietData DEF Active, Under, Ready, thread, zip
<1>2. CASE OpenReceive
  <2>1. NoThreads /\ rows' = rows /\ disk' = disk
    BY <1>2 DEF OpenReceive, disks
  <2>2. rpc' = "idle" /\ ~hasinit' /\ zq' = <<>> /\ spoilt' = spoilt
    BY <2>1 DEF NoThreads
  <2>3. FilesClean'
    BY <1>0, <2>1, <2>2, CleanKept
  <2> QED BY <2>2, <2>3, QuietData DEF Active, Under, Ready
<1>3. CASE Pause \/ Leave
  <2>1. UNCHANGED <<disks, thread, zip, seen>>
    BY <1>3 DEF Pause, Leave
  <2>2. FilesClean' /\ ReplayClean' /\ WriteClean'
    BY <1>0, <2>1 DEF DataOK, FilesClean, ReplayClean, WriteClean, disks, thread, seen
  <2>3. HeldClean' /\ ZipWhole'
    BY <2>1 DEF DataOK, HeldClean, ZipWhole, Active, Under, Ready, disks, thread, zip, seen
  <2> QED BY <2>2, <2>3 DEF DataOK
<1>4. CASE Kill
  <2>1. Die /\ rows' = rows /\ disk' = disk /\ spoilt' = spoilt
    BY <1>4 DEF Kill, disks, Die, NoThreads
  <2> QED BY <1>0, <2>1, CleanKept, DieClean
<1>5. CASE KillInWrite
  <2>1. Die /\ rows' = rows /\ spoilt' = spoilt
    BY <1>5 DEF KillInWrite, Die, NoThreads
  <2>2. CASE /\ (rpc = "first" /\ pkt.file # Junk) \/ (rpc = "write" /\ oos)
             /\ disk' = [disk EXCEPT ![cur] = Append(@, Torn(pkt))]
    <3>1. cur \in Name /\ pkt \in Message
      BY <1>0, <2>2 DEF RInv, Parts, RowOK, MessageOK, Active, Under
    <3>2. pkt \in Packet /\ pkt.intact
      <4>1. pkt \in Packet
        BY <2>2, <3>1, MessageTypes DEF RInv, TInv, Placed
      <4> QED BY <3>1, <4>1 DEF Message
    <3>3. cur \in spoilt \/ rows[cur].oti = Oti[pkt.file]
      <4>1. CASE rpc = "first"
        BY <2>2, <4>1 DEF RInv, Parts, RowOK, MessageOK, Under
      <4>2. CASE rpc = "write"
        BY <2>2, <4>2 DEF RInv, Parts, RowOK, DataOK, WriteClean, Under
      <4> QED BY <2>2, <4>1, <4>2
    <3> DEFINE c == Append(disk[cur], Torn(pkt))
    <3>4. c \in Seq(Item) /\ (cur \in spoilt \/ Clean(c, rows[cur].oti))
      <4>1. disk[cur] \in Seq(Item)
        BY <1>0, <3>1
      <4>2. c \in Seq(Item)
        BY <3>2, <4>1, WrittenTypes DEF Broken
      <4>3. CASE cur \notin spoilt
        <5>1. Clean(disk[cur], rows[cur].oti) /\ rows[cur].oti = Oti[pkt.file]
          BY <1>0, <3>1, <3>3, <4>3 DEF FilesClean
        <5> QED BY <3>2, <4>1, <4>2, <5>1, CleanRecord DEF Broken
      <4> QED BY <4>2, <4>3
    <3> HIDE DEF c
    <3>5. disk' = [disk EXCEPT ![cur] = c]
      BY <2>2 DEF c
    <3> QED BY <1>0, <2>1, <3>1, <3>4, <3>5, CleanWritten, DieClean
  <2>3. CASE rpc = "save" /\ disk' = [disk EXCEPT ![cur] = <<Zip(FALSE)>>]
    <3>1. cur \in Name
      BY <1>0, <2>3 DEF RInv, Parts, RowOK, Active, Under
    <3>2. <<Zip(FALSE)>> \in Seq(Item) /\ Clean(<<Zip(FALSE)>>, rows[cur].oti)
      BY ZipLog, CleanZip
    <3> QED BY <1>0, <2>1, <2>3, <3>1, <3>2, CleanWritten, DieClean
  <2> QED BY <1>5, <2>2, <2>3 DEF KillInWrite
<1>6. CASE (\E e \in ESI : Receive(e)) \/ ReceiveStray
  <2>1. PICK c \in Codes, e \in ESI : Take(c, e)
    BY <1>6, EsisFinite DEF Receive, ReceiveStray, Codes
  <2>2. /\ UNCHANGED <<disks, zip, cur, held, replay, spoilt, handed>> /\ rpc = "idle"
        /\ rpc' = IF hasinit THEN "put" ELSE "compare"
    BY <2>1 DEF Take
  <2>3. FilesClean' /\ ReplayClean' /\ WriteClean'
    BY <1>0, <2>2 DEF FilesClean, ReplayClean, WriteClean, disks
  <2>4. HeldClean'
    BY <2>2 DEF DataOK, HeldClean, Active, Under, Ready, disks
  <2>5. ZipWhole'
    BY <2>2 DEF DataOK, ZipWhole, disks, zip
  <2> QED BY <2>3, <2>4, <2>5 DEF DataOK
<1> QED BY <1>1, <1>2, <1>3, <1>4, <1>5, <1>6 DEF User

\* a log of the right file is replayed, a new one is begun,
LEMMA DataBegin ==
  ASSUME RInv, DataOK, CompareWithList \/ RestartDecode \/ Replay \/ EndReplay \/ InsertNewFile
                       \/ UpdateFECParameters \/ DecodeFirst
  PROVE  DataOK'
<1>0. /\ TypeOK /\ rows \in Seq(Row) /\ DOMAIN rows \subseteq Name /\ disk \in [Name -> Seq(Item)]
      /\ FilesClean /\ RowsOK
  BY Surroundings DEF RInv, TInv, Parts, DataOK
<1>b. handed = 0 /\ zq = <<>>
  <2>1. handed = 0
    BY DEF RInv, Parts, HandedOK, Closing, CompareWithList, RestartDecode, Replay, EndReplay, InsertNewFile,
           UpdateFECParameters, DecodeFirst
  <2> QED BY <2>1, NothingHanded DEF RInv
<1>1. CASE CompareWithList
  <2>1. /\ UNCHANGED <<disks, zip, seen>> /\ rpc' \in {"insert", "idle", "restart"}
        /\ rpc' = "idle" => ~hasinit'
    BY <1>1 DEF CompareWithList, DropFirst, env
  <2>2. FilesClean'
    BY <1>0, <2>1, CleanKept DEF disks, seen
  <2> QED BY <1>b, <2>1, <2>2, QuietData DEF Active, Under, Ready, zip
<1>2. CASE RestartDecode
  <2>1. /\ UNCHANGED <<disks, zip, cur>> /\ held' = {} /\ rpc = "restart"
    BY <1>2 DEF RestartDecode, env
  <2>2. CASE rpc' = "idle" /\ ~hasinit' /\ spoilt' = spoilt
    <3>1. FilesClean'
      BY <1>0, <2>1, <2>2, CleanKept DEF disks
    <3> QED BY <1>b, <2>1, <2>2, <3>1, QuietData DEF Active, Under, Ready, zip
  <2>3. CASE /\ rpc' = "replay" /\ replay' \in ReadObject(disk[cur])
             /\ spoilt' = IF \A i \in DOMAIN replay' : replay'[i].intact THEN spoilt ELSE spoilt \cup {cur}
    <3>1. FilesClean'
      BY <1>0, <2>1, <2>3, CleanKept DEF disks
    <3>2. cur \in Name /\ disk[cur] \in Seq(Item)
      BY <1>0, <2>1 DEF RInv, Parts, RowOK
    <3>3. ASSUME cur \notin spoilt'
          PROVE  \A i \in DOMAIN replay' : replay'[i].intact /\ Oti[replay'[i].file] = rows[cur].oti
      <4>1. cur \notin spoilt /\ \A i \in DOMAIN replay' : replay'[i].intact
        BY <2>3, <3>3
      <4>2. Clean(disk[cur], rows[cur].oti)
        BY <1>0, <3>2, <4>1 DEF FilesClean
      <4> QED BY <2>3, <3>2, <4>1, <4>2, CleanRead
    <3>4. HeldClean' /\ ReplayClean'
      BY <2>1, <3>3 DEF HeldClean, ReplayClean, disks
    <3>5. WriteClean' /\ ZipWhole'
      BY <1>b, <2>1, <2>3 DEF WriteClean, ZipWhole, zip
    <3> QED BY <3>1, <3>4, <3>5 DEF DataOK
  <2>4. \/ rpc' = "idle" /\ ~hasinit' /\ spoilt' = spoilt
        \/ /\ rpc' = "replay" /\ replay' \in ReadObject(disk[cur])
           /\ spoilt' = IF \A i \in DOMAIN replay' : replay'[i].intact THEN spoilt ELSE spoilt \cup {cur}
    BY <1>2 DEF RestartDecode, DropFirst
  <2> QED BY <2>2, <2>3, <2>4
<1>3. CASE Replay
  <2>1. /\ UNCHANGED <<disks, zip, rpc, cur, seen>> /\ rpc = "replay" /\ replay # <<>>
        /\ PutPacket(Head(replay)) /\ replay' = Tail(replay)
    BY <1>3 DEF Replay, env
  <2>2. /\ \E i \in DOMAIN replay : Head(replay) = replay[i]
        /\ \A i \in DOMAIN Tail(replay) : \E j \in DOMAIN replay : Tail(replay)[i] = replay[j]
    BY <1>0, <2>1, FirstPacket DEF TypeOK
  <2>3. cur \notin spoilt => Head(replay).intact /\ Oti[Head(replay).file] = rows[cur].oti
    BY <2>1, <2>2 DEF DataOK, ReplayClean
  <2>4. held' \subseteq held \cup {Head(replay)}
    BY <2>1 DEF PutPacket
  <2>5. HeldClean'
    BY <2>1, <2>3, <2>4 DEF DataOK, HeldClean, Active, Under, disks, seen
  <2>6. ReplayClean'
    BY <2>1, <2>2 DEF DataOK, ReplayClean, disks, seen
  <2>7. FilesClean'
    BY <1>0, <2>1, CleanKept DEF disks, seen
  <2> QED BY <1>b, <2>1, <2>5, <2>6, <2>7 DEF DataOK, WriteClean, ZipWhole, zip
<1>4. CASE EndReplay
  <2>1. UNCHANGED <<disks, zip, held, cur, seen>> /\ rpc = "replay" /\ rpc' \in {"delete", "put"}
    BY <1>4 DEF EndReplay, env
  <2>2. FilesClean'
    BY <1>0, <2>1, CleanKept DEF disks, seen
  <2>3. HeldClean'
    BY <2>1 DEF DataOK, HeldClean, Active, Under, disks, seen
  <2> QED BY <1>b, <2>1, <2>2, <2>3 DEF DataOK, ReplayClean, WriteClean, ZipWhole, zip
<1>5. CASE InsertNewFile
  <2>1. /\ UNCHANGED <<disk, zip, seen>> /\ rpc = "insert" /\ rpc' = "update"
        /\ Len(rows) < MaxRows
        /\ rows' = Append(rows, [name |-> Len(rows) + 1, oti |-> NULL, received |-> 0, complete |-> FALSE])
    BY <1>5 DEF InsertNewFile, env
  <2>2. \A n \in DOMAIN rows : rows'[n] = rows[n]
    BY <1>0, <2>1, AppendRow
  <2>3. \A n \in Name : disk[n] # <<>> => n \in DOMAIN rows
    BY <1>0 DEF RowsOK
  <2>4. FilesClean'
    BY <1>0, <2>1, <2>2, <2>3, CleanKept DEF seen
  <2> QED BY <1>b, <2>1, <2>4, QuietData DEF Active, Under, Ready, zip
<1>6. CASE UpdateFECParameters
  <2>1. /\ UNCHANGED <<disk, zip, spoilt>> /\ rpc = "update"
        /\ rows' = [rows EXCEPT ![cur].oti = Oti[pkt.file]]
        /\ rpc' = "first" \/ (rpc' = "idle" /\ ~hasinit')
    BY <1>6 DEF UpdateFECParameters, DropFirst, env
  <2>2. disk[cur] = <<>> /\ \A n : n # cur => rows'[n].oti = rows[n].oti \/ n \notin DOMAIN rows
    BY <1>0, <2>1 DEF RInv, Parts, FreshOK
  <2>3. \A n \in Name : disk[n] # <<>> => n \in DOMAIN rows
    BY <1>0 DEF RowsOK
  <2>4. FilesClean'
    BY <1>0, <2>1, <2>2, <2>3, CleanKept
  <2> QED BY <1>b, <2>1, <2>4, QuietData DEF Active, Under, Ready, zip
<1>7. CASE DecodeFirst
  <2>1. UNCHANGED <<rows, zip, cur, spoilt>> /\ rpc = "first"
    BY <1>7 DEF DecodeFirst, env
  <2>2. CASE pkt.file = Junk
    <3>1. disk' = disk /\ rpc' = "idle" /\ ~hasinit'
      BY <1>7, <2>2 DEF DecodeFirst, DropFirst
    <3>2. FilesClean'
      BY <1>0, <2>1, <3>1, CleanKept
    <3> QED BY <1>b, <2>1, <3>1, <3>2, QuietData DEF Active, Under, Ready, zip
  <2>3. CASE pkt.file # Junk
    <3>1. pkt \in Packet /\ pkt.intact /\ Oti[pkt.file] = rows[cur].oti
      <4>1. pkt \in Message /\ ~stray
        BY <2>1, <2>3 DEF RInv, Parts, MessageOK, Under
      <4> QED BY <2>1, <2>3, <4>1, MessageTypes DEF Message, RInv, Parts, RowOK
    <3>2. cur \in Name /\ held = {} /\ disk[cur] \in Seq(Item)
      BY <1>0, <2>1 DEF RInv, Parts, RowOK, FreshOK
    <3>3. PICK c \in Broken(disk[cur], pkt) \cup {Append(disk[cur], Record(pkt))} :
            disk' = [disk EXCEPT ![cur] = c]
      BY <1>7, <2>3 DEF DecodeFirst
    <3>4. c \in Seq(Item) /\ (cur \in spoilt \/ Clean(c, rows[cur].oti))
      <4>1. c \in Seq(Item)
        BY <3>1, <3>2, <3>3, WrittenTypes
      <4>2. CASE cur \notin spoilt
        <5>1. Clean(disk[cur], rows[cur].oti)
          BY <1>0, <3>2, <4>2 DEF FilesClean
        <5> QED BY <3>1, <3>2, <3>3, <4>1, <5>1, CleanRecord
      <4> QED BY <4>1, <4>2
    <3>5. FilesClean'
      BY <1>0, <2>1, <3>2, <3>3, <3>4, CleanWritten
    <3>6. held' \subseteq {pkt} /\ (rpc' = "put" \/ (rpc' = "idle" /\ ~hasinit'))
      BY <1>7, <2>3, <3>2 DEF DecodeFirst, PutPacket, DropFirst
    <3>7. HeldClean'
      BY <2>1, <3>1, <3>6 DEF HeldClean
    <3> QED BY <1>b, <2>1, <3>5, <3>6, <3>7 DEF DataOK, ReplayClean, WriteClean, ZipWhole, zip
  <2> QED BY <2>2, <2>3
<1> QED BY <1>1, <1>2, <1>3, <1>4, <1>5, <1>6, <1>7

\* packets of the row's file are put; a stray symbol that is kept spoils the reception,
LEMMA DataPut ==
  ASSUME RInv, DataOK, DecodeForeign \/ DecodeRaptor
  PROVE  DataOK'
<1>0. /\ TypeOK /\ rows \in Seq(Row) /\ DOMAIN rows \subseteq Name /\ disk \in [Name -> Seq(Item)]
      /\ FilesClean /\ rpc = "put" /\ cur \in DOMAIN rows /\ cur \in Name
  BY Surroundings DEF RInv, TInv, Parts, DataOK, RowOK, Active, Under, DecodeForeign, DecodeRaptor
<1>1. CASE Die /\ UNCHANGED <<disks, crashes>>
  <2>1. FilesClean'
    BY <1>0, <1>1, CleanKept DEF disks, Die, NoThreads
  <2> QED BY <1>1, <2>1, DieClean
<1>2. CASE DecodeRaptor /\ ~(Die /\ UNCHANGED <<disks, crashes>>)
  <2>1. /\ UNCHANGED <<rows, zip, cur, stray, handed>> /\ PutPacket(pkt) /\ pkt.file # Junk
        /\ disk' = disk \/ (disk' = [disk EXCEPT ![cur] = <<>>] /\ Put(dec, {pkt.esi}).state = DECODING_FAILURE)
        /\ rpc' \in {"idle", "write", "delete", "quit"}
        /\ rpc' = "write" => pkt.esi \notin check
        /\ rpc' = "quit" => Put(dec, {pkt.esi}).state = DECODING_FAILURE
        /\ spoilt' = IF stray /\ held' # held /\ rpc' # "quit" THEN spoilt \cup {cur} ELSE spoilt
    BY <1>2 DEF DecodeRaptor
  <2>2. FilesClean'
    BY <1>0, <2>1, CleanKept
  <2>3. pkt \in Packet /\ pkt.intact /\ (stray \/ Oti[pkt.file] = rows[cur].oti)
    <3>1. pkt \in Message
      BY <1>0 DEF RInv, Parts, MessageOK
    <3> QED BY <1>0, <2>1, <3>1, MessageTypes DEF Message, RInv, Parts, RowOK, Under
  <2>4. held' = held \/ held' = held \cup {pkt}
    BY <2>1 DEF PutPacket
  <2>5. rpc' = "quit" => zq = <<>>
    <3>1. CASE handed = 0
      BY <3>1, NothingHanded DEF RInv
    <3>2. CASE handed # 0
      <4>1. Decoded(dec)
        BY <1>0, <3>2 DEF RInv, Parts, HandedOK
      <4>2. Put(dec, {pkt.esi}).state # DECODING_FAILURE
        BY <4>1 DEF Put, Decoded, DECODED, DECODING_FAILURE
      <4> QED BY <2>1, <4>2
    <3> QED BY <3>1, <3>2
  <2>6. HeldClean'
    <3> SUFFICES ASSUME Active', cur' \notin spoilt', NEW p \in held'
                 PROVE  p.intact /\ Oti[p.file] = rows'[cur'].oti
      BY DEF HeldClean
    <3>1. cur \notin spoilt /\ Active /\ rpc' # "quit"
      BY <1>0, <2>1 DEF Active, Under, Ready
    <3>2. \A q \in held : q.intact /\ Oti[q.file] = rows[cur].oti
      BY <3>1 DEF DataOK, HeldClean
    <3>3. held' = held \/ Oti[pkt.file] = rows[cur].oti
      BY <2>1, <2>3, <3>1
    <3> QED BY <2>1, <2>3, <2>4, <3>2, <3>3
  <2>7. WriteClean'
    <3> SUFFICES ASSUME rpc' = "write", stray' PROVE cur' \in spoilt'
      BY DEF WriteClean
    <3>1. pkt.esi \notin check /\ handed = 0 /\ Counting
      <4>1. pkt.esi \notin check /\ Counting
        BY <1>0, <2>1 DEF Counting
      <4>2. rpc' = "write" => Put(dec, {pkt.esi}).state = INCOMPLETE
        BY <1>2, <2>1 DEF DecodeRaptor
      <4>3. Decoded(dec) => Put(dec, {pkt.esi}).state = DECODED
        BY DEF Put, Decoded, DECODED
      <4>4. ~Decoded(dec)
        BY <4>2, <4>3 DEF INCOMPLETE, DECODED
      <4>5. handed = 0
        BY <1>0, <4>4 DEF RInv, Parts, HandedOK
      <4> QED BY <4>1, <4>5
    <3>2. dec = Made(check) /\ check \in SUBSET ESI /\ {p.esi : p \in held} = check
      BY <3>1 DEF RInv, Parts, DecoderOK, TInv, TypeOK
    <3>3. pkt.esi \notin Held(dec)
      BY <3>1, <3>2, MadeFacts
    <3>4. ~Decoded(dec)
      <4>1. Put(dec, {pkt.esi}).state = INCOMPLETE
        BY <1>2, <2>1 DEF DecodeRaptor
      <4> QED BY <4>1 DEF Put, Decoded, DECODED, INCOMPLETE
    <3>5. held' = held \cup {pkt} /\ pkt \notin held
      BY <2>1, <3>1, <3>2, <3>3, <3>4 DEF PutPacket
    <3> QED BY <2>1, <3>5
  <2>8. ReplayClean'
    BY <2>1 DEF ReplayClean
  <2>9. ZipWhole'
    <3>1. CASE zq = <<>>
      BY <2>1, <3>1 DEF ZipWhole, zip
    <3>2. CASE zq # <<>>
      <4>1. rpc' # "quit" /\ disk'[cur] \in {disk[cur], <<>>} /\ (cur \notin spoilt' => cur \notin spoilt)
        BY <1>0, <2>1, <2>5, <3>2
      <4> QED BY <2>1, <3>2, <4>1 DEF DataOK, ZipWhole, zip
    <3> QED BY <3>1, <3>2
  <2> QED BY <2>2, <2>6, <2>7, <2>8, <2>9 DEF DataOK
<1> QED BY <1>1, <1>2 DEF DecodeForeign

\* they are saved, and decode to the zip of that file,
LEMMA DataGoOn ==
  ASSUME DistinctOti, RInv, DataOK,
         WritePacket \/ UpdateReceivedSymbolNum \/ DeleteLog \/ SaveZip \/ Complete \/ SendToUnzip
  PROVE  DataOK'
<1>0. /\ TypeOK /\ rows \in Seq(Row) /\ DOMAIN rows \subseteq Name /\ disk \in [Name -> Seq(Item)]
      /\ FilesClean /\ RowsOK
  BY Surroundings DEF RInv, TInv, Parts, DataOK
<1>a. rpc \in Under
  BY DEF WritePacket, UpdateReceivedSymbolNum, DeleteLog, SaveZip, Complete, SendToUnzip, Under
<1>b. /\ cur \in DOMAIN rows /\ cur \in Name /\ disk[cur] \in Seq(Item)
      /\ cur \notin spoilt => \A p \in held : p.intact /\ Oti[p.file] = rows[cur].oti
      /\ handed = 0 => zq = <<>>
  BY <1>0, <1>a, NothingHanded DEF DataOK, HeldClean, Active, Under, RInv, Parts, RowOK
<1>c. \A n \in Name : disk[n] # <<>> => n \in DOMAIN rows
  BY <1>0 DEF RowsOK
<1>1. CASE WritePacket
  <2>1. CASE Die /\ UNCHANGED disks
    <3>1. FilesClean'
      BY <1>0, <2>1, CleanKept DEF disks, Die, NoThreads
    <3> QED BY <2>1, <3>1, DieClean
  <2>2. CASE ~(Die /\ UNCHANGED disks)
    <3>1. /\ UNCHANGED <<rows, zip, cur, held, stray, spoilt, handed>> /\ rpc = "write" /\ rpc' = "count"
          /\ \E c \in Broken(disk[cur], pkt) \cup {Append(disk[cur], Record(pkt))} :
               disk' = [disk EXCEPT ![cur] = c]
      BY <1>1, <2>2 DEF WritePacket, env
    <3>2. PICK c \in Broken(disk[cur], pkt) \cup {Append(disk[cur], Record(pkt))} :
            disk' = [disk EXCEPT ![cur] = c]
      BY <3>1
    <3>3. pkt \in Packet /\ pkt.intact /\ (cur \in spoilt \/ Oti[pkt.file] = rows[cur].oti) /\ handed = 0
      <4>1. pkt \in Message /\ pkt \in Packet /\ handed = 0
        BY <3>1 DEF RInv, TInv, Placed, Parts, MessageOK, HandedOK, Closing
      <4>2. stray \/ Oti[pkt.file] = rows[cur].oti
        BY <3>1 DEF RInv, Parts, RowOK, Under
      <4>3. stray => cur \in spoilt
        BY <3>1 DEF DataOK, WriteClean
      <4> QED BY <4>1, <4>2, <4>3 DEF Message
    <3>4. c \in Seq(Item) /\ (cur \in spoilt \/ Clean(c, rows[cur].oti))
      <4>1. c \in Seq(Item)
        BY <1>b, <3>2, <3>3, WrittenTypes
      <4>2. CASE cur \notin spoilt
        <5>1. Clean(disk[cur], rows[cur].oti)
          BY <1>0, <1>b, <4>2 DEF FilesClean
        <5> QED BY <1>b, <3>2, <3>3, <4>1, <4>2, <5>1, CleanRecord
      <4> QED BY <4>1, <4>2
    <3>5. FilesClean'
      BY <1>0, <1>b, <3>1, <3>2, <3>4, CleanWritten
    <3>6. HeldClean'
      BY <1>b, <3>1 DEF HeldClean
    <3> QED BY <1>b, <3>1, <3>3, <3>5, <3>6 DEF DataOK, ReplayClean, WriteClean, ZipWhole, zip
  <2> QED BY <2>1, <2>2
<1>2. CASE UpdateReceivedSymbolNum
  <2>1. /\ disk' = disk /\ rows' = [rows EXCEPT ![cur].received = num] /\ num \in Nat
        /\ \/ Die
           \/ rpc' = "idle" /\ UNCHANGED <<zip, cur, held, seen>>
    BY <1>0, <1>2 DEF UpdateReceivedSymbolNum, TypeOK
  <2>2. DOMAIN rows' = DOMAIN rows /\ \A n \in DOMAIN rows : rows'[n].oti = rows[n].oti
    BY <1>0, <1>b, <2>1, SetReceived
  <2>3. spoilt' = spoilt /\ zq = <<>>
    BY <1>2, <1>b, <2>1 DEF UpdateReceivedSymbolNum, Die, NoThreads, seen, RInv, Parts, HandedOK, Closing
  <2>4. FilesClean'
    BY <1>0, <1>c, <2>1, <2>2, <2>3, CleanKept
  <2>5. CASE Die
    BY <2>4, <2>5, DieClean
  <2>6. CASE rpc' = "idle" /\ UNCHANGED <<zip, cur, held, seen>>
    BY <1>b, <2>1, <2>2, <2>3, <2>4, <2>6 DEF DataOK, HeldClean, ReplayClean, WriteClean, ZipWhole, zip, seen
  <2> QED BY <2>1, <2>5, <2>6
<1>3. CASE DeleteLog
  <2>1. /\ UNCHANGED <<rows, zip, cur, held, seen>> /\ rpc' = "save" /\ disk' = [disk EXCEPT ![cur] = <<>>]
    BY <1>3 DEF DeleteLog, env
  <2>2. FilesClean'
    BY <1>0, <1>b, <2>1, CleanKept DEF seen
  <2>3. disk'[cur] = <<>>
    BY <1>0, <1>b, <2>1
  <2>4. HeldClean'
    BY <1>b, <2>1 DEF HeldClean, seen
  <2> QED BY <1>b, <2>1, <2>2, <2>3, <2>4 DEF DataOK, ReplayClean, WriteClean, ZipWhole, zip, seen
<1>4. CASE SaveZip
  <2>1. /\ UNCHANGED <<rows, zip, cur, held, stray, handed>> /\ rpc' = "complete"
        /\ \/ disk' = [disk EXCEPT ![cur] = <<Zip(DecodedWell)>>] /\ spoilt' = spoilt
           \/ /\ spoilt' = spoilt \cup {cur}
              /\ \E c \in {<<>>, <<Zip(FALSE)>>} : disk' = [disk EXCEPT ![cur] = c]
    BY <1>4 DEF SaveZip, env
  <2>2. cur \notin spoilt => DecodedWell = TRUE
    BY <1>0, <1>b, DecodesTheFile
  <2>3. PICK c \in {<<>>, <<Zip(TRUE)>>, <<Zip(FALSE)>>} :
          disk' = [disk EXCEPT ![cur] = c] /\ (cur \in spoilt' \/ c = <<Zip(TRUE)>>)
    <3>1. DecodedWell \in BOOLEAN
      BY DEF DecodedWell
    <3> QED BY <2>1, <2>2, <3>1
  <2>4. c \in Seq(Item) /\ Clean(c, rows[cur].oti)
    BY EmptyLog, ZipLog, CleanZip
  <2>5. FilesClean'
    <3>1. spoilt \subseteq spoilt'
      BY <2>1
    <3> QED BY <1>0, <1>b, <2>1, <2>3, <2>4, <3>1, CleanWritten
  <2>6. cur \in spoilt' \/ disk'[cur] = <<Zip(TRUE)>>
    BY <1>0, <1>b, <2>3, <2>4, WriteFile
  <2>7. HeldClean'
    BY <1>b, <2>1 DEF HeldClean
  <2> QED BY <2>1, <2>5, <2>6, <2>7 DEF DataOK, ReplayClean, WriteClean, ZipWhole, zip
<1>5. CASE Complete
  <2>1. /\ disk' = disk /\ rpc = "complete"
        /\ \/ Die /\ rows' = rows
           \/ /\ rows' = [rows EXCEPT ![cur].complete = TRUE]
              /\ rpc' = "unzip" /\ UNCHANGED <<zip, cur, held, seen>>
    BY <1>5 DEF Complete
  <2>2. \A n \in DOMAIN rows : rows'[n].oti = rows[n].oti
    <3>1. CASE rows' = rows
      BY <3>1
    <3>2. CASE rows' = [rows EXCEPT ![cur].complete = TRUE]
      BY <1>0, <1>b, <3>2, SetComplete
    <3> QED BY <2>1, <3>1, <3>2
  <2>3. spoilt' = spoilt
    BY <2>1 DEF Die, NoThreads, seen
  <2>4. FilesClean'
    BY <1>0, <1>c, <2>1, <2>2, <2>3, CleanKept
  <2>5. CASE Die
    BY <2>4, <2>5, DieClean
  <2>6. CASE rpc' = "unzip" /\ UNCHANGED <<zip, cur, held, seen>>
    <3>1. HeldClean'
      BY <1>b, <2>2, <2>6 DEF HeldClean, seen
    <3>2. ZipWhole'
      BY <2>1, <2>6 DEF DataOK, ZipWhole, zip, seen
    <3> QED BY <2>4, <2>6, <3>1, <3>2 DEF DataOK, ReplayClean, WriteClean
  <2> QED BY <2>1, <2>5, <2>6
<1>6. CASE SendToUnzip
  <2>1. UNCHANGED <<disks, zpc, cur, held, stray, spoilt>> /\ rpc = "unzip" /\ rpc' \in {"put", "quit"}
        /\ handed' = handed + 1
    BY <1>6 DEF SendToUnzip, env
  <2>2. FilesClean'
    BY <1>0, <2>1, CleanKept DEF disks
  <2>3. HeldClean'
    BY <1>b, <2>1 DEF HeldClean, disks
  <2>4. handed \in Nat /\ (handed' = 1 => handed = 0)
    BY <1>0, <2>1 DEF TypeOK
  <2>5. ZipWhole'
    BY <2>1, <2>4 DEF DataOK, ZipWhole, disks
  <2> QED BY <2>1, <2>2, <2>3, <2>5 DEF DataOK, ReplayClean, WriteClean
<1> QED BY <1>1, <1>2, <1>3, <1>4, <1>5, <1>6

\* and the unzip thread only removes files.
LEMMA DataUnZip ==
  ASSUME RInv, DataOK, UnZip
  PROVE  DataOK'
<1>0. /\ TypeOK /\ rows \in Seq(Row) /\ DOMAIN rows \subseteq Name /\ disk \in [Name -> Seq(Item)]
      /\ FilesClean /\ RowsOK
  BY Surroundings DEF RInv, TInv, Parts, DataOK
<1>1. zq # <<>>
  BY DEF RInv, Parts, ZipOK, UnZip, UnZipFile, Changename, DeleteZip
<1>2. /\ zq \in {<<cur>>, <<cur, cur>>} /\ Head(zq) = cur /\ cur \in DOMAIN rows /\ cur \in Name
      /\ handed >= 1 /\ (zq = <<cur, cur>> => handed = 2) /\ handed # 0
  BY <1>0, <1>1 DEF RInv, Parts, ZipOK
<1>a. rpc \notin {"replay", "write"} /\ (rpc \in {"complete", "unzip"} => handed # 0)
  BY <1>2 DEF RInv, Parts, HandedOK, Closing
<1>3. CASE UnZipFile
  <2>1. UNCHANGED <<rows, disk, zq, thread, env, seen>> /\ zpc = "idle"
    BY <1>3 DEF UnZipFile
  <2>2. FilesClean' /\ ReplayClean' /\ WriteClean'
    BY <1>0, <2>1 DEF DataOK, FilesClean, ReplayClean, WriteClean, thread, seen
  <2>3. HeldClean' /\ ZipWhole'
    BY <1>1, <2>1 DEF DataOK, HeldClean, ZipWhole, Active, Under, Ready, thread, seen
  <2> QED BY <2>2, <2>3 DEF DataOK
<1>4. CASE Changename
  <2>1. /\ disk' = disk /\ (rows' = rows \/ rows' = [rows EXCEPT ![cur].name = Unzipped])
        /\ Die \/ (zpc' = "delete" /\ UNCHANGED <<zq, thread, env, seen>>)
    BY <1>4 DEF Changename
  <2>2. \A n \in DOMAIN rows : rows'[n].oti = rows[n].oti
    <3>1. CASE rows' = rows
      BY <3>1
    <3>2. CASE rows' = [rows EXCEPT ![cur].name = Unzipped]
      BY <1>0, <1>2, <3>2, SetName
    <3> QED BY <2>1, <3>1, <3>2
  <2>3. \A n \in Name : disk[n] # <<>> => n \in DOMAIN rows
    BY <1>0 DEF RowsOK
  <2>4. spoilt' = spoilt
    BY <2>1 DEF Die, NoThreads, seen
  <2>5. FilesClean'
    BY <1>0, <2>1, <2>2, <2>3, <2>4, CleanKept
  <2>6. CASE Die
    BY <2>5, <2>6, DieClean
  <2>7. CASE zpc' = "delete" /\ UNCHANGED <<zq, thread, env, seen>>
    <3>1. HeldClean'
      BY <1>2, <2>2, <2>7 DEF DataOK, HeldClean, Active, Under, Ready, thread, seen
    <3>2. ZipWhole'
      BY <1>1, <1>a, <2>1, <2>7 DEF DataOK, ZipWhole, thread, seen
    <3> QED BY <1>a, <2>5, <2>7, <3>1, <3>2 DEF DataOK, ReplayClean, WriteClean, thread
  <2> QED BY <2>1, <2>6, <2>7
<1>5. CASE DeleteZip
  <2>1. UNCHANGED <<rows, thread, env, seen>> /\ disk' = [disk EXCEPT ![cur] = <<>>] /\ zq' = Tail(zq)
    BY <1>2, <1>5 DEF DeleteZip
  <2>2. FilesClean'
    BY <1>0, <1>2, <2>1, CleanKept DEF seen
  <2>3. disk'[cur] = <<>>
    BY <1>0, <1>2, <2>1
  <2>4. zq' = <<>> \/ handed = 2
    <3>0. Tail(<<cur>>) = <<>>
      OBVIOUS
    <3> QED BY <1>2, <2>1, <3>0
  <2>5. HeldClean'
    BY <2>1 DEF DataOK, HeldClean, Active, Under, Ready, thread, seen
  <2>6. ZipWhole'
    <3>1. disk'[cur'] = <<>> /\ cur' = cur /\ rpc' = rpc /\ handed' = handed
      BY <2>1, <2>3 DEF thread, seen
    <3>2. ~(rpc' \in {"complete", "unzip"} /\ handed' = 0) /\ ~(handed' = 1 /\ zq' # <<>>)
      BY <1>a, <2>4, <3>1
    <3> QED BY <3>1, <3>2 DEF ZipWhole
  <2> QED BY <1>a, <2>1, <2>2, <2>5, <2>6 DEF DataOK, ReplayClean, WriteClean, thread
<1> QED BY <1>3, <1>4, <1>5 DEF UnZip

\* Every step keeps the data clean.
LEMMA DataNext ==
  ASSUME DistinctOti
  PROVE  RInv /\ DataOK /\ [Next]_vars => DataOK'
<1> SUFFICES ASSUME RInv, DataOK, [Next]_vars PROVE DataOK'
  OBVIOUS
<1>1. CASE UNCHANGED vars
  <2>1. FilesClean' /\ ReplayClean' /\ WriteClean'
    BY <1>1 DEF DataOK, FilesClean, ReplayClean, WriteClean, vars, disks, thread, seen
  <2>2. HeldClean' /\ ZipWhole'
    BY <1>1 DEF DataOK, HeldClean, ZipWhole, Active, Under, Ready, vars, disks, thread, zip, seen
  <2> QED BY <2>1, <2>2 DEF DataOK
<1> QED BY <1>1, DataEnvironment, DataBegin, DataPut, DataGoOn, DataUnZip DEF Next, RaptorQ

\* The unzip thread is given the whole zip of one sent file, over any kills and resumptions,
\* when the parameters tell the files apart: unless a stray or pieced packet got into the
\* reception, the zip could not be written, or the block is decoded for a second time.
THEOREM WholeFilesHold ==
  ASSUME DistinctOti
  PROVE  Spec => []UnzipsWholeFiles
<1>1. RInv /\ DataOK => UnzipsWholeFiles
  <2> SUFFICES ASSUME RInv, DataOK, zq # <<>>, zpc = "idle", handed = 1, rpc = "quit", Head(zq) \notin spoilt
               PROVE  disk[Head(zq)] = <<Zip(TRUE)>>
    BY DEF UnzipsWholeFiles
  <2>1. Head(zq) = cur
    BY DEF RInv, Parts, ZipOK
  <2> QED BY <2>1 DEF DataOK, ZipWhole
<1> QED BY RInvInit, RInvNext, DataInit, DataNext, <1>1, PTL DEF Spec

-----------------------------------------------------------------------------
(* Every step of the receiver is a step of resumable reception, or none.   *)

\* The packets at the head of a log, from which a reception can be resumed.
Prefix(c) == {c[i].packet.esi : i \in 1 .. WholePrefix(c)}

\* The head of a log is found when all before a place are records, and none stands there.
LEMMA PrefixIs ==
  ASSUME NEW c \in Seq(Item), NEW n \in 0 .. Len(c), \A i \in 1 .. n : c[i].kind = "packet",
         n < Len(c) => c[n + 1].kind # "packet"
  PROVE  WholePrefix(c) = n
<1> DEFINE w == WholePrefix(c)
<1>1. /\ w \in 0 .. Len(c) /\ Len(c) \in Nat
      /\ \A i \in 1 .. w : c[i].kind = "packet"
      /\ w < Len(c) => c[w + 1].kind # "packet"
  BY WholePrefixFacts
<1> HIDE DEF w
<1>2. CASE w < n
  <2>1. w + 1 \in 1 .. n /\ w < Len(c)
    BY <1>1, <1>2
  <2> QED BY <1>1, <2>1
<1>3. CASE n < w
  <2>1. n + 1 \in 1 .. w /\ n < Len(c)
    BY <1>1, <1>3
  <2> QED BY <1>1, <2>1
<1>4. CASE n = w
  BY <1>4 DEF w
<1> QED BY <1>1, <1>2, <1>3, <1>4

\* Appending to a log: only a record right behind records is one more to resume from.
LEMMA PrefixAppend ==
  ASSUME NEW c \in Seq(Item), NEW x \in Item
  PROVE  Prefix(Append(c, x)) = IF OnlyRecords(c) /\ x.kind = "packet"
                                  THEN Prefix(c) \cup {x.packet.esi} ELSE Prefix(c)
<1> DEFINE d == Append(c, x)
           n == WholePrefix(c)
           l == Len(c)
<1>1. /\ l \in Nat /\ d \in Seq(Item) /\ Len(d) = l + 1 /\ DOMAIN c = 1 .. l
      /\ d[l + 1] = x /\ \A i \in 1 .. l : d[i] = c[i]
  OBVIOUS
<1>2. /\ n \in 0 .. l /\ \A i \in 1 .. n : c[i].kind = "packet"
      /\ n < l => c[n + 1].kind # "packet"
  BY WholePrefixFacts
<1> HIDE DEF d, n, l
<1>3. OnlyRecords(c) <=> n = l
  <2>1. CASE n = l
    BY <1>1, <1>2, <2>1 DEF OnlyRecords
  <2>2. CASE n # l
    <3>1. n < l /\ n + 1 \in 1 .. l
      BY <1>1, <1>2, <2>2
    <3> QED BY <1>1, <1>2, <2>2, <3>1 DEF OnlyRecords
  <2> QED BY <2>1, <2>2
<1>4. \A i \in 1 .. n : i \in 1 .. l /\ d[i] = c[i] /\ d[i].kind = "packet"
  BY <1>1, <1>2
<1>5. CASE OnlyRecords(c) /\ x.kind = "packet"
  <2>1. n = l
    BY <1>3, <1>5
  <2>2. \A i \in 1 .. l + 1 : d[i].kind = "packet"
    BY <1>1, <1>4, <1>5, <2>1
  <2>3. l + 1 \in 0 .. Len(d) /\ ~(l + 1 < Len(d))
    BY <1>1
  <2>4. WholePrefix(d) = l + 1
    BY <1>1, <2>2, <2>3, PrefixIs
  <2>5. Prefix(d) = {d[i].packet.esi : i \in 1 .. l + 1} /\ Prefix(c) = {c[i].packet.esi : i \in 1 .. l}
    BY <2>1, <2>4 DEF Prefix, n
  <2>6. {d[i].packet.esi : i \in 1 .. l + 1} = {d[i].packet.esi : i \in 1 .. l} \cup {d[l + 1].packet.esi}
    BY <1>1
  <2>7. {d[i].packet.esi : i \in 1 .. l} = {c[i].packet.esi : i \in 1 .. l}
    BY <1>1
  <2>8. Prefix(d) = Prefix(c) \cup {x.packet.esi}
    BY <1>1, <2>5, <2>6, <2>7
  <2> QED BY <1>5, <2>8 DEF d
<1>6. CASE ~(OnlyRecords(c) /\ x.kind = "packet")
  <2>1. n \in 0 .. Len(d) /\ d[n + 1].kind # "packet"
    <3>1. CASE n = l
      BY <1>1, <1>2, <1>3, <1>6, <3>1
    <3>2. CASE n # l
      <4>1. n < l /\ n + 1 \in 1 .. l
        BY <1>1, <1>2, <3>2
      <4> QED BY <1>1, <1>2, <4>1
    <3> QED BY <3>1, <3>2
  <2>2. WholePrefix(d) = n
    BY <1>1, <1>4, <2>1, PrefixIs
  <2>3. {d[i].packet.esi : i \in 1 .. n} = {c[i].packet.esi : i \in 1 .. n}
    BY <1>4
  <2>4. Prefix(d) = Prefix(c)
    BY <2>2, <2>3 DEF Prefix, n
  <2> QED BY <1>6, <2>4 DEF d
<1> QED BY <1>5, <1>6

\* Nothing is resumed from an empty file or a zip.
LEMMA PrefixZip ==
  Prefix(<<>>) = {} /\ \A w \in BOOLEAN : Prefix(<<Zip(w)>>) = {}
<1>1. WholePrefix(<<>>) = 0
  <2>1. <<>> \in Seq(Item) /\ 0 \in 0 .. Len(<<>>) /\ \A i \in 1 .. 0 : <<>>[i].kind = "packet"
    BY EmptyLog
  <2>2. ~(0 < Len(<<>>))
    BY EmptyLog
  <2> QED BY <2>1, <2>2, PrefixIs
<1>2. ASSUME NEW w \in BOOLEAN PROVE WholePrefix(<<Zip(w)>>) = 0
  <2> DEFINE z == <<Zip(w)>>
  <2>1. z \in Seq(Item) /\ Len(z) = 1 /\ z[1].kind = "zip"
    BY ZipLog, Items
  <2> HIDE DEF z
  <2>2. 0 \in 0 .. Len(z) /\ \A i \in 1 .. 0 : z[i].kind = "packet"
    BY <2>1
  <2>3. z[0 + 1].kind # "packet"
    BY <2>1
  <2>4. WholePrefix(z) = 0
    BY <2>1, <2>2, <2>3, PrefixIs
  <2> QED BY <2>4 DEF z
<1> QED BY <1>1, <1>2 DEF Prefix

\* A step that leaves the completeness of every row alone.
LEMMA PhaseKept ==
  ASSUME DOMAIN rows' = DOMAIN rows, \A n \in DOMAIN rows : rows'[n].complete = rows[n].complete
  PROVE  Phase' = Phase
BY DEF Phase

\* A row that is there is not new.
LEMMA PhaseOf ==
  ASSUME NEW n \in Name, n \in DOMAIN rows
  PROVE  Phase[n] = IF rows[n].complete THEN "complete" ELSE "open"
BY DEF Phase

\* A step that leaves the disk alone.
LEMMA DiskKept ==
  ASSUME disk' = disk
  PROVE  Saved' = Saved /\ Whole' = Whole
BY DEF Saved, Whole

\* A step that writes one file.
LEMMA DiskWritten ==
  ASSUME disk \in [Name -> Seq(Item)], NEW n \in Name, NEW c \in Seq(Item), disk' = [disk EXCEPT ![n] = c]
  PROVE  /\ Saved' = [Saved EXCEPT ![n] = Prefix(c)] /\ Saved[n] = Prefix(disk[n])
         /\ Whole' = IF c = <<Zip(TRUE)>> THEN Whole \cup {n} ELSE Whole \ {n}
         /\ n \in Whole <=> disk[n] = <<Zip(TRUE)>>
<1>1. disk'[n] = c /\ \A m \in Name : m # n => disk'[m] = disk[m]
  BY WriteFile
<1>2. Saved = [m \in Name |-> Prefix(disk[m])] /\ Saved' = [m \in Name |-> Prefix(disk'[m])]
  BY DEF Saved, Prefix
<1>3. Saved' = [Saved EXCEPT ![n] = Prefix(c)] /\ Saved[n] = Prefix(disk[n])
  BY <1>1, <1>2
<1>4. Whole' = IF c = <<Zip(TRUE)>> THEN Whole \cup {n} ELSE Whole \ {n}
  BY <1>1 DEF Whole
<1>5. n \in Whole <=> disk[n] = <<Zip(TRUE)>>
  BY DEF Whole
<1> QED BY <1>3, <1>4, <1>5

\* A step that stands for none of the abstract ones.
LEMMA Stutters ==
  ASSUME Phase' = Phase, disk' = disk, spoilt' = spoilt, out' = out
  PROVE  [Transfer!Next]_(Transfer!tvars)
BY DiskKept DEF Transfer!tvars

\* A step that spoils a reception under way, or not, and does nothing else to it.
LEMMA Spoils ==
  ASSUME Phase' = Phase, Saved' = Saved, Whole' = Whole, out' = out, cur \in Name, cur \in DOMAIN rows,
         spoilt' = spoilt \/ spoilt' = spoilt \cup {cur}
  PROVE  [Transfer!Next]_(Transfer!tvars)
<1>1. Phase[cur] # "new"
  BY PhaseOf
<1>2. Transfer!Spoil(cur) \/ UNCHANGED Transfer!tvars
  BY <1>1 DEF Transfer!Spoil, Transfer!tvars
<1> QED BY <1>2 DEF Transfer!Next

\* A step that writes something that is no whole zip and from which nothing is resumed.
LEMMA Discarded ==
  ASSUME disk \in [Name -> Seq(Item)], NEW n \in Name, NEW c \in Seq(Item), disk' = [disk EXCEPT ![n] = c],
         c # <<Zip(TRUE)>>, Prefix(c) = {},
         Phase' = Phase, spoilt' = spoilt, out' = out
  PROVE  [Transfer!Next]_(Transfer!tvars)
<1>1. Saved' = [Saved EXCEPT ![n] = {}] /\ Whole' = Whole \ {n}
  BY DiskWritten
<1>2. Transfer!Discard(n)
  BY <1>1 DEF Transfer!Discard
<1> QED BY <1>2 DEF Transfer!Next

\* The whole zip is not a log, and neither is an empty file a zip.
LEMMA NotWhole ==
  /\ <<>> # <<Zip(TRUE)>> /\ <<Zip(FALSE)>> # <<Zip(TRUE)>>
  /\ ~OnlyRecords(<<Zip(TRUE)>>)
  /\ \A c \in Seq(Item), x \in Item : x.kind # "zip" => Append(c, x) # <<Zip(TRUE)>>
<1>1. <<>> # <<Zip(TRUE)>>
  OBVIOUS
<1>2. <<Zip(FALSE)>> # <<Zip(TRUE)>>
  BY DEF Zip
<1>3. ~OnlyRecords(<<Zip(TRUE)>>)
  BY ZipLog
<1>4. ASSUME NEW c \in Seq(Item), NEW x \in Item, x.kind # "zip" PROVE Append(c, x) # <<Zip(TRUE)>>
  <2>1. Len(c) \in Nat /\ Len(Append(c, x)) = Len(c) + 1 /\ Append(c, x)[Len(c) + 1] = x
    OBVIOUS
  <2> SUFFICES ASSUME Append(c, x) = <<Zip(TRUE)>> PROVE FALSE
    OBVIOUS
  <2>2. Len(<<Zip(TRUE)>>) = 1 /\ <<Zip(TRUE)>>[1] = Zip(TRUE)
    OBVIOUS
  <2>3. Len(c) + 1 = 1
    BY <2>1, <2>2
  <2>4. x = Zip(TRUE)
    BY <2>1, <2>2, <2>3
  <2> QED BY <1>4, <2>4, Items
<1> QED BY <1>1, <1>2, <1>3, <1>4

\* A record, whole or torn, behind what an open reception has: a whole one behind records is a
\* packet saved; the bytes of a zip are no zip any more; else nothing could be resumed from it.
LEMMA RefinesSave ==
  ASSUME disk \in [Name -> Seq(Item)], cur \in Name, cur \in DOMAIN rows, ~rows[cur].complete,
         pkt \in Packet, rows' = rows, out' = out, spoilt' = spoilt,
         NEW x \in {Record(pkt), Torn(pkt)}, disk' = [disk EXCEPT ![cur] = Append(@, x)]
  PROVE  [Transfer!Next]_(Transfer!tvars)
<1> DEFINE a == disk[cur]
           c == Append(a, x)
<1>1. x \in Item /\ x.packet = pkt /\ x.kind # "zip" /\ pkt.esi \in ESI /\ a \in Seq(Item)
  BY Items DEF Packet
<1>2. /\ c \in Seq(Item) /\ c # <<Zip(TRUE)>>
      /\ Prefix(c) = IF OnlyRecords(a) /\ x.kind = "packet" THEN Prefix(a) \cup {pkt.esi} ELSE Prefix(a)
  BY <1>1, AppendItem, NotWhole, PrefixAppend
<1>3. disk' = [disk EXCEPT ![cur] = c]
  OBVIOUS
<1>4. Saved[cur] = Prefix(a) /\ (cur \in Whole <=> a = <<Zip(TRUE)>>)
      /\ Saved' = [Saved EXCEPT ![cur] = Prefix(c)] /\ Whole' = Whole \ {cur}
  <2> HIDE DEF c
  <2> QED BY <1>2, <1>3, DiskWritten
<1> HIDE DEF a, c
<1>5. Phase' = Phase /\ Phase[cur] = "open"
  BY PhaseKept, PhaseOf
<1>6. Saved = [Saved EXCEPT ![cur] = Saved[cur]]
  BY DEF Saved
<1>7. CASE a = <<Zip(TRUE)>>
  <2>1. Prefix(c) = {}
    BY <1>2, <1>7, NotWhole, PrefixZip
  <2> QED BY <1>2, <1>3, <1>5, <2>1, Discarded
<1>8. CASE a # <<Zip(TRUE)>> /\ OnlyRecords(a) /\ x.kind = "packet"
  <2>1. Saved' = [Saved EXCEPT ![cur] = @ \cup {pkt.esi}] /\ Whole' = Whole /\ cur \notin Whole
    BY <1>2, <1>4, <1>8
  <2>2. Transfer!Save(cur, pkt.esi)
    BY <1>5, <2>1 DEF Transfer!Save
  <2> QED BY <1>1, <2>2 DEF Transfer!Next
<1>9. CASE a # <<Zip(TRUE)>> /\ ~(OnlyRecords(a) /\ x.kind = "packet")
  <2>1. Saved' = Saved /\ Whole' = Whole
    BY <1>2, <1>4, <1>6, <1>9
  <2> QED BY <1>5, <2>1 DEF Transfer!tvars
<1> QED BY <1>7, <1>8, <1>9

\* Writing a packet, whether it succeeds or not.
LEMMA RefinesWrite ==
  ASSUME disk \in [Name -> Seq(Item)], cur \in Name, cur \in DOMAIN rows, ~rows[cur].complete,
         pkt \in Packet, rows' = rows, out' = out, spoilt' = spoilt,
         NEW c \in Broken(disk[cur], pkt) \cup {Append(disk[cur], Record(pkt))},
         disk' = [disk EXCEPT ![cur] = c]
  PROVE  [Transfer!Next]_(Transfer!tvars)
<1>1. CASE c = disk[cur]
  <2>1. disk' = disk
    BY <1>1
  <2> QED BY <2>1, PhaseKept, Stutters
<1>2. CASE c = Append(disk[cur], Torn(pkt)) \/ c = Append(disk[cur], Record(pkt))
  <2>1. PICK x \in {Record(pkt), Torn(pkt)} : c = Append(disk[cur], x)
    BY <1>2
  <2>2. disk' = [disk EXCEPT ![cur] = Append(@, x)]
    BY <2>1
  <2> QED BY <2>2, RefinesSave
<1> QED BY <1>1, <1>2 DEF Broken

\* No reception is begun when the phone is new.
LEMMA RefinesInit == Init => Transfer!Init
<1> SUFFICES ASSUME Init PROVE Transfer!Init
  OBVIOUS
<1>1. rows = <<>> /\ DOMAIN rows = {} /\ out = {} /\ spoilt = {} /\ \A n \in Name : disk[n] = <<>>
  BY DEF Init
<1>2. Phase = [n \in Name |-> "new"]
  BY <1>1 DEF Phase
<1>3. Saved = [n \in Name |-> Prefix(disk[n])]
  BY DEF Saved, Prefix
<1>4. Saved = [n \in Name |-> {}]
  BY <1>1, <1>3, PrefixZip
<1>5. Whole = {}
  BY <1>1, NotWhole DEF Whole
<1> QED BY <1>1, <1>2, <1>4, <1>5 DEF Transfer!Init

\* The activities and the environment: a launch removes empty files only; a kill leaves a torn
\* record or a part of a zip, from which nothing more is resumed.
LEMMA RefinesEnvironment ==
  ASSUME RInv, User \/ Kill \/ KillInWrite \/ (\E e \in ESI : Receive(e)) \/ ReceiveStray
  PROVE  [Transfer!Next]_(Transfer!tvars)
<1>0. /\ TypeOK /\ rows \in Seq(Row) /\ DOMAIN rows \subseteq Name /\ disk \in [Name -> Seq(Item)]
  BY Surroundings DEF RInv, TInv
<1>1. CASE Launch
  <2>1. PICK last \in Name :
          disk' = [n \in Name |->
                     IF n # last /\ \E i \in DOMAIN rows : rows[i].oti = NULL /\ rows[i].name = n
                       THEN <<>> ELSE disk[n]]
    BY <1>1 DEF Launch
  <2>2. rows' = rows /\ out' = out /\ spoilt' = spoilt
    BY <1>1 DEF Launch, seen
  <2>3. ASSUME NEW n \in Name PROVE disk'[n] = disk[n]
    <3>1. CASE \E i \in DOMAIN rows : rows[i].oti = NULL /\ rows[i].name = n
      <4>1. rows[n].oti = NULL
        BY <3>1 DEF RInv, Parts, RowsOK, Name, Unzipped
      <4>2. disk[n] = <<>>
        BY <4>1 DEF RInv, Parts, RowsOK
      <4> QED BY <2>1, <4>2
    <3>2. CASE ~ \E i \in DOMAIN rows : rows[i].oti = NULL /\ rows[i].name = n
      BY <2>1, <3>2
    <3> QED BY <3>1, <3>2
  <2>4. disk' = disk
    BY <1>0, <2>1, <2>3
  <2> QED BY <2>2, <2>4, PhaseKept, Stutters
<1>2. CASE OpenReceive \/ Pause \/ Leave \/ Kill
  <2>1. UNCHANGED disks /\ spoilt' = spoilt
    BY <1>2 DEF OpenReceive, Pause, Leave, Kill, Die, NoThreads, seen
  <2> QED BY <2>1, PhaseKept, Stutters DEF disks
<1>3. CASE (\E e \in ESI : Receive(e)) \/ ReceiveStray
  <2>1. UNCHANGED disks /\ spoilt' = spoilt
    BY <1>3 DEF Receive, ReceiveStray, Take
  <2> QED BY <2>1, PhaseKept, Stutters DEF disks
<1>4. CASE KillInWrite
  <2>1. rows' = rows /\ out' = out /\ spoilt' = spoilt
    BY <1>4 DEF KillInWrite, Die, NoThreads
  <2>2. CASE /\ (rpc = "first" /\ pkt.file # Junk) \/ (rpc = "write" /\ oos)
             /\ disk' = [disk EXCEPT ![cur] = Append(@, Torn(pkt))]
    <3>1. cur \in Name /\ cur \in DOMAIN rows /\ ~rows[cur].complete /\ pkt \in Packet
      <4>1. handed = 0
        BY <2>2 DEF RInv, Parts, HandedOK, Closing
      <4>2. cur \in DOMAIN rows /\ ~rows[cur].complete
        BY <2>2, <4>1 DEF RInv, Parts, RowOK, Active, Under
      <4>3. pkt \in Packet
        BY <2>2, MessageTypes DEF RInv, TInv, Placed
      <4> QED BY <1>0, <4>2, <4>3
    <3> QED BY <1>0, <2>1, <2>2, <3>1, RefinesSave
  <2>3. CASE rpc = "save" /\ disk' = [disk EXCEPT ![cur] = <<Zip(FALSE)>>]
    <3>1. cur \in Name
      BY <1>0, <2>3 DEF RInv, Parts, RowOK, Active, Under
    <3>2. <<Zip(FALSE)>> \in Seq(Item) /\ Prefix(<<Zip(FALSE)>>) = {}
      BY ZipLog, PrefixZip
    <3> QED BY <1>0, <2>1, <2>3, <3>1, <3>2, PhaseKept, NotWhole, Discarded
  <2> QED BY <1>4, <2>2, <2>3 DEF KillInWrite
<1> QED BY <1>1, <1>2, <1>3, <1>4 DEF User

\* The RaptorQ thread up to the first packet: a new row is a reception begun, its first packet
\* a packet saved; a packet pieced together spoils the reception.
LEMMA RefinesBegin ==
  ASSUME RInv, CompareWithList \/ RestartDecode \/ Replay \/ EndReplay \/ InsertNewFile
               \/ UpdateFECParameters \/ DecodeFirst
  PROVE  [Transfer!Next]_(Transfer!tvars)
<1>0. /\ TypeOK /\ rows \in Seq(Row) /\ DOMAIN rows \subseteq Name /\ disk \in [Name -> Seq(Item)]
      /\ Len(rows) \in Nat /\ DOMAIN rows = 1 .. Len(rows)
  BY Surroundings DEF RInv, TInv
<1>1. CASE CompareWithList \/ Replay \/ EndReplay
  <2>1. UNCHANGED disks /\ spoilt' = spoilt
    BY <1>1 DEF CompareWithList, Replay, EndReplay, seen
  <2> QED BY <2>1, PhaseKept, Stutters DEF disks
<1>2. CASE RestartDecode
  <2>1. UNCHANGED disks /\ (spoilt' = spoilt \/ spoilt' = spoilt \cup {cur}) /\ rpc = "restart"
    BY <1>2 DEF RestartDecode
  <2>2. cur \in DOMAIN rows /\ cur \in Name
    BY <1>0, <2>1 DEF RInv, Parts, RowOK
  <2> QED BY <2>1, <2>2, PhaseKept, DiskKept, Spoils DEF disks
<1>3. CASE InsertNewFile
  <2> DEFINE n == Len(rows) + 1
  <2>1. /\ disk' = disk /\ out' = out /\ spoilt' = spoilt /\ Len(rows) < MaxRows
        /\ rows' = Append(rows, [name |-> Len(rows) + 1, oti |-> NULL, received |-> 0, complete |-> FALSE])
    BY <1>3 DEF InsertNewFile, seen
  <2>2. /\ DOMAIN rows' = DOMAIN rows \cup {n} /\ n \notin DOMAIN rows
        /\ \A j \in DOMAIN rows : rows'[j] = rows[j]
        /\ rows'[n] = [name |-> n, oti |-> NULL, received |-> 0, complete |-> FALSE]
    BY <1>0, <2>1, AppendRow
  <2>3. n \in Name
    BY <1>0, <2>1, RowBound DEF Name
  <2> HIDE DEF n
  <2>4. Phase[n] = "new"
    BY <2>2, <2>3 DEF Phase
  <2>5. ~rows'[n].complete
    BY <2>2
  <2>6. Phase' = [m \in Name |-> IF m = n THEN "open" ELSE Phase[m]]
    BY <2>2, <2>3, <2>5 DEF Phase
  <2>7. Phase' = [Phase EXCEPT ![n] = "open"]
    BY <2>6 DEF Phase
  <2>8. Transfer!Begin(n)
    BY <2>1, <2>4, <2>7, DiskKept DEF Transfer!Begin
  <2> QED BY <2>3, <2>8 DEF Transfer!Next
<1>4. CASE UpdateFECParameters
  <2>1. /\ disk' = disk /\ out' = out /\ spoilt' = spoilt /\ rpc = "update"
        /\ rows' = [rows EXCEPT ![cur].oti = Oti[pkt.file]]
    BY <1>4 DEF UpdateFECParameters
  <2>2. cur \in DOMAIN rows /\ Oti[pkt.file] \in Parameters
    BY <2>1, MessageTypes DEF RInv, TInv, Placed
  <2>3. /\ DOMAIN rows' = DOMAIN rows /\ rows'[cur].complete = rows[cur].complete
        /\ \A j \in DOMAIN rows : j # cur => rows'[j] = rows[j]
    BY <1>0, <2>1, <2>2, SetOti
  <2>4. Phase' = Phase
    BY <2>3, PhaseKept
  <2> QED BY <2>1, <2>4, Stutters
<1>5. CASE DecodeFirst
  <2>1. rows' = rows /\ out' = out /\ spoilt' = spoilt /\ rpc = "first"
    BY <1>5 DEF DecodeFirst
  <2>2. CASE pkt.file = Junk
    <3>1. disk' = disk
      BY <1>5, <2>2 DEF DecodeFirst
    <3> QED BY <2>1, <3>1, PhaseKept, Stutters
  <2>3. CASE pkt.file # Junk
    <3>1. handed = 0
      BY <2>1 DEF RInv, Parts, HandedOK, Closing
    <3>2. cur \in Name /\ cur \in DOMAIN rows /\ ~rows[cur].complete /\ pkt \in Packet
      BY <1>0, <2>1, <2>3, <3>1, MessageTypes DEF RInv, Parts, RowOK, TInv, Placed
    <3>3. PICK c \in Broken(disk[cur], pkt) \cup {Append(disk[cur], Record(pkt))} :
            disk' = [disk EXCEPT ![cur] = c]
      BY <1>5, <2>3 DEF DecodeFirst
    <3> QED BY <1>0, <2>1, <3>2, <3>3, RefinesWrite
  <2> QED BY <2>2, <2>3
<1> QED BY <1>1, <1>2, <1>3, <1>4, <1>5

\* A decoded block and a decoding given up: the file is emptied.
LEMMA RefinesEmptied ==
  ASSUME disk \in [Name -> Seq(Item)], cur \in Name, rows' = rows, out' = out, spoilt' = spoilt,
         disk' = [disk EXCEPT ![cur] = <<>>]
  PROVE  [Transfer!Next]_(Transfer!tvars)
<1>1. Phase' = Phase
  BY PhaseKept
<1> QED BY <1>1, EmptyLog, PrefixZip, NotWhole, Discarded

\* The rest of the RaptorQ thread: packets are saved, the log makes room for the zip, and a row
\* is marked with the whole zip in place, unless the reception is spoilt.
LEMMA RefinesGoOn ==
  ASSUME DistinctOti, RInv, DataOK,
         DecodeForeign \/ DecodeRaptor \/ WritePacket \/ UpdateReceivedSymbolNum \/ DeleteLog
         \/ SaveZip \/ Complete \/ SendToUnzip
  PROVE  [Transfer!Next]_(Transfer!tvars)
<1>0. /\ TypeOK /\ rows \in Seq(Row) /\ DOMAIN rows \subseteq Name /\ disk \in [Name -> Seq(Item)]
  BY Surroundings DEF RInv, TInv
<1>a. rpc \in Under
  BY DEF DecodeForeign, DecodeRaptor, WritePacket, UpdateReceivedSymbolNum, DeleteLog, SaveZip, Complete,
         SendToUnzip, Under
<1>b. /\ cur \in DOMAIN rows /\ cur \in Name
      /\ (rows[cur].complete <=> rpc = "unzip" \/ handed = 1)
      /\ cur \notin spoilt => \A p \in held : p.intact /\ Oti[p.file] = rows[cur].oti
  BY <1>0, <1>a DEF DataOK, HeldClean, Active, Under, RInv, Parts, RowOK
<1>1. CASE DecodeForeign
  <2>1. UNCHANGED disks /\ spoilt' = spoilt
    BY <1>1 DEF DecodeForeign, Die, NoThreads
  <2> QED BY <2>1, PhaseKept, Stutters DEF disks
<1>2. CASE DecodeRaptor
  <2>1. \/ UNCHANGED disks /\ (spoilt' = spoilt \/ spoilt' = spoilt \cup {cur})
        \/ /\ rows' = rows /\ out' = out /\ disk' = [disk EXCEPT ![cur] = <<>>] /\ spoilt' = spoilt
    BY <1>2 DEF DecodeRaptor, Die, NoThreads, disks
  <2> QED BY <1>0, <1>b, <2>1, RefinesEmptied, PhaseKept, DiskKept, Spoils DEF disks
<1>3. CASE WritePacket
  <2>1. CASE UNCHANGED disks /\ spoilt' = spoilt
    BY <2>1, PhaseKept, Stutters DEF disks
  <2>2. CASE /\ rows' = rows /\ out' = out /\ spoilt' = spoilt
             /\ \E c \in Broken(disk[cur], pkt) \cup {Append(disk[cur], Record(pkt))} :
                  disk' = [disk EXCEPT ![cur] = c]
    <3>1. PICK c \in Broken(disk[cur], pkt) \cup {Append(disk[cur], Record(pkt))} :
            disk' = [disk EXCEPT ![cur] = c]
      BY <2>2
    <3>2. rpc = "write" /\ pkt \in Packet /\ ~rows[cur].complete
      <4>1. rpc = "write" /\ handed = 0
        BY <1>3 DEF WritePacket, RInv, Parts, HandedOK, Closing
      <4> QED BY <1>b, <4>1 DEF RInv, TInv, Placed
    <3> QED BY <1>0, <1>b, <2>2, <3>1, <3>2, RefinesWrite
  <2>3. \/ UNCHANGED disks /\ spoilt' = spoilt
        \/ /\ rows' = rows /\ out' = out /\ spoilt' = spoilt
           /\ \E c \in Broken(disk[cur], pkt) \cup {Append(disk[cur], Record(pkt))} :
                disk' = [disk EXCEPT ![cur] = c]
    BY <1>3 DEF WritePacket, Die, NoThreads
  <2> QED BY <2>1, <2>2, <2>3
<1>4. CASE UpdateReceivedSymbolNum
  <2>1. /\ disk' = disk /\ out' = out /\ rows' = [rows EXCEPT ![cur].received = num] /\ num \in Nat
        /\ spoilt' = spoilt
    BY <1>0, <1>4 DEF UpdateReceivedSymbolNum, TypeOK, Die, NoThreads, seen
  <2>2. /\ DOMAIN rows' = DOMAIN rows /\ rows'[cur].complete = rows[cur].complete
        /\ \A j \in DOMAIN rows : j # cur => rows'[j] = rows[j]
    BY <1>0, <1>b, <2>1, SetReceived
  <2>3. Phase' = Phase
    BY <2>2, PhaseKept
  <2> QED BY <2>1, <2>3, Stutters
<1>5. CASE DeleteLog
  <2>1. rows' = rows /\ out' = out /\ disk' = [disk EXCEPT ![cur] = <<>>] /\ spoilt' = spoilt
    BY <1>5 DEF DeleteLog, seen
  <2> QED BY <1>0, <1>b, <2>1, RefinesEmptied
<1>6. CASE SaveZip
  <2>1. rows' = rows /\ out' = out /\ rpc = "save"
    BY <1>6 DEF SaveZip
  <2>2. disk[cur] = <<>>
    BY <2>1 DEF RInv, Parts, FreshOK
  <2>3. Phase' = Phase /\ Phase[cur] # "new"
    BY <1>b, <2>1, PhaseKept, PhaseOf
  <2>4. CASE disk' = [disk EXCEPT ![cur] = <<Zip(TRUE)>>] /\ spoilt' = spoilt
    <3>1. <<Zip(TRUE)>> \in Seq(Item) /\ Prefix(<<Zip(TRUE)>>) = {} /\ Prefix(disk[cur]) = {}
      BY <2>2, ZipLog, PrefixZip
    <3>2. Saved' = [Saved EXCEPT ![cur] = {}] /\ Saved[cur] = {} /\ Whole' = Whole \cup {cur}
      BY <1>0, <1>b, <2>4, <3>1, DiskWritten
    <3>3. Saved' = Saved
      BY <3>2 DEF Saved
    <3>4. Transfer!Assemble(cur)
      BY <2>1, <2>3, <2>4, <3>2, <3>3 DEF Transfer!Assemble
    <3> QED BY <1>b, <3>4 DEF Transfer!Next
  <2>5. CASE /\ \E c \in {<<>>, <<Zip(FALSE)>>} : disk' = [disk EXCEPT ![cur] = c]
             /\ spoilt' = spoilt \/ spoilt' = spoilt \cup {cur}
    <3>1. PICK c \in {<<>>, <<Zip(FALSE)>>} : disk' = [disk EXCEPT ![cur] = c]
      BY <2>5
    <3>2. c \in Seq(Item) /\ Prefix(c) = {} /\ Prefix(disk[cur]) = {} /\ c # <<Zip(TRUE)>>
      BY <2>2, EmptyLog, ZipLog, PrefixZip, NotWhole
    <3>3. /\ Saved' = [Saved EXCEPT ![cur] = {}] /\ Saved[cur] = {}
          /\ Whole' = Whole \ {cur} /\ (cur \in Whole <=> disk[cur] = <<Zip(TRUE)>>)
      <4>1. /\ Saved' = [Saved EXCEPT ![cur] = Prefix(c)] /\ Saved[cur] = Prefix(disk[cur])
            /\ Whole' = IF c = <<Zip(TRUE)>> THEN Whole \cup {cur} ELSE Whole \ {cur}
            /\ cur \in Whole <=> disk[cur] = <<Zip(TRUE)>>
        BY <1>0, <1>b, <3>1, <3>2, DiskWritten
      <4> QED BY <3>2, <4>1
    <3>4. Saved' = Saved
      BY <3>3 DEF Saved
    <3>5. Whole' = Whole
      BY <2>2, <3>3, NotWhole
    <3> QED BY <1>b, <2>1, <2>3, <2>5, <3>4, <3>5, Spoils
  <2>6. DecodedWell \in BOOLEAN
    BY DEF DecodedWell
  <2> QED BY <1>6, <2>4, <2>5, <2>6 DEF SaveZip
<1>7. CASE Complete
  <2>1. disk' = disk /\ out' = out /\ rpc = "complete" /\ spoilt' = spoilt
    BY <1>7 DEF Complete, Die, NoThreads, seen
  <2>2. CASE rows' = rows
    BY <2>1, <2>2, PhaseKept, Stutters
  <2>3. CASE rows' = [rows EXCEPT ![cur].complete = TRUE]
    <3>1. /\ DOMAIN rows' = DOMAIN rows /\ rows'[cur].complete
          /\ \A j \in DOMAIN rows : j # cur => rows'[j] = rows[j]
      BY <1>0, <1>b, <2>3, SetComplete
    <3>2. CASE rows[cur].complete
      <4>1. rows[cur].complete = TRUE /\ rows'[cur].complete = TRUE
        <5>1. rows[cur] \in Row /\ rows'[cur] \in Row
          BY <1>0, <1>b, <2>3, SetComplete
        <5> QED BY <3>1, <3>2, <5>1 DEF Row
      <4>2. Phase' = Phase
        BY <3>1, <4>1, PhaseKept
      <4> QED BY <2>1, <4>2, Stutters
    <3>3. CASE ~rows[cur].complete
      <4>1. Phase[cur] = "open"
        BY <1>b, <3>3, PhaseOf
      <4>2. Phase' = [n \in Name |-> IF n = cur THEN "complete" ELSE Phase[n]]
        BY <1>b, <3>1 DEF Phase
      <4>3. Phase' = [Phase EXCEPT ![cur] = "complete"]
        BY <4>2 DEF Phase
      <4>4. handed = 0
        BY <1>b, <2>1, <3>3 DEF RInv, Parts, HandedOK, Closing
      <4>5. cur \in Whole \cup spoilt
        BY <1>b, <2>1, <4>4 DEF DataOK, ZipWhole, Whole
      <4>6. Transfer!Complete(cur)
        BY <2>1, <4>1, <4>3, <4>5, DiskKept DEF Transfer!Complete
      <4> QED BY <1>b, <4>6 DEF Transfer!Next
    <3> QED BY <3>2, <3>3
  <2> QED BY <1>7, <2>2, <2>3 DEF Complete
<1>8. CASE SendToUnzip
  <2>1. UNCHANGED disks /\ spoilt' = spoilt
    BY <1>8 DEF SendToUnzip
  <2> QED BY <2>1, PhaseKept, Stutters DEF disks
<1> QED BY <1>1, <1>2, <1>3, <1>4, <1>5, <1>6, <1>7, <1>8

\* The unzip thread: only a complete reception is delivered, with the whole zip in place unless
\* it is spoilt.
LEMMA RefinesUnZip ==
  ASSUME RInv, DataOK, UnZip
  PROVE  [Transfer!Next]_(Transfer!tvars)
<1>0. /\ TypeOK /\ rows \in Seq(Row) /\ DOMAIN rows \subseteq Name /\ disk \in [Name -> Seq(Item)]
  BY Surroundings DEF RInv, TInv
<1>1. zq # <<>>
  BY DEF RInv, Parts, ZipOK, UnZip, UnZipFile, Changename, DeleteZip
<1>2. Head(zq) = cur /\ cur \in DOMAIN rows /\ cur \in Name /\ rows[cur].complete
  BY <1>0, <1>1 DEF RInv, Parts, ZipOK
<1>3. CASE UnZipFile
  <2>1. rows' = rows /\ disk' = disk /\ spoilt' = spoilt
    BY <1>3 DEF UnZipFile, seen
  <2>2. CASE out' = out
    BY <2>1, <2>2, PhaseKept, Stutters
  <2>3. CASE out' # out
    <3>1. out' = out \cup {cur} /\ disk[cur] \in {<<Zip(TRUE)>>, <<Zip(FALSE)>>}
      BY <1>2, <1>3, <2>3 DEF UnZipFile
    <3>2. cur \notin spoilt => disk[cur] \in {<<>>, <<Zip(TRUE)>>}
      BY <1>1 DEF DataOK, ZipWhole
    <3>3. \A w \in BOOLEAN : <<Zip(w)>> # <<>>
      BY ZipLog, EmptyLog, Zenon
    <3>4. cur \in Whole \cup spoilt
      BY <1>2, <3>1, <3>2, <3>3 DEF Whole
    <3>5. Phase[cur] = "complete"
      BY <1>2, PhaseOf
    <3>6. Transfer!Deliver(cur)
      BY <2>1, <3>1, <3>4, <3>5, PhaseKept, DiskKept DEF Transfer!Deliver
    <3> QED BY <1>2, <3>6 DEF Transfer!Next
  <2> QED BY <2>2, <2>3
<1>4. CASE Changename
  <2>1. /\ disk' = disk /\ out' = out /\ (rows' = rows \/ rows' = [rows EXCEPT ![cur].name = Unzipped])
        /\ spoilt' = spoilt
    BY <1>4 DEF Changename, Die, NoThreads, seen
  <2>2. CASE rows' = rows
    BY <2>1, <2>2, PhaseKept, Stutters
  <2>3. CASE rows' = [rows EXCEPT ![cur].name = Unzipped]
    <3>1. /\ DOMAIN rows' = DOMAIN rows /\ rows'[cur].complete = rows[cur].complete
          /\ \A j \in DOMAIN rows : j # cur => rows'[j] = rows[j]
      BY <1>0, <1>2, <2>3, SetName
    <3>2. Phase' = Phase
      BY <3>1, PhaseKept
    <3> QED BY <2>1, <3>2, Stutters
  <2> QED BY <2>1, <2>2, <2>3
<1>5. CASE DeleteZip
  <2>1. rows' = rows /\ out' = out /\ disk' = [disk EXCEPT ![cur] = <<>>] /\ spoilt' = spoilt
    BY <1>2, <1>5 DEF DeleteZip, seen
  <2> QED BY <1>0, <1>2, <2>1, RefinesEmptied
<1> QED BY <1>3, <1>4, <1>5 DEF UnZip

\* The receiver implements resumable reception: packets are saved one at a time and never lost
\* singly, a row is completed and its file delivered only with the whole zip in place unless the
\* reception is spoilt, and only completed rows are unzipped.
THEOREM RefinesTransferHolds ==
  ASSUME DistinctOti
  PROVE  Spec => RefinesTransfer
<1>1. RInv /\ DataOK /\ [Next]_vars => [Transfer!Next]_(Transfer!tvars)
  <2> SUFFICES ASSUME RInv, DataOK, [Next]_vars PROVE [Transfer!Next]_(Transfer!tvars)
    OBVIOUS
  <2>1. CASE UNCHANGED vars
    <3>1. rows' = rows /\ disk' = disk /\ out' = out /\ spoilt' = spoilt
      BY <2>1 DEF vars, disks, seen
    <3> QED BY <3>1, PhaseKept, Stutters
  <2> QED BY <2>1, RefinesEnvironment, RefinesBegin, RefinesGoOn, RefinesUnZip DEF Next, RaptorQ
<1> QED BY RefinesInit, RInvInit, RInvNext, DataInit, DataNext, <1>1, PTL
        DEF Spec, RefinesTransfer, Transfer!Spec

=============================================================================
