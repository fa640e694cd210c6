-------------------------- MODULE TablesParserProofs --------------------------
(* Proofs about TablesParser, for sections of any number of entries and    *)
(* arrays of any length: the loops of parsePatTable and parsePmtTable read *)
(* a section entry by entry, parseTotTable reads the descriptors it was    *)
(* written for, no length leaves its 16 bits, and parseTdtTable finds the  *)
(* month and the year of every day that 16 bits can count.                 *)
EXTENDS TablesParser, TLAPS

-----------------------------------------------------------------------------
(* The inductive invariant, part by part.                                  *)

(* Only a parser that has seen no section yet has none.                    *)
SectionInv ==
  table \in Loops =>
    \/ section \in Sections[table]
    \/ section = NoSection /\ result = "none" /\ count = 0

(* The PAT and the PMT: the loop stands before the entry it counts to, and *)
(* has counted the CRC from the beginning.                                 *)
ListInv ==
  table \in {"pat", "pmt"} =>
    /\ CountedEntriesNew
    /\ result = "parsing" => /\ position = start[count + 1]
                             /\ parsedLength = position + 1
    /\ result = "ok" => count = Len(list)
    /\ result = "error" => Len(list) > MaxEntries[table]
    /\ result # "outside"

(* The TOT: what the array holds are bytes, whoever wrote them.            *)
ArrayInv ==
  table = "tot" =>
    \A i \in 0 .. MaxEntries["tot"] - 1 :
      array[i].length \in Byte /\ array[i].infos \in 0 .. 20

(* The TOT, on the sections that parseTotTable is made for: what is left   *)
(* to parse are the descriptors from here to the CRC, 15 bytes apart.      *)
TotInv ==
  table = "tot" /\ OneRegionEach /\ Len(list) <= MaxEntries["tot"] =>
    /\ result # "outside" /\ count <= Len(list)
    /\ \A i \in 1 .. count : array[i - 1].length = list[i].length
    /\ result = "parsing" =>
         /\ parsedLength = start[Len(list) + 1] - start[count + 1]
         /\ count < Len(list) => start[count + 1] = 10 + 15 * count
    /\ result = "ok" => count = Len(list)

(* The types of the loops' state.                                          *)
LoopType ==
  /\ table \in Loops \cup {"tdt"}
  /\ table \in Loops => /\ count \in 0 .. MaxEntries[table]
                        /\ DOMAIN array = 0 .. MaxEntries[table] - 1
  /\ result \in {"none", "parsing", "ok", "error", "outside"}
  /\ position \in Nat /\ parsedLength \in Bits16

LoopInv == LoopType /\ SectionInv /\ ListInv /\ ArrayInv /\ TotInv

-----------------------------------------------------------------------------
(* Facts about the sections and the fields.                                *)

(* Ranges, so that no proof looks into the large ones.                     *)
LEMMA OffsetRange == \A n \in Offsets : n \in Int /\ 0 <= n /\ n <= 4094
BY DEF Offsets

LEMMA ArrayLengths == \A t \in Loops : MaxEntries[t] \in Nat
<1>1. MaxEntries \in [Loops -> 1 .. 255]
  BY ParserConstants
<1> QED
  BY <1>1

LEMMA IsOffset == \A n \in Int : 0 <= n /\ n <= 4094 => n \in Offsets
BY DEF Offsets

LEMMA WordRange == \A n \in Bits16 : n \in Int /\ 0 <= n /\ n <= 65535
<1>1. UINT16_MAX = 65535
  BY DEF UINT16_MAX
<1> QED
  BY <1>1 DEF Bits16

LEMMA IsWord == \A n \in Int : 0 <= n /\ n <= 65535 => n \in Bits16
<1>1. \A n \in Int : n <= 65535 => n <= UINT16_MAX /\ UINT16_MAX \in Int
  BY DEF UINT16_MAX
<1> QED
  BY <1>1 DEF Bits16

LEMMA ByteRange == \A n \in Byte : n \in Int /\ 0 <= n /\ n <= 255
BY DEF Byte

LEMMA InfoRange == \A n \in Bits10 : n \in Int /\ 0 <= n /\ n <= 1023
BY DEF Bits10

(* The mask of a field gives back what the broadcaster has put there.      *)
LEMMA LengthDecodes == \A n \in Offsets : (45056 + n + 4 - 3) % 4096 = n + 1
BY DEF Offsets

LEMMA LoopLengthDecodes == \A n \in Offsets : (61440 + n) % 4096 = n
BY DEF Offsets

LEMMA PidDecodes == \A pid \in Bits13 : PidField(pid) % 8192 = pid
BY DEF Bits13, PidField

LEMMA InfoDecodes == \A n \in Bits10 : (61440 + n) % 4096 = n
BY DEF Bits10

(* An entry of the PAT or of the PMT is stored as it was sent.             *)
LEMMA EntryDecodes ==
  /\ \A e \in Services : parsePatServiceInfo(e) = e
  /\ \A e \in Elementaries : parsePmtElementaryInfo(e) = e
<1>1. ASSUME NEW e \in Services PROVE parsePatServiceInfo(e) = e
  <2>1. e.pid \in Bits13
    BY DEF Services
  <2>2. PidField(e.pid) % 8192 = e.pid
    BY <2>1, PidDecodes
  <2> QED
    BY <2>2 DEF Services, parsePatServiceInfo
<1>2. ASSUME NEW e \in Elementaries PROVE parsePmtElementaryInfo(e) = e
  <2>1. e.elementaryPid \in Bits13 /\ e.esInfoLength \in Bits10
    BY DEF Elementaries
  <2>2. /\ PidField(e.elementaryPid) % 8192 = e.elementaryPid
        /\ (61440 + e.esInfoLength) % 4096 = e.esInfoLength
    BY <2>1, PidDecodes, InfoDecodes
  <2> QED
    BY <2>2 DEF Elementaries, parsePmtElementaryInfo
<1> QED
  BY <1>1, <1>2

(* The offsets of a section that was received.                             *)
LEMMA Received ==
  ASSUME table \in Loops, section \in Sections[table]
  PROVE  /\ list \in Seq(Entries(table)) /\ Len(list) \in Nat
         /\ DOMAIN list = 1 .. Len(list)
         /\ section.info \in Bits10
         /\ \A i \in 1 .. Len(list) + 1 : start[i] \in Offsets
         /\ start[1] = FirstEntry(table, section.info)
         /\ \A i \in 1 .. Len(list) :
              start[i + 1] = start[i] + Size(table, list[i])
         /\ \A i, j \in 1 .. Len(list) + 1 : i < j => start[i] < start[j]
<1>1. WellFormed(table, section)
  BY ParserConstants
<1>2. list \in Seq(Entries(table)) /\ Len(list) \in Nat
  BY <1>1 DEF WellFormed, list
<1>3. DOMAIN list = 1 .. Len(list)
  BY <1>2
<1>4. DOMAIN start = 1 .. Len(list) + 1
  BY <1>1 DEF WellFormed, list, start
<1> QED
  BY <1>1, <1>2, <1>3, <1>4 DEF WellFormed, list, start

(* The entry at an offset is one only: no two begin at the same place.     *)
LEMMA OneEntryAt ==
  ASSUME table \in Loops, section \in Sections[table], NEW n \in Nat,
         n < Len(list)
  PROVE  EntriesAt(start[n + 1]) = {n + 1}
<1>1. n + 1 \in DOMAIN list
  BY Received
<1>2. ASSUME NEW i \in DOMAIN list, start[i] = start[n + 1] PROVE i = n + 1
  <2>1. i \in 1 .. Len(list) + 1 /\ n + 1 \in 1 .. Len(list) + 1
    BY Received
  <2>2. start[i] \in Int /\ start[n + 1] \in Int
    BY <2>1, Received, OffsetRange
  <2>3. /\ i < n + 1 => start[i] < start[n + 1]
        /\ n + 1 < i => start[n + 1] < start[i]
    BY <2>1, Received
  <2> QED
    BY <1>2, <2>1, <2>2, <2>3
<1> QED
  BY <1>1, <1>2 DEF EntriesAt

(* More says that the loop has not come to the CRC.                        *)
LEMMA MoreEntries ==
  ASSUME table \in Loops, section \in Sections[table], NEW n \in 0 .. Len(list),
         parsedLength = start[n + 1] + 1
  PROVE  More <=> n < Len(list)
<1>1. /\ Len(list) \in Nat
      /\ start[Len(list) + 1] \in Offsets /\ start[n + 1] \in Offsets
      /\ n < Len(list) => start[n + 1] < start[Len(list) + 1]
  BY Received
<1>2. LengthField % 4096 = start[Len(list) + 1] + 1
  BY <1>1, LengthDecodes DEF LengthField
<1> QED
  BY <1>1, <1>2, OffsetRange DEF More

-----------------------------------------------------------------------------
(* The steps.                                                              *)

LEMMA ParserSteps ==
  ASSUME [Next]_vars
  PROVE  \/ Receive
         \/ table = "pat" /\ parsePatTable
         \/ table = "pmt" /\ parsePmtTable
         \/ table = "tot" /\ parseTotTable
         \/ parseTdtTable
         \/ UNCHANGED vars
BY DEF Next, parsePatTable, parsePmtTable, parseTotTable

LEMMA ReceiveKeeps ==
  ASSUME LoopInv, Receive
  PROVE  LoopInv'
<1>0. /\ table \in Loops /\ table' = table /\ section' \in Sections[table']
      /\ count' = 0 /\ result' = "parsing" /\ array' = array
      /\ position' = FirstEntry(table, section'.info)
      /\ parsedLength' = ParseHeader'
  BY DEF Receive
<1>1. /\ list' \in Seq(Entries(table)) /\ Len(list') \in Nat
      /\ section'.info \in Bits10
      /\ \A i \in 1 .. Len(list') + 1 : start'[i] \in Offsets
      /\ start'[1] = FirstEntry(table, section'.info)
      /\ \A i, j \in 1 .. Len(list') + 1 : i < j => start'[i] < start'[j]
  <2>1. WellFormed(table, section')
    BY <1>0, ParserConstants
  <2>2. list' \in Seq(Entries(table)) /\ Len(list') \in Nat
    BY <2>1 DEF WellFormed, list
  <2>3. DOMAIN start' = 1 .. Len(list') + 1
    BY <2>1 DEF WellFormed, list, start
  <2> QED
    BY <2>1, <2>2, <2>3 DEF WellFormed, list, start
<1>2. InfoLengthField' % 4096 = section'.info
  BY <1>1, InfoDecodes DEF InfoLengthField
<1>3. table = "tot" =>
        LoopLengthField' % 4096 = start'[Len(list') + 1] - start'[1]
  <2> SUFFICES ASSUME table = "tot"
               PROVE  LoopLengthField' % 4096
                        = start'[Len(list') + 1] - start'[1]
    OBVIOUS
  <2>1. start'[1] = 10
    BY <1>1 DEF FirstEntry
  <2>2. start'[Len(list') + 1] - 10 \in Offsets
    <3>1. Len(list') + 1 \in 1 .. Len(list') + 1 /\ 1 \in 1 .. Len(list') + 1
      BY <1>1
    <3>2. Len(list') = 0 \/ start'[1] < start'[Len(list') + 1]
      BY <1>1, <3>1
    <3>3. start'[Len(list') + 1] \in Offsets
      BY <1>1, <3>1
    <3> QED
      BY <1>1, <2>1, <3>2, <3>3, OffsetRange, IsOffset
  <2>3. LoopLengthField' = 61440 + (start'[Len(list') + 1] - 10)
    BY <2>2 DEF LoopLengthField
  <2> QED
    BY <2>1, <2>2, <2>3, LoopLengthDecodes
<1>4. /\ table \in {"pat", "pmt"} => parsedLength' = start'[1] + 1
      /\ table = "tot" => parsedLength' = start'[Len(list') + 1] - start'[1]
  BY <1>0, <1>1, <1>2, <1>3 DEF ParseHeader, FirstEntry
<1>5. position' = start'[1] /\ position' \in Offsets
  BY <1>0, <1>1
<1>6. LoopType'
  <2>1. parsedLength' \in Bits16
    <3>1. start'[Len(list') + 1] \in Offsets
      BY <1>1
    <3>2. Len(list') = 0 \/ start'[1] < start'[Len(list') + 1]
      BY <1>1
    <3>3. start'[1] \in Offsets
      BY <1>1
    <3> QED
      BY <1>0, <1>4, <3>1, <3>2, <3>3, OffsetRange, IsWord DEF Loops
  <2>2. MaxEntries[table] \in Nat
    BY <1>0, ArrayLengths
  <2> QED
    BY <1>0, <1>5, <2>1, <2>2, OffsetRange DEF LoopInv, LoopType
<1>7. SectionInv'
  BY <1>0 DEF SectionInv
<1>8. ListInv'
  BY <1>0, <1>1, <1>4, <1>5 DEF ListInv, CountedEntriesNew
<1>9. ArrayInv'
  BY <1>0 DEF LoopInv, ArrayInv
<1>10. TotInv'
  BY <1>0, <1>1, <1>4 DEF TotInv, FirstEntry
<1> QED
  BY <1>6, <1>7, <1>8, <1>9, <1>10 DEF LoopInv

(* parsePatTable and parsePmtTable have the same loop: the entry after the *)
(* counted ones is stored as it was sent.                                  *)
LEMMA ListSteps ==
  ASSUME LoopInv, \/ table = "pat" /\ parsePatTable
                  \/ table = "pmt" /\ parsePmtTable
  PROVE  /\ table \in Loops /\ section \in Sections[table]
         /\ result = "parsing"
         /\ \/ count = Len(list) /\ Finish("ok")
            \/ /\ count < Len(list) /\ count = MaxEntries[table]
               /\ Finish("error")
            \/ /\ count < Len(list) /\ count < MaxEntries[table]
               /\ Store(list[count + 1], Size(table, list[count + 1]))
<1>1. table \in {"pat", "pmt"} /\ table \in Loops /\ result = "parsing"
  BY DEF parsePatTable, parsePmtTable, Loops
<1>2. section \in Sections[table]
  BY <1>1 DEF LoopInv, SectionInv
<1>3. /\ MaxEntries[table] \in Nat /\ count \in 0 .. MaxEntries[table]
      /\ Len(list) \in Nat /\ count \in 0 .. Len(list)
      /\ position = start[count + 1] /\ parsedLength = position + 1
  <2>1. MaxEntries[table] \in Nat
    BY <1>1, ArrayLengths
  <2>2. Len(list) \in Nat
    BY <1>1, <1>2, Received
  <2>3. count \in 0 .. MaxEntries[table]
    BY <1>1 DEF LoopInv, LoopType
  <2>4. /\ count <= Len(list)
        /\ position = start[count + 1] /\ parsedLength = position + 1
    BY <1>1 DEF LoopInv, ListInv, CountedEntriesNew
  <2>5. count \in 0 .. Len(list)
    BY <2>1, <2>2, <2>3, <2>4
  <2> QED
    BY <2>1, <2>2, <2>3, <2>4, <2>5
<1>4. /\ More <=> count < Len(list)
      /\ Full <=> count = MaxEntries[table]
  <2>1. More <=> count < Len(list)
    BY <1>1, <1>2, <1>3, MoreEntries
  <2>2. Full <=> count = MaxEntries[table]
    BY <1>3 DEF Full
  <2> QED
    BY <2>1, <2>2
<1>5. ASSUME count < Len(list) PROVE EntriesAt(position) = {count + 1}
  <2>1. count \in Nat
    BY <1>3
  <2> QED
    BY <1>1, <1>2, <1>3, <1>5, <2>1, OneEntryAt
<1>6. CASE table = "pat" /\ parsePatTable
  <2>1. ASSUME count < Len(list)
        PROVE  /\ parsePatServiceInfo(list[count + 1]) = list[count + 1]
               /\ Size(table, list[count + 1]) = 4
    <3>1. list \in Seq(Services)
      BY <1>1, <1>2, <1>6, Received DEF Entries
    <3>2. list[count + 1] \in Services
      BY <1>3, <2>1, <3>1
    <3> QED
      BY <1>6, <3>2, EntryDecodes DEF Size
  <2>2. \/ ~More /\ Finish("ok")
        \/ More /\ Full /\ Finish("error")
        \/ /\ More /\ ~Full
           /\ \E i \in EntriesAt(position) :
                Store(parsePatServiceInfo(list[i]), 4)
    BY <1>6 DEF parsePatTable
  <2>3. ASSUME More, ~Full, NEW i \in EntriesAt(position),
               Store(parsePatServiceInfo(list[i]), 4)
        PROVE  Store(list[count + 1], Size(table, list[count + 1]))
    <3>1. i = count + 1
      BY <1>4, <1>5, <2>3
    <3> QED
      BY <1>4, <2>1, <2>3, <3>1
  <2> QED
    BY <1>1, <1>2, <1>3, <1>4, <2>2, <2>3
<1>7. CASE table = "pmt" /\ parsePmtTable
  <2>1. ASSUME count < Len(list)
        PROVE  /\ parsePmtElementaryInfo(list[count + 1]) = list[count + 1]
               /\ Size(table, list[count + 1])
                    = 5 + list[count + 1].esInfoLength
    <3>1. list \in Seq(Elementaries)
      BY <1>1, <1>2, <1>7, Received DEF Entries
    <3>2. list[count + 1] \in Elementaries
      BY <1>3, <2>1, <3>1
    <3> QED
      BY <1>7, <3>2, EntryDecodes DEF Size
  <2>2. \/ ~More /\ Finish("ok")
        \/ More /\ Full /\ Finish("error")
        \/ /\ More /\ ~Full
           /\ \E i \in EntriesAt(position) :
                Store(parsePmtElementaryInfo(list[i]),
                      5 + parsePmtElementaryInfo(list[i]).esInfoLength)
    BY <1>7 DEF parsePmtTable
  <2>3. ASSUME More, ~Full, NEW i \in EntriesAt(position),
               Store(parsePmtElementaryInfo(list[i]),
                     5 + parsePmtElementaryInfo(list[i]).esInfoLength)
        PROVE  Store(list[count + 1], Size(table, list[count + 1]))
    <3>1. i = count + 1
      BY <1>4, <1>5, <2>3
    <3> QED
      BY <1>4, <2>1, <2>3, <3>1
  <2> QED
    BY <1>1, <1>2, <1>3, <1>4, <2>2, <2>3
<1> QED
  BY <1>6, <1>7

LEMMA ListKeeps ==
  ASSUME LoopInv, \/ table = "pat" /\ parsePatTable
                  \/ table = "pmt" /\ parsePmtTable
  PROVE  LoopInv'
<1>1. /\ table \in {"pat", "pmt"} /\ table \in Loops
      /\ section \in Sections[table] /\ result = "parsing"
  BY ListSteps
<1>2. /\ MaxEntries[table] \in Nat /\ count \in 0 .. MaxEntries[table]
      /\ DOMAIN array = 0 .. MaxEntries[table] - 1
      /\ position \in Nat /\ parsedLength \in Bits16
  BY <1>1, ArrayLengths DEF LoopInv, LoopType
<1>3. /\ Len(list) \in Nat /\ count <= Len(list)
      /\ \A i \in 1 .. count : array[i - 1] = list[i]
      /\ position = start[count + 1] /\ parsedLength = position + 1
  <2>1. Len(list) \in Nat
    BY <1>1, Received
  <2> QED
    BY <1>1, <2>1 DEF LoopInv, ListInv, CountedEntriesNew
<1>4. ASSUME NEW r \in {"ok", "error"}, Finish(r),
             r = "ok" => count = Len(list),
             r = "error" => Len(list) > MaxEntries[table]
      PROVE  LoopInv'
  <2>1. /\ UNCHANGED <<table, section, position, parsedLength, count, array>>
        /\ result' = r
    BY <1>4 DEF Finish
  <2>2. LoopType' /\ SectionInv'
    BY <1>1, <1>4, <2>1 DEF LoopInv, LoopType, SectionInv
  <2>3. ListInv'
    BY <1>3, <1>4, <2>1 DEF ListInv, CountedEntriesNew, list, start
  <2>4. ArrayInv' /\ TotInv'
    BY <1>1, <2>1 DEF ArrayInv, TotInv
  <2> QED
    BY <2>2, <2>3, <2>4 DEF LoopInv
<1>5. ASSUME count < Len(list), count < MaxEntries[table],
             Store(list[count + 1], Size(table, list[count + 1]))
      PROVE  LoopInv'
  <2>1. /\ UNCHANGED <<table, section, result>> /\ count' = count + 1
        /\ array' = [array EXCEPT ![count] = list[count + 1]]
        /\ position' = position + Size(table, list[count + 1])
        /\ parsedLength' = parsedLength + Size(table, list[count + 1])
    BY <1>5 DEF Store
  <2>2. /\ start[count + 2] = start[count + 1] + Size(table, list[count + 1])
        /\ start[count + 2] \in Int /\ start[count + 1] \in Int
        /\ 0 <= start[count + 2] /\ start[count + 2] <= 4094
    <3>1. count + 1 \in 1 .. Len(list) /\ count + 2 \in 1 .. Len(list) + 1
      BY <1>2, <1>3, <1>5
    <3>2. start[(count + 1) + 1]
            = start[count + 1] + Size(table, list[count + 1])
      BY <1>1, <3>1, Received
    <3>3. start[count + 2] \in Offsets /\ start[count + 1] \in Offsets
      BY <1>1, <3>1, Received
    <3>4. (count + 1) + 1 = count + 2
      BY <1>2
    <3> QED
      BY <3>2, <3>3, <3>4, OffsetRange
  <2>3. Size(table, list[count + 1]) \in Int
    <3>1. list[count + 1] \in Entries(table)
      BY <1>1, <1>2, <1>3, <1>5, Received
    <3>2. CASE table = "pat"
      BY <3>2 DEF Size
    <3>3. CASE table = "pmt"
      <4>1. list[count + 1].esInfoLength \in Bits10
        BY <3>1, <3>3 DEF Entries, Elementaries
      <4> QED
        BY <3>3, <4>1, InfoRange DEF Size
    <3> QED
      BY <1>1, <3>2, <3>3
  <2>4. position' = start[count + 2] /\ parsedLength' = position' + 1
    BY <1>2, <1>3, <2>1, <2>2, <2>3
  <2>5. LoopType' /\ SectionInv'
    <3>1. position' \in Nat /\ parsedLength' \in Bits16
      BY <2>2, <2>4, IsWord
    <3>2. count' \in 0 .. MaxEntries[table] /\ DOMAIN array' = DOMAIN array
      BY <1>2, <1>5, <2>1
    <3> QED
      BY <1>1, <1>2, <2>1, <3>1, <3>2 DEF LoopType, SectionInv
  <2>6. CountedEntriesNew'
    <3>1. \A i \in 1 .. count + 1 : array'[i - 1] = list[i]
      BY <1>2, <1>3, <1>5, <2>1
    <3>2. list' = list /\ count' <= Len(list)
      BY <1>2, <1>3, <1>5, <2>1 DEF list
    <3> QED
      BY <2>1, <3>1, <3>2 DEF CountedEntriesNew
  <2>7. ListInv'
    <3>1. start' = start /\ count' + 1 = count + 2
      BY <1>2, <2>1 DEF start
    <3> QED
      BY <1>1, <2>1, <2>4, <2>6, <3>1 DEF ListInv
  <2>8. ArrayInv' /\ TotInv'
    BY <1>1, <2>1 DEF ArrayInv, TotInv
  <2> QED
    BY <2>5, <2>7, <2>8 DEF LoopInv
<1> QED
  BY <1>2, <1>3, <1>4, <1>5, ListSteps

-----------------------------------------------------------------------------
(* parseTotTable.                                                          *)

ForParser == OneRegionEach /\ Len(list) <= MaxEntries["tot"]

(* From the offset a of a descriptor of n bytes to that of the CRC, z.     *)
LEMMA Shrinks ==
  ASSUME NEW a \in Int, NEW z \in Int, NEW n \in Int, n >= 13, 0 <= a,
         z <= 4094, a + 2 + n <= z
  PROVE  /\ z - a >= 15 /\ z - a <= 4094
         /\ (z - a) - (n + 2) = z - (a + 2 + n)
         /\ ((z - a) - (n + 2)) % 65536 = z - (a + 2 + n)
<1>1. /\ z - a >= 15 /\ z - a <= 4094
      /\ (z - a) - (n + 2) = z - (a + 2 + n)
  OBVIOUS
<1>2. \A m \in Int : 0 <= m /\ m <= 4094 => m % 65536 = m
  OBVIOUS
<1>3. /\ z - (a + 2 + n) \in Int /\ 0 <= z - (a + 2 + n)
      /\ z - (a + 2 + n) <= 4094
  OBVIOUS
<1> QED
  BY <1>1, <1>2, <1>3

(* On a section it is made for, the loop goes on exactly until the CRC.    *)
LEMMA TotBounds ==
  ASSUME LoopInv, table = "tot", result = "parsing", ForParser
  PROVE  /\ Len(list) \in Nat /\ count \in 0 .. Len(list)
         /\ parsedLength = start[Len(list) + 1] - start[count + 1]
         /\ count = Len(list) => parsedLength = 0
         /\ count < Len(list) =>
              /\ list[count + 1].tag = LtoTag
              /\ list[count + 1].length \in Int
              /\ list[count + 1].length >= 13
              /\ start[count + 2]
                   = start[count + 1] + 2 + list[count + 1].length
              /\ start[count + 2] <= start[Len(list) + 1]
              /\ parsedLength >= 15 /\ parsedLength <= 4094
<1>1. table \in Loops /\ section \in Sections[table]
  BY DEF LoopInv, SectionInv, Loops
<1>2. /\ count <= Len(list)
      /\ parsedLength = start[Len(list) + 1] - start[count + 1]
  BY DEF LoopInv, TotInv, ForParser
<1>3. Len(list) \in Nat /\ count \in 0 .. Len(list)
  <2>1. Len(list) \in Nat
    BY <1>1, Received
  <2>2. count \in 0 .. MaxEntries[table] /\ MaxEntries[table] \in Nat
    BY <1>1, ArrayLengths DEF LoopInv, LoopType
  <2> QED
    BY <1>2, <2>1, <2>2
<1>4. /\ start[Len(list) + 1] \in Offsets /\ start[count + 1] \in Offsets
  BY <1>1, <1>3, Received
<1>5. count = Len(list) => parsedLength = 0
  BY <1>2, <1>4, OffsetRange
<1>6. ASSUME count < Len(list)
      PROVE  /\ list[count + 1].tag = LtoTag
             /\ list[count + 1].length \in Int
             /\ list[count + 1].length >= 13
             /\ start[count + 2]
                  = start[count + 1] + 2 + list[count + 1].length
             /\ start[count + 2] <= start[Len(list) + 1]
             /\ parsedLength >= 15 /\ parsedLength <= 4094
  <2>1. count + 1 \in DOMAIN list /\ count + 1 \in 1 .. Len(list)
    BY <1>1, <1>3, <1>6, Received
  <2>2. list[count + 1].tag = LtoTag /\ list[count + 1].length >= 13
    BY <2>1 DEF ForParser, OneRegionEach
  <2>3. list[count + 1].length \in Int
    <3>1. list \in Seq(Descriptors)
      BY <1>1, Received DEF Entries
    <3>2. list[count + 1] \in Descriptors
      BY <2>1, <3>1
    <3> QED
      BY <3>2, ByteRange DEF Descriptors
  <2>4. start[(count + 1) + 1] = start[count + 1] + Size("tot", list[count + 1])
    BY <1>1, <2>1, Received
  <2>5. (count + 1) + 1 = count + 2
    BY <1>3
  <2>6. Size("tot", list[count + 1]) = 2 + list[count + 1].length
    BY DEF Size
  <2>7. start[count + 2] \in Offsets
    BY <1>1, <1>3, <1>6, Received
  <2>8. count + 2 = Len(list) + 1 \/ start[count + 2] < start[Len(list) + 1]
    BY <1>1, <1>3, <1>6, Received
  <2>9. start[count + 2] = start[count + 1] + 2 + list[count + 1].length
    <3>1. start[count + 2] = start[count + 1] + (2 + list[count + 1].length)
      BY <2>4, <2>5, <2>6
    <3>2. start[count + 1] \in Int
      BY <1>4, OffsetRange
    <3> QED
      BY <2>3, <3>1, <3>2
  <2>10. start[count + 2] <= start[Len(list) + 1]
    BY <1>4, <2>7, <2>8, OffsetRange
  <2>11. parsedLength >= 15 /\ parsedLength <= 4094
    <3> DEFINE a == start[count + 1]
               z == start[Len(list) + 1]
               n == list[count + 1].length
    <3>1. /\ a \in Int /\ z \in Int /\ n \in Int
          /\ n >= 13 /\ 0 <= a /\ z <= 4094
      BY <1>4, <2>2, <2>3, OffsetRange
    <3>2. a + 2 + n <= z
      BY <2>9, <2>10
    <3>3. parsedLength = z - a
      BY <1>2
    <3> HIDE DEF a, z, n
    <3> QED
      BY <3>1, <3>2, <3>3
  <2> QED
    BY <2>2, <2>3, <2>9, <2>10, <2>11
<1> QED
  BY <1>2, <1>3, <1>5, <1>6

(* A round of the loop: the element is one of the array, what it holds are *)
(* bytes, and the length that is left stays in its 16 bits.                *)
LEMMA DescriptorTyped ==
  ASSUME LoopInv, table = "tot", result = "parsing", ~Full,
         NEW tag, NEW length \in Byte, Descriptor(tag, length)
  PROVE  LoopType' /\ SectionInv' /\ ListInv' /\ ArrayInv'
<1>1. /\ MaxEntries["tot"] \in Nat /\ count \in 0 .. MaxEntries["tot"] - 1
      /\ DOMAIN array = 0 .. MaxEntries["tot"] - 1
      /\ parsedLength \in Bits16
  <2>1. "tot" \in Loops
    BY DEF Loops
  <2>2. MaxEntries["tot"] \in Nat
    BY <2>1, ArrayLengths
  <2> QED
    BY <2>1, <2>2 DEF LoopInv, LoopType, Full
<1>2. /\ UNCHANGED <<table, section, result, position>> /\ count' = count + 1
      /\ parsedLength' = (parsedLength - (array'[count].length + 2)) % 65536
      /\ array' = IF tag = LtoTag
                  THEN [array EXCEPT ![count] = [tag |-> tag, length |-> length,
                                                 infos |-> length \div 13]]
                  ELSE array
  BY DEF Descriptor, DescriptorSpan
<1>3. length \div 13 \in 0 .. 20
  BY ByteRange
<1>4. /\ DOMAIN array' = DOMAIN array
      /\ \A i \in 0 .. MaxEntries["tot"] - 1 :
           array'[i].length \in Byte /\ array'[i].infos \in 0 .. 20
  <2>1. \A i \in 0 .. MaxEntries["tot"] - 1 :
          array[i].length \in Byte /\ array[i].infos \in 0 .. 20
    BY DEF LoopInv, ArrayInv
  <2>2. CASE tag = LtoTag
    <3>1. /\ DOMAIN array' = DOMAIN array
          /\ array'[count].length = length
          /\ array'[count].infos = length \div 13
          /\ \A i \in DOMAIN array : i # count => array'[i] = array[i]
      BY <1>1, <1>2, <2>2
    <3> QED
      BY <1>1, <1>3, <2>1, <3>1
  <2>3. CASE tag # LtoTag
    BY <1>1, <1>2, <2>1, <2>3
  <2> QED
    BY <2>2, <2>3
<1>5. parsedLength' \in Bits16
  <2>1. array'[count].length \in Int /\ parsedLength \in Int
    BY <1>1, <1>4, ByteRange, WordRange
  <2>2. \A n \in Int : n % 65536 \in Int /\ 0 <= n % 65536
                       /\ n % 65536 <= 65535
    OBVIOUS
  <2>3. parsedLength - (array'[count].length + 2) \in Int
    BY <2>1
  <2> QED
    BY <1>2, <2>2, <2>3, IsWord
<1>6. LoopType'
  BY <1>1, <1>2, <1>4, <1>5 DEF LoopInv, LoopType
<1>7. SectionInv' /\ ListInv' /\ ArrayInv'
  BY <1>2, <1>4 DEF LoopInv, SectionInv, ListInv, ArrayInv
<1> QED
  BY <1>6, <1>7

(* A round that finds a local time offset descriptor stores its length.    *)
LEMMA LtoStored ==
  ASSUME NEW n, Descriptor(LtoTag, n), count \in DOMAIN array
  PROVE  /\ UNCHANGED <<table, section, result>> /\ count' = count + 1
         /\ array'[count].length = n
         /\ \A j \in DOMAIN array : j # count => array'[j] = array[j]
         /\ parsedLength' = (parsedLength - (array'[count].length + 2)) % 65536
<1>1. array' = [array EXCEPT ![count] = [tag |-> LtoTag, length |-> n,
                                         infos |-> n \div 13]]
  BY DEF Descriptor
<1>2. /\ array'[count].length = n
      /\ \A j \in DOMAIN array : j # count => array'[j] = array[j]
  BY <1>1
<1> QED
  BY <1>2 DEF Descriptor, DescriptorSpan

(* On a section it is made for, the round reads the next descriptor, and   *)
(* what is left to parse shrinks by its length.                            *)
LEMMA DescriptorRead ==
  ASSUME LoopInv, table = "tot", result = "parsing", ~Full, parsedLength > 4,
         ForParser, NEW i \in EntriesAt(10 + 15 * count),
         Descriptor(list[i].tag, list[i].length)
  PROVE  TotInv'
<1>1. /\ Len(list) \in Nat /\ count \in 0 .. Len(list) /\ count < Len(list)
      /\ parsedLength = start[Len(list) + 1] - start[count + 1]
  BY TotBounds
<1>2. /\ list[count + 1].tag = LtoTag
      /\ list[count + 1].length \in Int
      /\ list[count + 1].length >= 13
      /\ start[count + 2] = start[count + 1] + 2 + list[count + 1].length
      /\ start[count + 2] <= start[Len(list) + 1]
      /\ parsedLength >= 15 /\ parsedLength <= 4094
  BY <1>1, TotBounds
<1>3. start[count + 1] = 10 + 15 * count
  BY <1>1 DEF LoopInv, TotInv, ForParser
<1>4. table \in Loops /\ section \in Sections[table]
  BY DEF LoopInv, SectionInv, Loops
<1>5. i = count + 1
  <2>1. EntriesAt(start[count + 1]) = {count + 1}
    <3>1. count \in Nat
      BY <1>1
    <3> QED
      BY <1>1, <1>4, <3>1, OneEntryAt
  <2> QED
    BY <1>3, <2>1
<1>6. count \in DOMAIN array
  <2>1. MaxEntries["tot"] \in Nat
    BY ArrayLengths DEF Loops
  <2> QED
    BY <1>4, <2>1 DEF LoopInv, LoopType, Full
<1>7. /\ UNCHANGED <<table, section, result>> /\ count' = count + 1
      /\ array'[count].length = list[count + 1].length
      /\ \A j \in DOMAIN array : j # count => array'[j] = array[j]
      /\ parsedLength' = (parsedLength - (array'[count].length + 2)) % 65536
  <2>1. Descriptor(LtoTag, list[count + 1].length)
    BY <1>2, <1>5
  <2> QED
    BY <1>6, <2>1, LtoStored
<1>8. array'[count].length = list[count + 1].length
  BY <1>7
<1>9. parsedLength' = start[Len(list) + 1] - start[count + 2]
  <2>1. start[count + 1] \in Offsets /\ start[Len(list) + 1] \in Offsets
    BY <1>1, <1>4, Received
  <2>2. /\ start[count + 1] \in Int /\ 0 <= start[count + 1]
        /\ start[Len(list) + 1] \in Int /\ start[Len(list) + 1] <= 4094
    BY <2>1, OffsetRange
  <2>3. ((start[Len(list) + 1] - start[count + 1])
           - (list[count + 1].length + 2)) % 65536
          = start[Len(list) + 1]
              - (start[count + 1] + 2 + list[count + 1].length)
    <3> DEFINE a == start[count + 1]
               z == start[Len(list) + 1]
               n == list[count + 1].length
    <3>1. /\ a \in Int /\ z \in Int /\ n \in Int
          /\ n >= 13 /\ 0 <= a /\ z <= 4094 /\ a + 2 + n <= z
      BY <1>2, <2>2
    <3> HIDE DEF a, z, n
    <3>2. ((z - a) - (n + 2)) % 65536 = z - (a + 2 + n)
      BY <3>1, Shrinks
    <3> QED
      BY <3>2 DEF a, z, n
  <2> QED
    BY <1>1, <1>2, <1>7, <1>8, <2>3
<1>10. \A j \in 1 .. count + 1 : array'[j - 1].length = list[j].length
  <2>1. \A j \in 1 .. count : array[j - 1].length = list[j].length
    BY DEF LoopInv, TotInv, ForParser
  <2>2. \A j \in 1 .. count : array'[j - 1] = array[j - 1]
    <3>1. count \in 0 .. MaxEntries["tot"] - 1 /\ MaxEntries["tot"] \in Nat
          /\ DOMAIN array = 0 .. MaxEntries["tot"] - 1
      <4>1. MaxEntries["tot"] \in Nat
        BY ArrayLengths DEF Loops
      <4> QED
        BY <1>4, <4>1 DEF LoopInv, LoopType, Full
    <3>2. \A j \in 1 .. count : j - 1 \in DOMAIN array /\ j - 1 # count
      BY <3>1
    <3> QED
      BY <1>7, <3>2
  <2>3. \A j \in 1 .. count + 1 : j \in 1 .. count \/ j = count + 1
    BY <1>1
  <2>4. (count + 1) - 1 = count
    BY <1>1
  <2> QED
    BY <1>8, <2>1, <2>2, <2>3, <2>4
<1>11. count + 1 < Len(list) => start[count + 2] = 10 + 15 * (count + 1)
  <2> SUFFICES ASSUME count + 1 < Len(list)
               PROVE  start[count + 2] = 10 + 15 * (count + 1)
    OBVIOUS
  <2>1. list[count + 1].length = 13
    <3>1. count + 1 \in DOMAIN list /\ Len(list) # 1
      BY <1>1, <1>4, Received
    <3> QED
      BY <3>1 DEF ForParser, OneRegionEach
  <2> QED
    BY <1>1, <1>2, <1>3, <2>1
<1>12. list' = list /\ start' = start /\ count' + 1 = count + 2
  BY <1>1, <1>7 DEF list, start
<1> QED
  BY <1>1, <1>7, <1>9, <1>10, <1>11, <1>12 DEF TotInv

(* A round of parseTotTable, or its end.                                   *)
LEMMA TotKeeps ==
  ASSUME LoopInv, table = "tot", parseTotTable
  PROVE  LoopInv'
<1>1. result = "parsing" /\ table \in Loops /\ section \in Sections[table]
  BY DEF LoopInv, SectionInv, Loops, parseTotTable
<1>2. ASSUME NEW r \in {"ok", "outside"}, Finish(r),
             ForParser => r = "ok" /\ count = Len(list)
      PROVE  LoopInv'
  <2>1. /\ UNCHANGED <<table, section, position, parsedLength, count, array>>
        /\ result' = r
    BY <1>2 DEF Finish
  <2>2. LoopType' /\ SectionInv'
    BY <1>1, <1>2, <2>1 DEF LoopInv, LoopType, SectionInv
  <2>3. ListInv' /\ ArrayInv'
    BY <2>1 DEF LoopInv, ListInv, ArrayInv
  <2>4. TotInv'
    BY <1>2, <2>1 DEF LoopInv, TotInv, ForParser, OneRegionEach, list
  <2> QED
    BY <2>2, <2>3, <2>4 DEF LoopInv
<1>3. ASSUME NEW tag, NEW length \in Byte, Descriptor(tag, length), ~Full,
             ForParser => TotInv'
      PROVE  LoopInv'
  <2>1. LoopType' /\ SectionInv' /\ ListInv' /\ ArrayInv'
    BY <1>1, <1>3, DescriptorTyped
  <2>2. TotInv'
    <3>1. CASE ForParser
      BY <1>3, <3>1
    <3>2. CASE ~ForParser
      <4>1. UNCHANGED <<table, section>>
        BY <1>3 DEF Descriptor
      <4> QED
        BY <3>2, <4>1 DEF TotInv, ForParser, OneRegionEach, list
    <3> QED
      BY <3>1, <3>2
  <2> QED
    BY <2>1, <2>2 DEF LoopInv
<1>4. /\ MaxEntries["tot"] \in Nat /\ count \in 0 .. MaxEntries["tot"]
      /\ parsedLength \in Int
  <2>1. MaxEntries["tot"] \in Nat
    BY ArrayLengths DEF Loops
  <2> QED
    BY <1>1, <2>1, WordRange DEF LoopInv, LoopType
<1>5. ASSUME ForParser
      PROVE  parsedLength > 4 => count < Len(list) /\ ~Full
                                 /\ EntriesAt(10 + 15 * count) = {count + 1}
  <2> SUFFICES ASSUME parsedLength > 4
               PROVE  count < Len(list) /\ ~Full
                      /\ EntriesAt(10 + 15 * count) = {count + 1}
    OBVIOUS
  <2>1. Len(list) \in Nat /\ count \in 0 .. Len(list) /\ count < Len(list)
    <3>1. /\ Len(list) \in Nat /\ count \in 0 .. Len(list)
          /\ count = Len(list) => parsedLength = 0
      BY <1>1, <1>5, TotBounds
    <3> QED
      BY <3>1
  <2>2. ~Full
    BY <1>4, <1>5, <2>1 DEF Full, ForParser
  <2>3. start[count + 1] = 10 + 15 * count
    BY <1>1, <1>5, <2>1 DEF LoopInv, TotInv, ForParser
  <2>4. EntriesAt(start[count + 1]) = {count + 1}
    <3>1. count \in Nat
      BY <2>1
    <3> QED
      BY <1>1, <2>1, <3>1, OneEntryAt
  <2> QED
    BY <2>1, <2>2, <2>3, <2>4
<1>6. ASSUME parsedLength <= 4, Finish("ok") PROVE LoopInv'
  <2>1. ASSUME ForParser PROVE count = Len(list)
    <3>1. /\ Len(list) \in Nat /\ count \in 0 .. Len(list)
          /\ count < Len(list) => parsedLength >= 15
      BY <1>1, <2>1, TotBounds
    <3> QED
      BY <1>4, <1>6, <3>1
  <2> QED
    BY <1>2, <1>6, <2>1
<1>7. ASSUME parsedLength > 4, Full, Finish("outside") PROVE LoopInv'
  BY <1>2, <1>5, <1>7
<1>8. ASSUME parsedLength > 4, ~Full, NEW i \in EntriesAt(10 + 15 * count),
             Descriptor(list[i].tag, list[i].length)
      PROVE  LoopInv'
  <2>1. list[i].length \in Byte
    <3>1. list \in Seq(Descriptors) /\ i \in DOMAIN list
      BY <1>1, <1>8, Received DEF Entries, EntriesAt
    <3>2. list[i] \in Descriptors
      BY <3>1
    <3> QED
      BY <3>2 DEF Descriptors
  <2>2. ForParser => TotInv'
    BY <1>1, <1>8, DescriptorRead
  <2> QED
    BY <1>3, <1>8, <2>1, <2>2
<1>9. ASSUME parsedLength > 4, ~Full, EntriesAt(10 + 15 * count) = {},
             NEW tag \in Bytes, NEW length \in Bytes, Descriptor(tag, length)
      PROVE  LoopInv'
  <2>1. ~ForParser
    BY <1>5, <1>9
  <2>2. length \in Byte
    BY ParserConstants
  <2> QED
    BY <1>3, <1>9, <2>1, <2>2
<1> QED
  BY <1>6, <1>7, <1>8, <1>9 DEF parseTotTable

-----------------------------------------------------------------------------
(* The invariant holds.                                                    *)

LEMMA LoopInvInit == Init => LoopInv
<1> SUFFICES ASSUME Init PROVE LoopInv
  OBVIOUS
<1>1. /\ table \in Loops \cup {"tdt"} /\ section = NoSection
      /\ result = "none" /\ position = 0 /\ parsedLength = 0 /\ count = 0
      /\ table \in Loops => array = [i \in 0 .. MaxEntries[table] - 1 |-> Zero]
  BY DEF Init, Loops
<1>2. \A t \in Loops : MaxEntries[t] \in Nat
  BY ArrayLengths
<1>3. LoopType
  <2>1. parsedLength \in Bits16
    BY <1>1, IsWord
  <2> QED
    BY <1>1, <1>2, <2>1 DEF LoopType
<1>4. list = <<>> /\ Len(list) = 0
  BY <1>1 DEF list, NoSection
<1>5. SectionInv /\ ListInv
  BY <1>1, <1>4 DEF SectionInv, ListInv, CountedEntriesNew
<1>6. ArrayInv
  <2> SUFFICES ASSUME table = "tot" PROVE ArrayInv
    BY DEF ArrayInv
  <2>1. Zero = [tag |-> 0, length |-> 0, infos |-> 0]
    BY DEF Zero
  <2>2. array = [i \in 0 .. MaxEntries["tot"] - 1 |-> Zero]
    BY <1>1 DEF Loops
  <2>3. 0 \in Byte /\ 0 \in 0 .. 20
    BY DEF Byte
  <2> QED
    BY <2>1, <2>2, <2>3 DEF ArrayInv
<1>7. TotInv
  BY <1>1, <1>4 DEF TotInv
<1> QED
  BY <1>3, <1>5, <1>6, <1>7 DEF LoopInv

LEMMA LoopInvStep == LoopInv /\ [Next]_vars => LoopInv'
<1> SUFFICES ASSUME LoopInv, [Next]_vars PROVE LoopInv'
  OBVIOUS
<1>1. CASE Receive
  BY <1>1, ReceiveKeeps
<1>2. CASE (table = "pat" /\ parsePatTable) \/ (table = "pmt" /\ parsePmtTable)
  BY <1>2, ListKeeps
<1>3. CASE table = "tot" /\ parseTotTable
  BY <1>3, TotKeeps
<1>4. CASE parseTdtTable \/ UNCHANGED vars
  <2>1. UNCHANGED <<table, section, result, position, parsedLength, count, array>>
    BY <1>4 DEF parseTdtTable, vars, loop
  <2>2. list' = list /\ start' = start
    BY <2>1 DEF list, start
  <2>3. LoopType' /\ SectionInv'
    BY <2>1 DEF LoopInv, LoopType, SectionInv
  <2>4. ListInv' /\ ArrayInv'
    BY <2>1, <2>2 DEF LoopInv, ListInv, CountedEntriesNew, ArrayInv
  <2>5. TotInv'
    BY <2>1, <2>2 DEF LoopInv, TotInv, OneRegionEach
  <2> QED
    BY <2>3, <2>4, <2>5 DEF LoopInv
<1> QED
  BY <1>1, <1>2, <1>3, <1>4, ParserSteps

LEMMA LoopInvHolds == Spec => []LoopInv
BY LoopInvInit, LoopInvStep, PTL DEF Spec

(* parsePatTable and parsePmtTable, for arrays and sections of any length: *)
(* the counted entries are those of the section that is parsed, and the    *)
(* parser ends with all of them, or gives up exactly if the array is too   *)
(* short.                                                                  *)
THEOREM ListsAreParsed == Spec => []ListsParsed
<1>1. LoopInv => ListsParsed
  <2> SUFFICES ASSUME LoopInv, table \in {"pat", "pmt"}
               PROVE  CountedEntriesNew /\ SectionParsed
    BY DEF ListsParsed
  <2>1. CountedEntriesNew
    BY DEF LoopInv, ListInv
  <2>2. ASSUME result = "parsing", More, ~Full
        PROVE  EntriesAt(position) # {}
    <3>1. table \in Loops /\ section \in Sections[table]
      BY <2>2 DEF LoopInv, SectionInv, Loops
    <3>2. Len(list) \in Nat /\ MaxEntries[table] \in Nat
      BY <3>1, Received, ArrayLengths
    <3>3. count \in 0 .. Len(list)
      BY <2>1, <3>1, <3>2 DEF LoopInv, LoopType, CountedEntriesNew
    <3>4. position = start[count + 1] /\ parsedLength = start[count + 1] + 1
      BY <2>2 DEF LoopInv, ListInv
    <3>5. count < Len(list)
      BY <2>2, <3>1, <3>3, <3>4, MoreEntries
    <3>6. count \in Nat
      BY <3>3
    <3>7. EntriesAt(start[count + 1]) = {count + 1}
      BY <3>1, <3>5, <3>6, OneEntryAt
    <3> QED
      BY <3>4, <3>7
  <2>3. /\ result \in {"none", "parsing", "ok", "error"}
        /\ result = "ok" => count = Len(list)
        /\ result = "error" => Len(list) > MaxEntries[table]
    BY DEF LoopInv, LoopType, ListInv
  <2> QED
    BY <2>1, <2>2, <2>3 DEF SectionParsed
<1> QED
  BY <1>1, LoopInvHolds, PTL

(* parseTotTable ends inside its arrays, with the descriptors of the       *)
(* section, on every section it is made for and whatever sections came     *)
(* before it.                                                              *)
THEOREM DescriptorsAreCounted == Spec => []DescriptorsCounted
<1>1. LoopInv => DescriptorsCounted
  <2> SUFFICES ASSUME LoopInv, table = "tot", OneRegionEach,
                      Len(list) <= MaxEntries["tot"]
               PROVE  /\ result # "outside"
                      /\ \A i \in 0 .. count - 1 : array[i].infos <= 20
                      /\ result = "ok" =>
                           /\ count = Len(list)
                           /\ \A i \in DOMAIN list :
                                array[i - 1].length = list[i].length
    BY DEF DescriptorsCounted
  <2>1. /\ result # "outside"
        /\ \A i \in 1 .. count : array[i - 1].length = list[i].length
        /\ result = "ok" => count = Len(list)
    BY DEF LoopInv, TotInv
  <2>2. \A i \in 0 .. count - 1 : array[i].infos <= 20
    <3>1. count \in 0 .. MaxEntries["tot"] /\ MaxEntries["tot"] \in Nat
      BY ArrayLengths DEF LoopInv, LoopType, Loops
    <3>2. \A i \in 0 .. MaxEntries["tot"] - 1 : array[i].infos \in 0 .. 20
      BY DEF LoopInv, ArrayInv
    <3>3. \A n \in 0 .. 20 : n <= 20
      OBVIOUS
    <3>4. \A i \in 0 .. count - 1 : i \in 0 .. MaxEntries["tot"] - 1
      BY <3>1
    <3> QED
      BY <3>2, <3>3, <3>4
  <2>3. ASSUME result = "ok" PROVE DOMAIN list = 1 .. count
    <3>1. table \in Loops /\ section \in Sections[table]
      BY <2>3 DEF LoopInv, SectionInv, Loops
    <3> QED
      BY <2>1, <2>3, <3>1, Received
  <2> QED
    BY <2>1, <2>2, <2>3
<1> QED
  BY <1>1, LoopInvHolds, PTL

-----------------------------------------------------------------------------
(* The date.                                                               *)

(* Whatever day of 16 bits from March 1900 on is broadcast, the formula of *)
(* parseTdtTable gives one of the twelve months, and a year of 16 bits.    *)
LEMMA DateInRange ==
  ASSUME NEW mjd \in Int, 15079 <= mjd, mjd <= 65535
  PROVE  /\ DateOf(mjd).tmpMonth \in 1 .. 12
         /\ DateOf(mjd) \in [MJD : Bits16, tmpMonth : 0 .. 12, day : Bits16,
                             Year : Bits16]
<1> DEFINE y == YearOf(mjd)
           d == DaysOfYears(y)
           m == MonthOf(mjd - d)
           k == IF m \in {14, 15} THEN 1 ELSE 0
<1>1. /\ y \in Int /\ 0 <= y /\ y <= 138
      /\ 7305 * y <= 20 * mjd - 301564
      /\ 20 * mjd - 301564 < 7305 * y + 7305
  BY DEF YearOf
<1>2. d \in Int /\ 4 * d <= 1461 * y /\ 1461 * y < 4 * d + 4
  BY <1>1 DEF DaysOfYears
<1>3. 15079 <= mjd - d /\ mjd - d <= 15444
  BY <1>1, <1>2
<1>4. m \in 4 .. 15
  BY <1>2, <1>3 DEF MonthOf
<1>5. k \in {0, 1} /\ m - 1 - k * 12 \in 1 .. 12
  BY <1>4
<1>6. \A n \in Int : n % 65536 \in Bits16
  <2>1. \A n \in Int : n % 65536 \in Int /\ 0 <= n % 65536
                       /\ n % 65536 <= 65535
    OBVIOUS
  <2> QED
    BY <2>1, IsWord
<1>7. (mjd - 14987 - DaysOfYears(y + k) - DaysOfMonths(m - 1 - k * 12)) \in Int
  <2>1. \A n \in Int : DaysOfYears(n) \in Int /\ DaysOfMonths(n) \in Int
    BY DEF DaysOfYears, DaysOfMonths
  <2>2. y + k \in Int /\ m - 1 - k * 12 \in Int
    BY <1>1, <1>5
  <2> QED
    BY <2>1, <2>2
<1>8. mjd \in Bits16 /\ y + k + 1900 \in Bits16
  BY <1>1, <1>5, IsWord
<1>9. DateOf(mjd) =
        [MJD |-> mjd, tmpMonth |-> m - 1 - k * 12, Year |-> y + k + 1900,
         day |-> (mjd - 14987 - DaysOfYears(y + k)
                    - DaysOfMonths(m - 1 - k * 12)) % 65536]
  BY DEF DateOf
<1> HIDE DEF y, d, m, k
<1> QED
  BY <1>5, <1>6, <1>7, <1>8, <1>9

LEMMA LastDayRange == LastDay \in Int /\ 15079 <= LastDay /\ LastDay <= 65535
<1>1. LastDay \in 15079 .. 65535
  BY ParserConstants
<1> QED
  BY <1>1

(* The calendar, and the table that is made from it.                       *)
DayInv ==
  /\ today.mjd \in Int /\ 15078 <= today.mjd /\ today.mjd <= LastDay
  /\ tdtTable \in [MJD : Bits16, tmpMonth : 0 .. 12, day : Bits16,
                   Year : Bits16]

LEMMA DayInvHolds == Spec => []DayInv
<1>1. Init => DayInv
  <2> SUFFICES ASSUME Init PROVE DayInv
    OBVIOUS
  <2>1. 0 \in Bits16 /\ 0 \in 0 .. 12
    BY IsWord
  <2>2. tdtTable = [MJD |-> 0, tmpMonth |-> 0, day |-> 0, Year |-> 0]
        /\ today.mjd = 15078
    BY DEF Init
  <2>3. LastDay \in Int /\ 15078 <= LastDay
    BY LastDayRange
  <2> QED
    BY <2>1, <2>2, <2>3 DEF DayInv
<1>2. DayInv /\ [Next]_vars => DayInv'
  <2> SUFFICES ASSUME DayInv, [Next]_vars PROVE DayInv'
    OBVIOUS
  <2>1. CASE parseTdtTable
    <3>1. LastDay \in Int /\ LastDay <= 65535
      BY LastDayRange
    <3>2. today'.mjd = today.mjd + 1 /\ today.mjd < LastDay
          /\ tdtTable' = DateOf(today'.mjd)
      BY <2>1 DEF parseTdtTable, NextDay
    <3>3. today'.mjd \in Int /\ 15079 <= today'.mjd /\ today'.mjd <= LastDay
      BY <3>1, <3>2 DEF DayInv
    <3>4. today'.mjd <= 65535
      BY <3>1, <3>3
    <3> QED
      BY <3>2, <3>3, <3>4, DateInRange DEF DayInv
  <2>2. CASE ~parseTdtTable
    <3>1. UNCHANGED <<today, tdtTable>>
      BY <2>2 DEF Next, vars, Receive, parsePatTable, parsePmtTable,
                  parseTotTable, Finish, Store, Descriptor
    <3> QED
      BY <3>1 DEF DayInv
  <2> QED
    BY <2>1, <2>2
<1> QED
  BY <1>1, <1>2, PTL DEF Spec

(* Every variable of the parsers keeps its type: no length leaves its 16   *)
(* bits, no counter its array, and the month of a TDT is one of twelve.    *)
THEOREM ParserTypeCorrect == Spec => []TypeOK
<1>1. LoopInv /\ DayInv => TypeOK
  <2> SUFFICES ASSUME LoopInv, DayInv PROVE TypeOK
    OBVIOUS
  <2>1. /\ table \in Loops \cup {"tdt"}
        /\ table \in Loops => /\ count \in 0 .. MaxEntries[table]
                              /\ DOMAIN array = 0 .. MaxEntries[table] - 1
        /\ result \in {"none", "parsing", "ok", "error", "outside"}
        /\ position \in Nat /\ parsedLength \in Bits16
    BY DEF LoopInv, LoopType
  <2>2. table \in Loops => section \in Sections[table] \cup {NoSection}
    BY DEF LoopInv, SectionInv
  <2>3. today.mjd \in 15078 .. LastDay
    <3>1. LastDay \in Int
      BY LastDayRange
    <3> QED
      BY <3>1 DEF DayInv
  <2>4. tdtTable \in [MJD : Bits16, tmpMonth : 0 .. 12, day : Bits16,
                      Year : Bits16]
    BY DEF DayInv
  <2> QED
    BY <2>1, <2>2, <2>3, <2>4 DEF TypeOK
<1> QED
  BY <1>1, LoopInvHolds, DayInvHolds, PTL

-----------------------------------------------------------------------------
(* The month is the day's.  The formula counts years from March, so that    *)
(* January and February are the months 14 and 15 of the year before.       *)

MarchYear(d) == IF d.month <= 2 THEN d.year - 1901 ELSE d.year - 1900
MarchMonth(d) == IF d.month <= 2 THEN d.month + 13 ELSE d.month + 1

(* A day of the calendar from March 1900 on.                               *)
CalendarDay(d) ==
  /\ d.mjd \in Int /\ d.day \in Int /\ d.year \in Int /\ d.month \in 1 .. 12
  /\ 1 <= d.day /\ d.day <= DaysOf(d.month, d.year)
  /\ 0 <= MarchYear(d)

(* Its MJD by the formula of the standard, with 14956 and the years and    *)
(* months counted from March.                                              *)
Counted(d) ==
  d.mjd = 14956 + d.day + DaysOfYears(MarchYear(d)) + DaysOfMonths(MarchMonth(d))

(* The calendar keeps to the formula, and the table is made from the day.  *)
CalendarInv ==
  /\ \/ today = [mjd |-> 15078, day |-> 28, month |-> 2, year |-> 1900]
     \/ CalendarDay(today) /\ Counted(today)
  /\ \/ tdtTable.MJD = 0
     \/ /\ CalendarDay(today) /\ Counted(today)
        /\ tdtTable = DateOf(today.mjd)

LEMMA DaysOfTheMonths ==
  /\ DaysOfMonths(1) = 30 /\ DaysOfMonths(2) = 61 /\ DaysOfMonths(3) = 91
  /\ DaysOfMonths(4) = 122 /\ DaysOfMonths(5) = 153 /\ DaysOfMonths(6) = 183
  /\ DaysOfMonths(7) = 214 /\ DaysOfMonths(8) = 244 /\ DaysOfMonths(9) = 275
  /\ DaysOfMonths(10) = 306 /\ DaysOfMonths(11) = 336
  /\ DaysOfMonths(12) = 367 /\ DaysOfMonths(13) = 397
  /\ DaysOfMonths(14) = 428 /\ DaysOfMonths(15) = 459
BY DEF DaysOfMonths

(* y * 365.25, with what the quotient leaves.                              *)
Phase(y) == y % 4

LEMMA DaysOfTheYears ==
  \A y \in Int : /\ Phase(y) \in 0 .. 3
                 /\ 4 * DaysOfYears(y) = 1461 * y - Phase(y)
                 /\ Phase(y + 1) = IF Phase(y) = 3 THEN 0 ELSE Phase(y) + 1
BY DEF DaysOfYears, Phase

LEMMA DaysAreIntegers ==
  \A n \in Int : DaysOfYears(n) \in Int /\ DaysOfMonths(n) \in Int
BY DEF DaysOfYears, DaysOfMonths

LEMMA OneYearOn ==
  ASSUME NEW y \in Int
  PROVE  DaysOfYears(y + 1) = DaysOfYears(y) + (IF Phase(y) = 3 THEN 366 ELSE 365)
<1>1. y + 1 \in Int
  OBVIOUS
<1>2. /\ DaysOfYears(y) \in Int /\ Phase(y) \in 0 .. 3
      /\ 4 * DaysOfYears(y) = 1461 * y - Phase(y)
      /\ Phase(y + 1) = IF Phase(y) = 3 THEN 0 ELSE Phase(y) + 1
  BY DaysOfTheYears, DaysAreIntegers
<1>3. /\ DaysOfYears(y + 1) \in Int
      /\ 4 * DaysOfYears(y + 1) = 1461 * (y + 1) - Phase(y + 1)
  BY <1>1, DaysOfTheYears, DaysAreIntegers
<1> QED
  BY <1>2, <1>3

(* From 1901 to 2099 every fourth year is a leap year.                     *)
LEMMA LeapYears ==
  ASSUME NEW y \in Int, 0 <= y, y <= 139
  PROVE  LeapYear(y + 1901) <=> Phase(y) = 3
<1>1. (y + 1901) % 4 = 0 <=> Phase(y) = 3
  BY DEF Phase
<1>2. (y + 1901) % 100 # 0 \/ y = 99
  OBVIOUS
<1>3. 2000 % 400 = 0
  OBVIOUS
<1> QED
  BY <1>1, <1>2, <1>3 DEF LeapYear

(* The days of a year that begins in March: the months come in order, and  *)
(* its last day is the 365th, or the 366th before a leap year's March.     *)
LEMMA DayOfTheYear ==
  ASSUME NEW d, CalendarDay(d)
  PROVE  LET s == MarchMonth(d)
             n == d.day + DaysOfMonths(s)
         IN  /\ s \in 4 .. 15 /\ n \in Int
             /\ 306001 * s <= 10000 * n - 1000
             /\ 10000 * n - 1000 < 306001 * s + 306001
             /\ 123 <= n /\ n <= 488
             /\ n = 488 => d.month = 2 /\ LeapYear(d.year)
<1>1. /\ d.day \in Int /\ d.year \in Int /\ 1 <= d.day /\ d.month \in 1 .. 12
      /\ d.day <= DaysOf(d.month, d.year)
  BY DEF CalendarDay
<1>2. /\ DaysOf(d.month, d.year) \in 28 .. 31
      /\ d.month \in {4, 6, 9, 11} => DaysOf(d.month, d.year) = 30
      /\ d.month = 2 => DaysOf(d.month, d.year)
                          = IF LeapYear(d.year) THEN 29 ELSE 28
  BY <1>1 DEF DaysOf
<1>3. CASE d.month = 1
  BY <1>1, <1>2, <1>3, DaysOfTheMonths DEF MarchMonth
<1>4. CASE d.month = 2
  BY <1>1, <1>2, <1>4, DaysOfTheMonths DEF MarchMonth
<1>5. CASE d.month \in {3, 5, 7, 8, 10, 12}
  BY <1>1, <1>2, <1>5, DaysOfTheMonths DEF MarchMonth
<1>6. CASE d.month \in {4, 6, 9, 11}
  BY <1>1, <1>2, <1>6, DaysOfTheMonths DEF MarchMonth
<1> QED
  BY <1>1, <1>3, <1>4, <1>5, <1>6

(* The formula finds the year and the month that the day was counted from. *)
LEMMA FormulaInverts ==
  ASSUME NEW d, CalendarDay(d), Counted(d), d.mjd <= 65535
  PROVE  /\ MarchYear(d) \in Int /\ 0 <= MarchYear(d) /\ MarchYear(d) <= 138
         /\ YearOf(d.mjd) = MarchYear(d)
         /\ MonthOf(d.mjd - DaysOfYears(MarchYear(d))) = MarchMonth(d)
<1> DEFINE y == MarchYear(d)
           s == MarchMonth(d)
           n == d.day + DaysOfMonths(s)
<1>1. y \in Int /\ 0 <= y /\ d.mjd \in Int /\ d.year \in Int
  BY DEF CalendarDay, MarchYear
<1>2. /\ s \in 4 .. 15 /\ n \in Int
      /\ 306001 * s <= 10000 * n - 1000
      /\ 10000 * n - 1000 < 306001 * s + 306001
      /\ 123 <= n /\ n <= 488
      /\ n = 488 => d.month = 2 /\ LeapYear(d.year)
  BY DayOfTheYear
<1>3. d.mjd = 14956 + n + DaysOfYears(y)
  <2>1. /\ DaysOfYears(y) \in Int /\ DaysOfMonths(s) \in Int /\ d.day \in Int
    BY <1>1, <1>2, DaysAreIntegers DEF CalendarDay
  <2>2. d.mjd = 14956 + d.day + DaysOfYears(y) + DaysOfMonths(s)
    BY DEF Counted
  <2> HIDE DEF y, s
  <2> QED
    BY <2>1, <2>2
<1>4. n = 488 => d.year = y + 1901
  BY <1>1, <1>2 DEF MarchYear
<1>5. /\ DaysOfYears(y) \in Int /\ Phase(y) \in 0 .. 3
      /\ 4 * DaysOfYears(y) = 1461 * y - Phase(y)
  <2>1. y \in Int
    BY <1>1
  <2>2. DaysOfYears(y) \in Int
    BY <2>1, DaysAreIntegers
  <2>3. Phase(y) \in 0 .. 3 /\ 4 * DaysOfYears(y) = 1461 * y - Phase(y)
    BY <2>1, DaysOfTheYears
  <2> QED
    BY <2>2, <2>3
<1> HIDE DEF y, s, n
<1>6. y <= 138
  BY <1>1, <1>2, <1>3, <1>5
<1>7. n = 488 => Phase(y) = 3
  BY <1>1, <1>2, <1>4, <1>6, LeapYears
<1>8. /\ 7305 * y <= 20 * d.mjd - 301564
      /\ 20 * d.mjd - 301564 < 7305 * y + 7305
  BY <1>1, <1>2, <1>3, <1>5, <1>7
<1>9. YearOf(d.mjd) = y
  BY <1>1, <1>8 DEF YearOf
<1>10. MonthOf(d.mjd - DaysOfYears(y)) = s
  <2>1. d.mjd - DaysOfYears(y) = 14956 + n
    BY <1>1, <1>2, <1>3, <1>5
  <2> QED
    BY <1>2, <2>1 DEF MonthOf
<1> QED
  BY <1>1, <1>6, <1>9, <1>10 DEF y, s

(* So the month and the year of such a day are right.                      *)
LEMMA MonthIsRight ==
  ASSUME NEW d, CalendarDay(d), Counted(d), d.mjd <= 65535
  PROVE  DateOf(d.mjd).tmpMonth = d.month /\ DateOf(d.mjd).Year = d.year
<1> DEFINE y == MarchYear(d)
           s == MarchMonth(d)
           k == IF s \in {14, 15} THEN 1 ELSE 0
<1>1. d.year \in Int /\ d.month \in 1 .. 12
  BY DEF CalendarDay
<1>2. YearOf(d.mjd) = y /\ MonthOf(d.mjd - DaysOfYears(y)) = s
  BY FormulaInverts
<1>3. DateOf(d.mjd).tmpMonth = s - 1 - k * 12 /\ DateOf(d.mjd).Year = y + k + 1900
  BY <1>2 DEF DateOf
<1>4. d.month = s - 1 - k * 12 /\ d.year = y + k + 1900
  BY <1>1 DEF MarchMonth, MarchYear
<1> QED
  BY <1>3, <1>4

(* The calendar goes from one day to the next by the same count.           *)
LEMMA CountGoesOn ==
  ASSUME NEW d, CalendarDay(d), Counted(d), d.mjd <= 65535
  PROVE  CalendarDay(NextDay(d)) /\ Counted(NextDay(d))
<1> DEFINE e == NextDay(d)
           y == MarchYear(d)
           last == DaysOf(d.month, d.year)
<1>1. /\ d.mjd \in Int /\ d.day \in Int /\ d.year \in Int /\ d.month \in 1 .. 12
      /\ 1 <= d.day /\ d.day <= last
  BY DEF CalendarDay
<1>2. /\ last \in 28 .. 31
      /\ d.month \in {4, 6, 9, 11} => last = 30
      /\ d.month \in {1, 3, 5, 7, 8, 10, 12} => last = 31
      /\ d.month = 2 => last = IF LeapYear(d.year) THEN 29 ELSE 28
  BY <1>1 DEF DaysOf
<1>3. y \in Int /\ 0 <= y /\ y <= 138
  BY FormulaInverts
<1>4. d.mjd = 14956 + d.day + DaysOfYears(y) + DaysOfMonths(MarchMonth(d))
  BY DEF Counted
<1>5. DaysOfYears(y) \in Int
  BY <1>3, DaysAreIntegers
<1>6. CASE d.day < last
  <2>1. /\ e.mjd = d.mjd + 1 /\ e.day = d.day + 1 /\ e.month = d.month
        /\ e.year = d.year
    BY <1>1, <1>2, <1>6 DEF NextDay
  <2>2. MarchYear(e) = y /\ MarchMonth(e) = MarchMonth(d)
    BY <2>1 DEF MarchYear, MarchMonth
  <2>3. DaysOfMonths(MarchMonth(d)) \in Int
    BY <1>1, DaysAreIntegers DEF MarchMonth
  <2>4. CalendarDay(e)
    BY <1>1, <1>2, <1>3, <1>6, <2>1, <2>2 DEF CalendarDay
  <2>5. Counted(e)
    BY <1>1, <1>4, <1>5, <2>1, <2>2, <2>3 DEF Counted
  <2> QED
    BY <2>4, <2>5
<1>7. CASE d.day = last
  <2>1. /\ e.mjd = d.mjd + 1 /\ e.day = 1 /\ e.month = (d.month % 12) + 1
        /\ e.year = IF d.month = 12 THEN d.year + 1 ELSE d.year
    BY <1>1, <1>2, <1>7 DEF NextDay
  <2>2. /\ e.month \in 1 .. 12
        /\ d.month # 12 => e.month = d.month + 1
        /\ d.month = 12 => e.month = 1
    BY <1>1, <2>1
  <2>3. MarchYear(e) = IF d.month = 2 THEN y + 1 ELSE y
    BY <1>1, <2>1, <2>2 DEF MarchYear
  <2>4. CalendarDay(e)
    <3>1. DaysOf(e.month, e.year) \in 28 .. 31
      BY <2>2 DEF DaysOf
    <3> QED
      BY <1>1, <1>3, <2>1, <2>2, <2>3, <3>1 DEF CalendarDay
  <2>5. CASE d.month = 2
    <3>1. /\ MarchMonth(d) = 15 /\ MarchMonth(e) = 4 /\ d.year = y + 1901
          /\ MarchYear(e) = y + 1
      BY <1>1, <2>2, <2>3, <2>5 DEF MarchMonth, MarchYear
    <3>2. DaysOfYears(y + 1) = DaysOfYears(y)
                                 + (IF LeapYear(d.year) THEN 366 ELSE 365)
      <4>1. LeapYear(d.year) <=> Phase(y) = 3
        BY <1>3, <3>1, LeapYears
      <4> QED
        BY <1>3, <4>1, OneYearOn
    <3>3. d.mjd + 1 = 14956 + 1 + DaysOfYears(y + 1) + DaysOfMonths(4)
      BY <1>2, <1>4, <1>5, <1>7, <2>5, <3>1, <3>2, DaysOfTheMonths
    <3> QED
      BY <2>1, <2>4, <3>1, <3>3 DEF Counted
  <2>6. CASE d.month # 2
    <3>1. MarchMonth(e) = MarchMonth(d) + 1 /\ MarchYear(e) = y
      BY <1>1, <2>2, <2>3, <2>6 DEF MarchMonth
    <3>2. DaysOfMonths(MarchMonth(d) + 1) = DaysOfMonths(MarchMonth(d)) + last
      BY <1>1, <1>2, <2>6, DaysOfTheMonths DEF MarchMonth
    <3>3. DaysOfMonths(MarchMonth(d)) \in Int
      BY <1>1, DaysAreIntegers DEF MarchMonth
    <3>4. d.mjd + 1 = 14956 + 1 + DaysOfYears(y) + DaysOfMonths(MarchMonth(d) + 1)
      BY <1>1, <1>2, <1>4, <1>5, <1>7, <3>2, <3>3
    <3> QED
      BY <2>1, <2>4, <3>1, <3>4 DEF Counted
  <2> QED
    BY <2>5, <2>6
<1> QED
  BY <1>1, <1>2, <1>6, <1>7

LEMMA CalendarInvHolds == Spec => []CalendarInv
<1>1. Init => CalendarInv
  BY DEF Init, CalendarInv
<1>2. CalendarInv /\ DayInv /\ [Next]_vars => CalendarInv'
  <2> SUFFICES ASSUME CalendarInv, DayInv, [Next]_vars PROVE CalendarInv'
    OBVIOUS
  <2>1. CASE parseTdtTable
    <3>1. today' = NextDay(today) /\ tdtTable' = DateOf(today'.mjd)
      BY <2>1 DEF parseTdtTable
    <3>2. CalendarDay(today') /\ Counted(today')
      <4>1. CASE today = [mjd |-> 15078, day |-> 28, month |-> 2, year |-> 1900]
        <5>1. ~LeapYear(1900)
          BY DEF LeapYear
        <5>2. DaysOf(2, 1900) = 28 /\ DaysOf(3, 1900) = 31
          BY <5>1 DEF DaysOf
        <5>3. today' = [mjd |-> 15079, day |-> 1, month |-> 3, year |-> 1900]
          BY <3>1, <4>1, <5>2 DEF NextDay
        <5>4. MarchYear(today') = 0 /\ MarchMonth(today') = 4
          BY <5>3 DEF MarchYear, MarchMonth
        <5>5. DaysOfYears(0) = 0
          BY DEF DaysOfYears
        <5>6. CalendarDay(today')
          BY <5>2, <5>3, <5>4 DEF CalendarDay
        <5> QED
          BY <5>3, <5>4, <5>5, <5>6, DaysOfTheMonths DEF Counted
      <4>2. CASE CalendarDay(today) /\ Counted(today)
        <5>1. today.mjd <= 65535
          BY LastDayRange DEF DayInv
        <5> QED
          BY <3>1, <4>2, <5>1, CountGoesOn
      <4> QED
        BY <4>1, <4>2 DEF CalendarInv
    <3> QED
      BY <3>1, <3>2 DEF CalendarInv
  <2>2. CASE ~parseTdtTable
    <3>1. UNCHANGED <<today, tdtTable>>
      BY <2>2 DEF Next, vars, Receive, parsePatTable, parsePmtTable,
                  parseTotTable, Finish, Store, Descriptor
    <3> QED
      BY <3>1 DEF CalendarInv
  <2> QED
    BY <2>1, <2>2
<1> QED
  BY <1>1, <1>2, DayInvHolds, PTL DEF Spec

(* On every day from March 1900 to the last one of 16 bits, by a calendar  *)
(* that counts leap years: the year and the month of parseTdtTable's       *)
(* formula are those of the day.                                           *)
THEOREM MonthsOfTheDays == Spec => []MonthOfTheDay
<1>1. CalendarInv /\ DayInv => MonthOfTheDay
  <2> SUFFICES ASSUME CalendarInv, DayInv, tdtTable.MJD # 0
               PROVE  tdtTable.tmpMonth = today.month /\ tdtTable.Year = today.year
    BY DEF MonthOfTheDay
  <2>1. /\ CalendarDay(today) /\ Counted(today)
        /\ tdtTable = DateOf(today.mjd)
    BY DEF CalendarInv
  <2>2. today.mjd <= 65535
    BY LastDayRange DEF DayInv
  <2> QED
    BY <2>1, <2>2, MonthIsRight
<1> QED
  BY <1>1, CalendarInvHolds, DayInvHolds, PTL
=============================================================================
