----------------------------- MODULE TablesParser -----------------------------
(***************************************************************************)
(* parsePatTable, parsePmtTable, parseTdtTable and parseTotTable on the    *)
(* sections of a broadcast, one section after another into the same        *)
(* tables.  The four share no state, so a behaviour feeds one of them.     *)
(* Each round of a loop is a step: other threads read the PAT and the PMT  *)
(* meanwhile (module StreamController).                                    *)
(*                                                                         *)
(* A section is what its fields hold and where each entry of its list      *)
(* begins; fields keep the reserved bits that share their bytes.           *)
(***************************************************************************)
EXTENDS Integers, Sequences

CONSTANTS
  Sections,   \* Sections[t]: the sections of table t that are broadcast
  MaxEntries, \* MaxEntries[t]: elements of the array of table t, which
              \* its counter, a uint8_t, can count
  Bytes,      \* what a byte in the middle of an entry may be
  LastDay     \* bound on the days that are broadcast

-----------------------------------------------------------------------------
(* The broadcast.                                                          *)

Loops == {"pat", "pmt", "tot"}

Byte == 0 .. 255
Bits10 == 0 .. 1023
Bits13 == 0 .. 8191
UINT16_MAX == 65535
Bits16 == 0 .. UINT16_MAX

Services == [programNumber : Bits16, pid : Bits13]
Elementaries == [streamType : Byte, elementaryPid : Bits13,
                 esInfoLength : Bits10]
Descriptors == [tag : Byte, length : Byte]

Entries(t) == CASE t = "pat" -> Services
                [] t = "pmt" -> Elementaries
                [] t = "tot" -> Descriptors

Size(t, e) == CASE t = "pat" -> 4
                [] t = "pmt" -> 5 + e.esInfoLength
                [] t = "tot" -> 2 + e.length

FirstEntry(t, info) == CASE t = "pat" -> 8
                         [] t = "pmt" -> 12 + info
                         [] t = "tot" -> 10

Offsets == 0 .. 4094

(* s.start[i] is the offset of entry i of section s, the last of them that *)
(* of its CRC: each entry follows the one before it.  The length of the    *)
(* section, up to the CRC's last byte, fits its 12 bits.                   *)
WellFormed(t, s) ==
  /\ s.list \in Seq(Entries(t))
  /\ s.info \in Bits10
  /\ s.start \in [1 .. Len(s.list) + 1 -> Offsets]
  /\ s.start[1] = FirstEntry(t, s.info)
  /\ \A i \in DOMAIN s.list : s.start[i + 1] = s.start[i] + Size(t, s.list[i])
  /\ \A i, j \in DOMAIN s.start : i < j => s.start[i] < s.start[j]

ASSUME ParserConstants ==
  /\ \A t \in Loops : \A s \in Sections[t] : WellFormed(t, s)
  /\ MaxEntries \in [Loops -> 1 .. 255]
  /\ Bytes \subseteq Byte
  /\ LastDay \in 15079 .. 65535

VARIABLES
  table,         \* the table this behaviour feeds
  section,       \* the section that came last
  result,        \* "parsing", the parser's result, or "outside" its array
  position,      \* currentBufferPosition
  parsedLength,  \* parsedLength; of the TOT, descriptorLoopLength
  count, array,  \* the table's counter and its array
  today,         \* the day that is broadcast, by a calendar
  tdtTable

loop == <<result, position, parsedLength, count, array>>
vars == <<table, section, loop, today, tdtTable>>

list == section.list
start == section.start
NoSection == [list |-> <<>>, info |-> 0, start |-> <<0>>]

EntriesAt(offset) == {i \in DOMAIN list : start[i] = offset}

(* Fields of 12 or 13 bits, and the bits of ones above them.               *)
LengthField == 45056 + start[Len(list) + 1] + 4 - 3
LoopLengthField == 61440 + start[Len(list) + 1] - 10
InfoLengthField == 61440 + section.info
PidField(pid) == 57344 + pid

LeapYear(y) == y % 4 = 0 /\ (y % 100 # 0 \/ y % 400 = 0)
DaysOf(m, y) == CASE m = 2 -> IF LeapYear(y) THEN 29 ELSE 28
                  [] m \in {4, 6, 9, 11} -> 30
                  [] OTHER -> 31

NextDay(d) ==
  [mjd |-> d.mjd + 1,
   day |-> IF d.day < DaysOf(d.month, d.year) THEN d.day + 1 ELSE 1,
   month |-> IF d.day < DaysOf(d.month, d.year) THEN d.month
             ELSE (d.month % 12) + 1,
   year |-> IF d.day = 31 /\ d.month = 12 THEN d.year + 1 ELSE d.year]

-----------------------------------------------------------------------------
Zero == CASE table = "pat" -> [programNumber |-> 0, pid |-> 0]
          [] table = "pmt" -> [streamType |-> 0, elementaryPid |-> 0,
                               esInfoLength |-> 0]
          [] table = "tot" -> [tag |-> 0, length |-> 0, infos |-> 0]
          [] table = "tdt" -> 0

(* The calendar begins a day before the first one the formula is meant     *)
(* for, the first of March 1900.                                           *)
Init ==
  /\ table \in Loops \cup {"tdt"}
  /\ section = NoSection
  /\ result = "none" /\ position = 0 /\ parsedLength = 0 /\ count = 0
  /\ array = IF table = "tdt" THEN <<>>
             ELSE [i \in 0 .. MaxEntries[table] - 1 |-> Zero]
  /\ today = [mjd |-> 15078, day |-> 28, month |-> 2, year |-> 1900]
  /\ tdtTable = [MJD |-> 0, tmpMonth |-> 0, day |-> 0, Year |-> 0]

CrcNotCounted == CASE table = "pat" -> 8 - 3
                   [] table = "pmt" -> 12 + (InfoLengthField % 4096) - 3
                   [] table = "tot" -> LoopLengthField % 4096

(* What the section's header makes the parser start with: the length that  *)
(* counts as parsed, or that the loop over the descriptors has to parse.   *)
ParseHeader == CASE table = "pat" -> 12 - 3
                 [] table = "pmt" -> 12 + (InfoLengthField % 4096) + 4 - 3
                 [] table = "tot" -> LoopLengthField % 4096

(* A section arrives.  The counter is cleared, the array is not.           *)
Receive ==
  /\ table \in Loops /\ result \in {"none", "ok", "error"}
  /\ section' \in Sections[table]
  /\ UNCHANGED <<table, array, today, tdtTable>>
  /\ parsedLength' = ParseHeader'
  /\ position' = FirstEntry(table, section'.info)
  /\ count' = 0 /\ result' = "parsing"

Finish(r) ==
  /\ result' = r
  /\ UNCHANGED <<table, section, position, parsedLength, count, array, today,
                 tdtTable>>

Store(e, size) ==
  /\ array' = [array EXCEPT ![count] = e]
  /\ count' = count + 1
  /\ position' = position + size
  /\ parsedLength' = parsedLength + size
  /\ UNCHANGED <<table, section, result, today, tdtTable>>

parsePatServiceInfo(e) ==
  [programNumber |-> e.programNumber, pid |-> PidField(e.pid) % 8192]

parsePmtElementaryInfo(e) ==
  [streamType |-> e.streamType,
   elementaryPid |-> PidField(e.elementaryPid) % 8192,
   esInfoLength |-> (61440 + e.esInfoLength) % 4096]

More == parsedLength < LengthField % 4096

OneTooMany == count > MaxEntries[table]

(* The test of the PAT and of the PMT; parseTotTable has none, and goes on *)
(* beyond its array.                                                       *)
Full == count > MaxEntries[table] - 1

(* while(parsedLength < sectionLength) { ... }, of the PAT and of the PMT; *)
(* a position where no entry begins would be a step the model has not.     *)
parsePatTable ==
  /\ table = "pat" /\ result = "parsing"
  /\ \/ ~More /\ Finish("ok")
     \/ More /\ Full /\ Finish("error")
     \/ /\ More /\ ~Full
        /\ \E i \in EntriesAt(position) :
             Store(parsePatServiceInfo(list[i]), 4)

parsePmtTable ==
  /\ table = "pmt" /\ result = "parsing"
  /\ \/ ~More /\ Finish("ok")
     \/ More /\ Full /\ Finish("error")
     \/ /\ More /\ ~Full
        /\ \E i \in EntriesAt(position) :
             LET e == parsePmtElementaryInfo(list[i])
             IN  Store(e, 5 + e.esInfoLength)

LtoTag == 88      \* local_time_offset_descriptor

DescriptorSize(d) == d.length

(* Tag and length byte of a descriptor.                                    *)
DescriptorSpan(d) == d.length + 2

(* One round of the loop over the descriptors, taken to be 15 bytes apart. *)
(* The length of one with another tag is not read: what the array holds    *)
(* from an earlier section is subtracted, modulo 2^16.                     *)
Descriptor(tag, length) ==
  /\ array' = IF tag = LtoTag
              THEN [array EXCEPT ![count] = [tag |-> tag, length |-> length,
                                             infos |-> length \div 13]]
              ELSE array
  /\ count' = count + 1
  /\ parsedLength' = (parsedLength - DescriptorSpan(array'[count])) % 65536
  /\ UNCHANGED <<table, section, result, position, today, tdtTable>>

parseTotTable ==
  /\ table = "tot" /\ result = "parsing"
  /\ \/ parsedLength <= 4 /\ Finish("ok")
     \/ parsedLength > 4 /\ Full /\ Finish("outside")
     \/ /\ parsedLength > 4 /\ ~Full
        /\ LET here == EntriesAt(10 + 15 * count) IN
           \/ \E i \in here : Descriptor(list[i].tag, list[i].length)
           \/ /\ here = {}
              /\ \E tag, length \in Bytes : Descriptor(tag, length)

-----------------------------------------------------------------------------
(* The date of a TDT.  (int) of the quotients of doubles, exactly: none of *)
(* them is close to an integer boundary for an MJD of 16 bits.             *)
YearOf(mjd) == (20 * mjd - 301564) \div 7305    \* (mjd - 15078.2) / 365.25
DaysOfYears(y) == (1461 * y) \div 4             \* y * 365.25
MonthOf(days) == (10000 * days - 149561000) \div 306001
DaysOfMonths(m) == (306001 * m) \div 10000      \* m * 30.6001

KeepsYear(mjd) ==
  LET y == YearOf(mjd)
      m == MonthOf(mjd - DaysOfYears(y))
      k == IF m \in {14, 15} THEN 1 ELSE 0
  IN  [MJD |-> mjd, tmpMonth |-> m - 1 - k * 12, Year |-> y + 1900,
       day |-> (mjd - 14987 - DaysOfYears(y) - DaysOfMonths(m - 1 - k * 12))
                 % 65536]

DateOf(mjd) ==
  LET y == YearOf(mjd)
      m == MonthOf(mjd - DaysOfYears(y))
      k == IF m \in {14, 15} THEN 1 ELSE 0
      tmpYear == y + k
      tmpMonth == m - 1 - k * 12
  IN  [MJD |-> mjd, tmpMonth |-> tmpMonth, Year |-> tmpYear + 1900,
       day |-> (mjd - 14987 - DaysOfYears(tmpYear) - DaysOfMonths(tmpMonth))
                 % 65536]

parseTdtTable ==
  /\ table = "tdt" /\ today.mjd < LastDay
  /\ today' = NextDay(today)
  /\ tdtTable' = DateOf(today'.mjd)
  /\ UNCHANGED <<table, section, loop>>

Next ==
  \/ Receive
  \/ parsePatTable \/ parsePmtTable \/ parseTdtTable \/ parseTotTable

Spec == Init /\ [][Next]_vars

-----------------------------------------------------------------------------
(* Properties.                                                             *)

(* Every variable keeps its type; lengths stay in their 16 bits.           *)
TypeOK ==
  /\ table \in Loops \cup {"tdt"}
  /\ table \in Loops => /\ section \in Sections[table] \cup {NoSection}
                        /\ count \in 0 .. MaxEntries[table]
                        /\ DOMAIN array = 0 .. MaxEntries[table] - 1
  /\ result \in {"none", "parsing", "ok", "error", "outside"}
  /\ position \in Nat /\ parsedLength \in Bits16
  /\ today.mjd \in 15078 .. LastDay
  /\ tdtTable \in [MJD : Bits16, tmpMonth : 0 .. 12, day : Bits16,
                   Year : Bits16]

(* parsePatTable and parsePmtTable: at every moment the entries that the   *)
(* counter covers are those of the section being parsed, never ones left   *)
(* by a section before it.                                                 *)
CountedEntriesNew ==
  count <= Len(list) /\ \A i \in 1 .. count : array[i - 1] = list[i]

(* They read every entry of a section whatever the descriptors between     *)
(* them and nothing else, and give up exactly if the array is too short.   *)
SectionParsed ==
  \/ result = "none"
  \/ result = "ok" /\ count = Len(list)
  \/ result = "error" /\ Len(list) > MaxEntries[table]
  \/ result = "parsing" /\ (More /\ ~Full => EntriesAt(position) # {})

(* Both, for the two tables that channels are started from.                *)
ListsParsed == table \in {"pat", "pmt"} => CountedEntriesNew /\ SectionParsed

(* TOT sections made the way the 15 bytes of parseTotTable expect: one     *)
(* local time offset descriptor, or several of one region each.            *)
OneRegionEach ==
  /\ \A i \in DOMAIN list : list[i].tag = LtoTag /\ list[i].length >= 13
  /\ \/ Len(list) = 1
     \/ \A i \in DOMAIN list : list[i].length = 13

(* parseTotTable ends on such a section, inside its arrays (20 infos in    *)
(* each descriptor), with the descriptors of the section, whatever an      *)
(* earlier section has left in the table.                                  *)
DescriptorsCounted ==
  table = "tot" /\ OneRegionEach /\ Len(list) <= MaxEntries["tot"] =>
    /\ result # "outside"
    /\ \A i \in 0 .. count - 1 : array[i].infos <= 20
    /\ result = "ok" =>
         /\ count = Len(list)
         /\ \A i \in DOMAIN list : array[i - 1].length = list[i].length

(* The month and the year of a TDT are those of the day, on every day from *)
(* March 1900 to April 2038, the end of 16 bits.                           *)
MonthOfTheDay ==
  tdtTable.MJD # 0 =>
    tdtTable.tmpMonth = today.month /\ tdtTable.Year = today.year

(* The date that the info dialog takes from the TDT is the date of the     *)
(* day, its day of the month too.                                          *)
DateOfTheDay == tdtTable.MJD # 0 => MonthOfTheDay /\ tdtTable.day = today.day
=============================================================================
