-------------------------------- MODULE Ics ---------------------------------
(* calendar, ics.rs: the arithmetic of dates, the expansion of a recurrence  *)
(* rule, text escaping, and the lines of a calendar file, each against a     *)
(* definition that does not know how it is computed.                         *)
EXTENDS Integers, Sequences, FiniteSets, SequencesExt, FiniteSetsExt, Functions

CONSTANTS DayLen, Sec,         \* MS_PER_DAY and a second, in the model's milliseconds
          Days, Firsts, Rules, \* days checked, starts and rules of events
          WindowStart, WindowEnd,      \* the import window
          MaxDocs,             \* MAX_IMPORT_DOCS
          FoldAt, Alphabet, MaxText, MaxLine   \* FOLD_AT; characters of texts; bounds
VARIABLES ics       \* the call being made and what it has come to
vars == ics

Absent == -1
Idle == [op |-> "idle"]
Init == ics = Idle
-----------------------------------------------------------------------------
\* days_from_civil and civil_from_days: years begin in March
DaysFromCivil(y0, m, d) ==
  LET y == IF m <= 2 THEN y0 - 1 ELSE y0
      era == (IF y >= 0 THEN y ELSE y - 399) \div 400
      yoe == y - era * 400
      doy == (153 * (IF m > 2 THEN m - 3 ELSE m + 9) + 2) \div 5 + d - 1
  IN era * 146097 + yoe * 365 + yoe \div 4 - yoe \div 100 + doy - 719468
NoLeapCentury(doe) == (doe - doe \div 1460 - doe \div 146096) \div 365
YearOfEra(doe) == (doe - doe \div 1460 + doe \div 36524 - doe \div 146096) \div 365
CivilFromDays(z0) ==
  LET z == z0 + 719468
      era == (IF z >= 0 THEN z ELSE z - 146096) \div 146097
      doe == z - era * 146097
      yoe == YearOfEra(doe)
      doy == doe - (365 * yoe + yoe \div 4 - yoe \div 100)
      mp == (5 * doy + 2) \div 153
      m == IF mp < 10 THEN mp + 3 ELSE mp - 9
  IN <<yoe + era * 400 + (IF m <= 2 THEN 1 ELSE 0), m, doy - (153 * mp + 2) \div 5 + 1>>
WeekdayMon0(day) == (day + 3) % 7
IsLeap(y) == (y % 4 = 0 /\ y % 100 # 0) \/ y % 400 = 0
DaysInMonth(y, m) == IF m = 2 THEN (IF IsLeap(y) THEN 29 ELSE 28) ELSE IF m \in {4, 6, 9, 11} THEN 30 ELSE 31
\* fmt_dt and parse_dt: the date and, unless the event is all-day, whole seconds of the day
FmtDt(ms, allDay) == [date |-> CivilFromDays(ms \div DayLen),
                      time |-> IF allDay THEN Absent ELSE (ms % DayLen) \div Sec]
NoDate == [date |-> <<0, 0, 0>>, time |-> Absent]
ParseDt(v) == DaysFromCivil(v.date[1], v.date[2], v.date[3]) * DayLen + (IF v.time = Absent THEN 0 ELSE v.time * Sec)

\* expand_rrule: the days a rule steps through, then push for each
Stepped(first, step, end) == [k \in 1 .. (end \div DayLen - first) \div step + 1 |-> first + (k - 1) * step]
Weekdays(week, byday) == SelectSeq([k \in 1 .. 7 |-> week + k - 1], LAMBDA d : WeekdayMon0(d) \in byday)
Month(first, n) ==      \* the same day, or the last of a shorter month, n months on
  LET c == CivilFromDays(first)
      total == c[2] - 1 + n
      y == c[1] + total \div 12
      m == (total % 12) + 1
  IN DaysFromCivil(y, m, Min({c[3], DaysInMonth(y, m)}))
Candidates(first, r, end) ==
  LET week == first - WeekdayMon0(first) IN
  CASE r.freq = "DAILY" -> Stepped(first, r.interval, end)
    [] r.freq = "WEEKLY" /\ r.byday = {} -> Stepped(first, 7 * r.interval, end)
    [] r.freq = "WEEKLY" /\ r.byday # {} ->
         FlattenSeq([k \in DOMAIN Stepped(week, 7 * r.interval, end) |-> Weekdays(week + (k - 1) * 7 * r.interval, r.byday)])
    [] r.freq = "MONTHLY" ->
         LET all == [k \in 1 .. (end \div DayLen - first) \div 28 + 1 |-> Month(first, k * r.interval)]
         IN SelectSeq(all, LAMBDA d : d * DayLen + r.tod <= end)
    [] OTHER -> <<>>
ExpandRrule(first, r, end, count) ==
  LET tod == first % DayLen
      push(acc, d) ==
        LET ms == d * DayLen + tod IN
        IF acc.stop \/ ms <= first \/ ms > end THEN acc
        ELSE IF (r.until # Absent /\ ms > r.until) \/ acc.left = 0 THEN [acc EXCEPT !.stop = TRUE]
        ELSE [out |-> Append(acc.out, ms), left |-> IF acc.left = Absent THEN Absent ELSE acc.left - 1,
              stop |-> Len(acc.out) + 1 >= MaxDocs]
  IN FoldLeft(push, [out |-> <<>>, left |-> count, stop |-> FALSE],
              Candidates(first \div DayLen, [r EXCEPT !.tod = tod], end)).out
\* occurrences: COUNT includes the first; the window is applied to what the expansion gave
Occurrences(first, r) ==
  IF first > WindowEnd THEN <<>>
  ELSE LET rest == IF r.freq = "NONE" THEN <<>>
                   ELSE ExpandRrule(first, r, WindowEnd, IF r.count = Absent THEN Absent ELSE Max({0, r.count - 1}))
       IN SelectSeq(<<first>> \o rest, LAMBDA ms : ms >= WindowStart)

\* escape_text and unescape_text; CR and LF both become an escaped n
EscapeText(t) == FlattenSeq([k \in DOMAIN t |->
  IF t[k] \in {"\\", ";", ","} THEN <<"\\", t[k]>> ELSE IF t[k] \in {"LF", "CR"} THEN <<"\\", "n">> ELSE <<t[k]>>])
UnescapeText(t) ==
  LET one(acc, ch) == IF acc.esc THEN [out |-> Append(acc.out, IF ch = "n" THEN "LF" ELSE ch), esc |-> FALSE]
                      ELSE IF ch = "\\" THEN [acc EXCEPT !.esc = TRUE]
                      ELSE [acc EXCEPT !.out = Append(@, ch)]
      all == FoldLeft(one, [out |-> <<>>, esc |-> FALSE], t)
  IN IF all.esc THEN Append(all.out, "\\") ELSE all.out

\* collect_events over the lines of an unfolded file: BEGIN and END of events
\* and alarms, and properties; an alarm that is not closed swallows what follows
CollectEvents(lines) ==
  LET one(acc, l) ==
        CASE l.name = "BEGIN" /\ l.value = "VEVENT" -> [acc EXCEPT !.cur = <<[props |-> <<>>, alarms |-> <<>>]>>]
          [] l.name = "BEGIN" /\ l.value = "VALARM" /\ acc.cur # <<>> -> [acc EXCEPT !.in = TRUE, !.alarm = <<>>]
          [] l.name = "END" /\ l.value = "VALARM" ->
               [acc EXCEPT !.in = FALSE,
                           !.cur = IF acc.in /\ @ # <<>> THEN <<[@[1] EXCEPT !.alarms = Append(@, acc.alarm)]>> ELSE @]
          [] l.name = "END" /\ l.value = "VEVENT" -> [acc EXCEPT !.out = @ \o acc.cur, !.cur = <<>>]
          [] l.name \notin {"BEGIN", "END"} /\ acc.cur # <<>> ->
               IF acc.in THEN [acc EXCEPT !.alarm = Append(@, l)]
               ELSE [acc EXCEPT !.cur = <<[@[1] EXCEPT !.props = Append(@, l)]>>]
          [] OTHER -> acc
  IN FoldLeft(one, [out |-> <<>>, cur |-> <<>>, in |-> FALSE, alarm |-> <<>>], lines).out
Get(props, name, default) == LET at == SelectSeq(props, LAMBDA l : l.name = name)
                             IN IF at = <<>> THEN default ELSE at[1].value
\* alarm_remind_before: the closest trigger that lies before the start
RemindBefore(alarms) == LET ms == {-Get(alarms[k], "TRIGGER", 0) : k \in DOMAIN alarms} \ {0}
                        IN IF ms = {} THEN Absent ELSE Min(ms)
ParsedEvent(raw) ==
  LET start == Get(raw.props, "DTSTART", NoDate)
      end == Get(raw.props, "DTEND", NoDate)
      ms == IF end = NoDate THEN Absent ELSE ParseDt(end)
  IN [title |-> UnescapeText(Get(raw.props, "SUMMARY", <<"(", ")">>)), start |-> ParseDt(start),
      allDay |-> start.time = Absent, end |-> IF ms >= ParseDt(start) THEN ms ELSE Absent,
      remind |-> RemindBefore(raw.alarms)]
ParseIcs(lines) == LET raw == SelectSeq(CollectEvents(lines), LAMBDA e : Get(e.props, "DTSTART", NoDate) # NoDate)
                   IN [k \in DOMAIN raw |-> ParsedEvent(raw[k])]
\* generate_ics for one document, fmt_duration_before included
Line(name, value) == [name |-> name, value |-> value]
GenerateIcs(doc) ==
  <<Line("BEGIN", "VEVENT"), Line("SUMMARY", EscapeText(doc.title)), Line("DTSTART", FmtDt(doc.start, doc.allDay))>>
  \o (IF doc.end = Absent THEN <<>> ELSE <<Line("DTEND", FmtDt(doc.end, doc.allDay))>>)
  \o (IF doc.remind = Absent THEN <<>>
      ELSE <<Line("BEGIN", "VALARM"), Line("TRIGGER", -((doc.remind \div Sec) * Sec)), Line("END", "VALARM")>>)
  \o <<Line("END", "VEVENT")>>

-----------------------------------------------------------------------------
\* fold_line: "a" is an ASCII byte, "s" a space, "L" and "C" the two bytes of a
\* longer character; a slice that ends inside one panics
Cut(line, pos) ==
  IF pos >= Len(line) THEN pos
  ELSE LET ok == {p \in 1 .. pos : p = 1 \/ line[p + 1] # "s"} IN Max(ok)
Sliced(line, a, b, out) ==
  IF a > b \/ (b < Len(line) /\ line[b + 1] = "C") THEN [at |-> a, out |-> out, st |-> "panic"]
  ELSE [at |-> b, out |-> Append(out, SubSeq(line, a + 1, b)), st |-> "folding"]
FoldFirst(line) ==
  /\ ics = Idle
  /\ ics' = [op |-> "fold", line |-> line, step |-> 1,
             f |-> IF Len(line) <= FoldAt THEN [at |-> Len(line), out |-> <<line>>, st |-> "done"]
                   ELSE Sliced(line, 0, Cut(line, Min({FoldAt, Len(line) - 1})), <<>>)]
FoldStep ==
  /\ ics.op = "fold" /\ ics.f.st = "folding" /\ ics.step <= MaxLine
  /\ LET at == ics.f.at
         rest == Len(ics.line) - at
     IN ics' = [ics EXCEPT !.step = @ + 1,
                           !.f = IF rest > FoldAt - 1
                                 THEN Sliced(ics.line, at, Cut(ics.line, at + FoldAt - 1), ics.f.out)
                                 ELSE [Sliced(ics.line, at, Len(ics.line), ics.f.out) EXCEPT !.st = "done"]]
Lines == UNION {[1 .. n -> {"a", "s"}] : n \in 1 .. MaxLine}
         \cup {[k \in 1 .. n |-> IF k <= j THEN "a" ELSE IF (k - j) % 2 = 1 THEN "L" ELSE "C"] :
               j \in 0 .. 2, n \in {m \in 3 .. MaxLine : TRUE}}
\* lines whose last character is whole
Whole == {l \in Lines : l[Len(l)] # "L"}
Texts == UNION {[1 .. n -> Alphabet] : n \in 0 .. MaxText}

Civil(z) == ics = Idle /\ ics' = [op |-> "date", z |-> z]
Expand(first, r) == ics = Idle /\ ics' = [op |-> "expand", first |-> first, r |-> r, out |-> Occurrences(first, r)]
Text(t) == ics = Idle /\ ics' = [op |-> "text", t |-> t, out |-> UnescapeText(EscapeText(t))]
RoundTrip(doc) == ics = Idle /\ ics' = [op |-> "doc", doc |-> doc, out |-> ParseIcs(GenerateIcs(doc) \o GenerateIcs(doc))]
Docs == [title : {<<";", "LF">>}, start : Firsts, end : Firsts \cup {Absent}, allDay : BOOLEAN, remind : {Absent, 0, 1, Sec, DayLen + Sec}]

Next == \/ \E z \in Days : Civil(z)
        \/ \E first \in Firsts, r \in Rules : Expand(first, r)
        \/ \E t \in Texts : Text(t)
        \/ \E doc \in Docs : (doc.end # Absent => doc.end >= doc.start) /\ RoundTrip(doc)
        \/ \E line \in Whole : FoldFirst(line)
        \/ FoldStep
Spec == Init /\ [][Next]_vars

-----------------------------------------------------------------------------
\* the day after a date, by the length of its month
After(c) == IF c[3] < DaysInMonth(c[1], c[2]) THEN <<c[1], c[2], c[3] + 1>>
            ELSE IF c[2] < 12 THEN <<c[1], c[2] + 1, 1>> ELSE <<c[1] + 1, 1, 1>>
\* what a rule means: the days it names
OnRule(first, r, d) ==
  LET f == first \div DayLen
      c == CivilFromDays(d)
      c0 == CivilFromDays(f)
      months == (c[1] - c0[1]) * 12 + c[2] - c0[2]
  IN CASE r.freq = "DAILY" -> (d - f) % r.interval = 0
       [] r.freq = "WEEKLY" -> /\ ((d - WeekdayMon0(d)) - (f - WeekdayMon0(f))) % (7 * r.interval) = 0
                               /\ IF r.byday = {} THEN WeekdayMon0(d) = WeekdayMon0(f) ELSE WeekdayMon0(d) \in r.byday
       [] r.freq = "MONTHLY" -> months % r.interval = 0 /\ c[3] = Min({c0[3], DaysInMonth(c[1], c[2])})
       [] OTHER -> FALSE
Meant(first, r) ==
  LET all == {d * DayLen + (first % DayLen) : d \in {d \in first \div DayLen .. WindowEnd \div DayLen : OnRule(first, r, d)}}
  IN {first} \cup {ms \in all :
       /\ ms > first /\ ms <= WindowEnd
       /\ r.until # Absent => ms <= r.until
       /\ r.count # Absent => Cardinality({x \in all : first < x /\ x <= ms}) < r.count}
InWindow(first, r) == {ms \in Meant(first, r) : ms >= WindowStart /\ ms <= WindowEnd}
ToSecond(ms) == IF ms = Absent THEN Absent ELSE (ms \div Sec) * Sec
ToDay(ms) == IF ms = Absent THEN Absent ELSE (ms \div DayLen) * DayLen
Runs(line) == \E k \in 1 .. Len(line) : k + FoldAt - 2 <= Len(line) /\ \A j \in k .. k + FoldAt - 2 : line[j] = "s"

\* Dates follow each other and convert both ways.  A rule gives exactly the days
\* it means, in order, as long as the series has no more than MAX_IMPORT_DOCS
\* since its start.  Text survives escaping but for CR.  An exported event read
\* again is the same to the second, an all-day one to the day, except that a
\* reminder of less than a second is gone.  A folded ASCII line without a long
\* run of blanks unfolds to itself and no segment is too long (ics.rs).
IcsInv ==
  CASE ics.op = "date" -> /\ CivilFromDays(ics.z + 1) = After(CivilFromDays(ics.z))
                          /\ LET c == CivilFromDays(ics.z) IN DaysFromCivil(c[1], c[2], c[3]) = ics.z
    [] ics.op = "expand" -> Cardinality(Meant(ics.first, ics.r)) <= MaxDocs =>
                              /\ ToSet(ics.out) = InWindow(ics.first, ics.r)
                              /\ \A k \in 1 .. Len(ics.out) - 1 : ics.out[k] < ics.out[k + 1]
    [] ics.op = "text" -> ics.out = [k \in DOMAIN ics.t |-> IF ics.t[k] = "CR" THEN "LF" ELSE ics.t[k]]
    [] ics.op = "doc" ->
         LET d == ics.doc
             cut(ms) == IF d.allDay THEN ToDay(ms) ELSE ToSecond(ms)
             read == [d EXCEPT !.start = cut(@), !.end = cut(@), !.remind = IF ToSecond(@) = 0 THEN Absent ELSE ToSecond(@)]
         IN ics.out = <<read, read>>
    [] ics.op = "fold" ->
         (~Runs(ics.line) /\ \A k \in DOMAIN ics.line : ics.line[k] \in {"a", "s"}) =>
            /\ ics.f.st # "panic" /\ ics.step <= MaxLine
            /\ ics.f.st = "done" => /\ FlattenSeq(ics.f.out) = ics.line
                                    /\ \A k \in DOMAIN ics.f.out : Len(ics.f.out[k]) <= FoldAt
                                    /\ \A k \in 2 .. Len(ics.f.out) : Head(ics.f.out[k]) # "s" \/ Len(ics.line) <= FoldAt
    [] OTHER -> TRUE
=============================================================================
