----------------------------- MODULE TaxInvoices -----------------------------
(***************************************************************************)
(* tax/invoice_generator.py and tax/tax_record_store.py: threads of        *)
(* several processes number and issue invoices and store a tax record for  *)
(* each line.  The counter and the store are objects of a process and go   *)
(* with it.  generate() reads and writes the class counter in three places *)
(* (+= loads and stores, the f-string loads again) and asks for the date   *)
(* twice; on one event loop it runs without interleaving, in threads it    *)
(* does not, and midnight can always come in between.                      *)
(***************************************************************************)
EXTENDS VatCalculator, Selections, SequencesExt

CONSTANTS
  Threads, Processes,
  ProcessOf,     \* the process of a thread
  Loops,         \* TRUE in it: one event loop per process; FALSE: threads
  Calendar,      \* the days, in order
  LineLists,     \* the line items callers pass to generate
  MaxInvoices,   \* bound: invoices started
  MaxRestarts    \* bound: restarts of processes

\* A line item as the caller describes it.  Nothing checks the country before its VAT
\* is asked for.
Items == [unit_price_net : Int, quantity : Int,
          country_code : [code : STRING, upper : BOOLEAN]]

Year(d)  == d \div 10000
Month(d) == d \div 100        \* strftime('%Y%m')

Leap(y) == y % 4 = 0 /\ (y % 100 # 0 \/ y % 400 = 0)
IsLeapDay(d) == d % 10000 = 229

ASSUME InvoiceAssumption ==
  /\ ProcessOf \in [Threads -> Processes]
  /\ Loops \subseteq BOOLEAN
  /\ Calendar \in Seq(Nat) /\ Calendar # <<>>
  /\ \A i, j \in 1..Len(Calendar) : i < j => Calendar[i] < Calendar[j]
  /\ \A i \in 1..Len(Calendar) : IsLeapDay(Calendar[i]) => Leap(Year(Calendar[i]))
  /\ LineLists \subseteq Seq(Items) \ {<<>>}
  /\ MaxInvoices \in Nat /\ MaxRestarts \in Nat

VARIABLES
  event_loop,    \* the wiring; never changes
  day,           \* index of today in the calendar
  counter,       \* InvoiceGenerator._counter, per process
  run,           \* how often the process was restarted
  call,          \* what each thread is doing
  started,       \* invoices started so far
  issued,        \* the invoices handed out
  records,       \* TaxRecordStore._records, per process
  refused        \* the invoices with a line whose TaxRecord could not be created

vars == <<event_loop, day, counter, run, call, started, issued, records, refused>>

today == Calendar[day]
NoNumber == <<0, 0>>
NoCall == [at |-> "idle", id |-> 0, lines |-> <<>>, loaded |-> 0, number |-> NoNumber]

Init ==
  /\ event_loop \in Loops
  /\ day = 1
  /\ counter = [p \in Processes |-> 0]
  /\ run = [p \in Processes |-> 0]
  /\ call = [t \in Threads |-> NoCall]
  /\ started = 0 /\ issued = {} /\ refused = {}
  /\ records = [p \in Processes |-> <<>>]

-----------------------------------------------------------------------------
(* Lines, totals and records.                                              *)

\* InvoiceLineItem.vat_calculation, for a country that is Known
vat_calculation(line) ==
  calculate_from_net(line.unit_price_net * line.quantity, line.country_code,
                     line.transaction_date)

\* Invoice.total_net, total_vat, total_gross
total_net(lines) == SumFunction([i \in 1..Len(lines) |-> vat_calculation(lines[i]).net])
total_vat(lines) == SumFunction([i \in 1..Len(lines) |-> vat_calculation(lines[i]).vat])
total_gross(lines) == total_net(lines) + total_vat(lines)

RETENTION_YEARS == 7

\* date(year + 7, month, day); 0 if there is no such day and date() raises.
retention_until(d) ==
  LET until == d + RETENTION_YEARS * 10000
  IN  IF IsLeapDay(d) /\ ~Leap(Year(until)) THEN 0 ELSE until

\* A record of the line can be created: neither its VAT nor its retention date raises.
Recordable(line) ==
  Known(line.country_code) /\ retention_until(line.transaction_date) # 0

TaxRecord(c, line) ==
  [invoice |-> c.id, country_code |-> vat_calculation(line).country_code,
   net |-> vat_calculation(line).net, vat |-> vat_calculation(line).vat,
   transaction_date |-> line.transaction_date,
   retention_until |-> retention_until(line.transaction_date)]

store(p, record) == records' = [records EXCEPT ![p] = Append(@, record)]

\* Variant: the end of the range is left out.
RangeWithoutEnd(p, country, from, to) ==
  Chosen(records[p],
         {i \in 1..Len(records[p]) :
            /\ records[p][i].country_code = country
            /\ records[p][i].transaction_date >= from
            /\ records[p][i].transaction_date < to})

get_by_country(p, country, from, to) ==
  Chosen(records[p],
         {i \in 1..Len(records[p]) :
            /\ records[p][i].country_code = country
            /\ records[p][i].transaction_date >= from
            /\ records[p][i].transaction_date <= to})

\* get_retention_report: how many records expire in each year.
get_retention_report(p) ==
  [y \in {Year(r.retention_until) : r \in ToSet(records[p])} |->
     Cardinality({i \in 1..Len(records[p]) : Year(records[p][i].retention_until) = y})]

-----------------------------------------------------------------------------
(* generate().                                                             *)

Alone(t) ==
  event_loop => \A u \in Threads : ProcessOf[u] = ProcessOf[t] => call[u].at = "idle"

Move(t, at) == call' = [call EXCEPT ![t].at = at]

\* The line items are made (transaction_date is the day they are made), generate is
\* called, and += loads the counter.
Load(t) ==
  /\ call[t].at = "idle" /\ Alone(t) /\ started < MaxInvoices
  /\ started' = started + 1
  /\ \E list \in LineLists :
       call' = [call EXCEPT ![t] =
         [NoCall EXCEPT
            !.at = "loaded", !.id = started', !.loaded = counter[ProcessOf[t]],
            !.lines = [i \in 1..Len(list) |->
                         [unit_price_net |-> list[i].unit_price_net,
                          quantity |-> list[i].quantity,
                          country_code |-> list[i].country_code,
                          transaction_date |-> today]]]]
  /\ UNCHANGED <<event_loop, day, counter, run, issued, records, refused>>

\* Variant: the counter is not advanced.
StoreUnchanged(t) ==
  /\ call[t].at = "loaded"
  /\ Move(t, "stored")
  /\ UNCHANGED <<event_loop, day, counter, run, started, issued, records, refused>>

\* += stores the counter.
Store(t) ==
  /\ call[t].at = "loaded"
  /\ counter' = [counter EXCEPT ![ProcessOf[t]] = call[t].loaded + 1]
  /\ Move(t, "stored")
  /\ UNCHANGED <<event_loop, day, run, started, issued, records, refused>>

\* invoice_number: the month and the counter, both read now.
Number(t) ==
  /\ call[t].at = "stored"
  /\ call' = [call EXCEPT ![t].at = "numbered",
                          ![t].number = <<Month(today), counter[ProcessOf[t]]>>]
  /\ UNCHANGED <<event_loop, day, counter, run, started, issued, records, refused>>

\* The Invoice, dated by a second look at the calendar; then the tax records.
Issue(t) ==
  /\ call[t].at = "numbered"
  /\ issued' = issued \cup
       {[id |-> call[t].id, number |-> call[t].number, date |-> today,
         lines |-> call[t].lines, process |-> ProcessOf[t], run |-> run[ProcessOf[t]]]}
  /\ Move(t, "recording")
  /\ UNCHANGED <<event_loop, day, counter, run, started, records, refused>>

\* The caller goes through the lines: vat_calculation, TaxRecord(...) and store() for
\* the next one.  If one of them raises, the lines that are left have no record.
RecordLine(t) ==
  LET line == Head(call[t].lines)
      rest == Tail(call[t].lines)
  IN  /\ call[t].at = "recording"
      /\ IF Recordable(line)
         THEN /\ store(ProcessOf[t], TaxRecord(call[t], line))
              /\ call' = [call EXCEPT ![t] =
                   IF rest = <<>> THEN NoCall ELSE [@ EXCEPT !.lines = rest]]
              /\ UNCHANGED refused
         ELSE /\ refused' = refused \cup {call[t].id}
              /\ call' = [call EXCEPT ![t] = NoCall]
              /\ UNCHANGED records
      /\ UNCHANGED <<event_loop, day, counter, run, started, issued>>

NextDay ==
  /\ day < Len(Calendar)
  /\ day' = day + 1
  /\ UNCHANGED <<event_loop, counter, run, call, started, issued, records, refused>>

\* A process dies and is started again.
Restart(p) ==
  /\ run[p] < MaxRestarts
  /\ run' = [run EXCEPT ![p] = @ + 1]
  /\ counter' = [counter EXCEPT ![p] = 0]
  /\ call' = [t \in Threads |-> IF ProcessOf[t] = p THEN NoCall ELSE call[t]]
  /\ records' = [records EXCEPT ![p] = <<>>]
  /\ UNCHANGED <<event_loop, day, started, issued, refused>>

Next ==
  \/ NextDay
  \/ \E p \in Processes : Restart(p)
  \/ \E t \in Threads : Load(t) \/ Store(t) \/ Number(t) \/ Issue(t) \/ RecordLine(t)

Spec == Init /\ [][Next]_vars

-----------------------------------------------------------------------------
(* Properties.                                                             *)

\* "Invoice date and unique number": on one event loop, two invoices share a number
\* only if different runs of the generator issued them; the number never names a
\* month after that of the invoice date.
DuplicateNumberHasACause ==
  /\ \A i, j \in issued :
       event_loop /\ i.id # j.id /\ i.number = j.number =>
         i.process # j.process \/ i.run # j.run
  /\ \A i \in issued : i.number[1] <= Month(i.date)

\* The rate a country charges on day d: that of the greatest effective date not
\* after d, or the oldest one.
RateOn(c, d) ==
  LET rates == ToSet(Rates(c))
      past  == {r \in rates : r.effective_from <= d}
  IN  IF past # {}
      THEN (CHOOSE r \in past : \A s \in past : s.effective_from <= r.effective_from).rate
      ELSE (CHOOSE r \in rates : \A s \in rates : r.effective_from <= s.effective_from).rate

Abs(n) == IF n < 0 THEN -n ELSE n

\* The line is taxed at the rate in force on its day, to the nearest cent, and a
\* whole-cent net amount can be recovered from its gross.
LineIsExact(line) ==
  LET v == vat_calculation(line)
      back == calculate_from_gross(v.gross, line.country_code, line.transaction_date)
  IN  /\ v.rate = RateOn(line.country_code.code, line.transaction_date)
      /\ 2 * Abs(1000 * v.vat - v.net * v.rate) <= 1000 * Cent
      /\ v.net % Cent = 0 => back = v

\* Rounding line by line moves the VAT by at most half a cent per line, and the gross
\* total is that of the lines.
TotalsAreExact(lines) ==
  LET exact == SumFunction([i \in 1..Len(lines) |->
                 vat_calculation(lines[i]).net * vat_calculation(lines[i]).rate])
  IN  /\ 2 * Abs(1000 * total_vat(lines) - exact) <= 1000 * Cent * Len(lines)
      /\ total_gross(lines) =
           SumFunction([i \in 1..Len(lines) |-> vat_calculation(lines[i]).gross])

\* Each line of an invoice for a country with a rate is taxed at the one in force on
\* its day, to the nearest cent; a whole-cent net amount can be recovered from its
\* gross; and if all lines are, rounding line by line moves the VAT of the invoice by
\* at most half a cent per line.
VatIsExact ==
  \A inv \in issued : LET lines == inv.lines IN
    /\ \A i \in 1..Len(lines) : Known(lines[i].country_code) => LineIsExact(lines[i])
    /\ (\A i \in 1..Len(lines) : Known(lines[i].country_code)) => TotalsAreExact(lines)

\* The invoice is no longer being recorded and its process has not been restarted.
Settled(inv) ==
  /\ run[inv.process] = inv.run
  /\ \A t \in Threads : call[t].id # inv.id

\* The records that an invoice has in the store of its process.
RecordsOf(inv) ==
  {k \in 1..Len(records[inv.process]) : records[inv.process][k].invoice = inv.id}

\* Record r tells of the line, and is kept at least seven years.
Tells(r, line) ==
  /\ Known(line.country_code)
  /\ r.net = vat_calculation(line).net /\ r.vat = vat_calculation(line).vat
  /\ r.retention_until >= line.transaction_date + 70000

\* The records of the invoice that get_by_country finds under the country of a line,
\* in upper case, on its day.
FoundWith(inv, line) ==
  {r \in ToSet(get_by_country(inv.process, Typed(line.country_code.code, TRUE),
                              line.transaction_date, line.transaction_date)) :
     r.invoice = inv.id}

\* The line is one that vat_calculation or TaxRecord may raise for.
Unrecordable(line) == ~Known(line.country_code) \/ IsLeapDay(line.transaction_date)

\* An invoice that was not refused has one record for each of its lines, and no other,
\* whoever else records invoices in the meantime; one that was has a line that gives a
\* reason, and no record but those of its own lines.  What is looked up under a
\* country on a day are sales of that country and day, and every recorded sale typed
\* in upper case is among them.  The retention report counts every record.
LinesAreRecorded ==
  /\ \A inv \in issued : Settled(inv) => LET lines == inv.lines IN
       /\ \A k \in RecordsOf(inv) : \E i \in 1..Len(lines) :
            Tells(records[inv.process][k], lines[i])
       /\ \A i \in 1..Len(lines) : \A r \in FoundWith(inv, lines[i]) :
            \E j \in 1..Len(lines) :
              /\ lines[j].country_code.code = lines[i].country_code.code
              /\ lines[j].transaction_date = lines[i].transaction_date
              /\ Tells(r, lines[j])
       /\ IF inv.id \in refused
          THEN \E i \in 1..Len(lines) : Unrecordable(lines[i])
          ELSE /\ Cardinality(RecordsOf(inv)) = Len(lines)
               /\ \A i \in 1..Len(lines) : lines[i].country_code.upper =>
                    \E r \in FoundWith(inv, lines[i]) : Tells(r, lines[i])
  /\ \A p \in Processes : SumFunction(get_retention_report(p)) = Len(records[p])
=============================================================================
