--------------------------- MODULE TaxInvoicesProofs ---------------------------
(***************************************************************************)
(* Theorems about invoices, their numbers, their VAT and their records,    *)
(* for any threads, processes, calendar and line items.                    *)
(***************************************************************************)
EXTENDS TaxInvoices, CollectionLemmas

Steps == {"idle", "loaded", "stored", "numbered", "recording"}

\* The invoices that the present run of process p has issued.
OfRun(p) == {i \in issued : i.process = p /\ i.run = run[p]}

\* A record with the fields of NoCall.
IsCall(c) ==
  /\ c = [at |-> c.at, id |-> c.id, lines |-> c.lines, loaded |-> c.loaded,
          number |-> c.number]
  /\ c.at \in Steps /\ c.loaded \in Nat /\ c.number \in Nat \X Nat

\* What the proofs need of the types.
NumberTypes ==
  /\ event_loop \in BOOLEAN /\ day \in 1..Len(Calendar)
  /\ counter \in [Processes -> Nat] /\ run \in [Processes -> Nat]
  /\ call = [t \in Threads |-> call[t]]
  /\ \A t \in Threads : IsCall(call[t])
  /\ \A i \in issued : /\ i.process \in Processes /\ i.run \in 0..run[i.process]
                       /\ i.number \in Nat \X Nat

\* On one event loop a process has one call of generate at a time.
OneCall ==
  \A t, u \in Threads :
    ProcessOf[t] = ProcessOf[u] /\ call[t].at # "idle" /\ call[u].at # "idle" => t = u

\* The counter is what the last call printed, and after the += one that none has.
CounterAhead ==
  /\ \A p \in Processes : \A i \in OfRun(p) : i.number[2] <= counter[p]
  /\ \A t \in Threads :
       /\ call[t].at = "loaded" => call[t].loaded = counter[ProcessOf[t]]
       /\ call[t].at \in {"stored", "numbered"} =>
            \A i \in OfRun(ProcessOf[t]) : i.number[2] < counter[ProcessOf[t]]
       /\ call[t].at = "numbered" => call[t].number[2] = counter[ProcessOf[t]]

Unique ==
  \A i, j \in issued :
    i.id # j.id /\ i.number = j.number => i.process # j.process \/ i.run # j.run

\* A number names a month that has come.
MonthHasCome ==
  /\ \A t \in Threads : call[t].at = "numbered" => call[t].number[1] <= Month(today)
  /\ \A i \in issued : i.number[1] <= Month(i.date)

\* The strengthening of DuplicateNumberHasACause.
NInv == NumberTypes /\ (event_loop => OneCall /\ CounterAhead /\ Unique) /\ MonthHasCome

-----------------------------------------------------------------------------
\* A record with those fields is a call.
LEMMA MakeCall ==
  ASSUME NEW a \in Steps, NEW d, NEW l, NEW n \in Nat, NEW k \in Nat \X Nat
  PROVE  IsCall([at |-> a, id |-> d, lines |-> l, loaded |-> n, number |-> k])
  BY DEF IsCall

LEMMA NoCallIsCall == IsCall(NoCall) /\ NoCall.at = "idle"
  BY DEF IsCall, NoCall, NoNumber, Steps

\* The call that Load makes.
LEMMA LoadCall ==
  ASSUME NEW d, NEW l, NEW n
  PROVE  [NoCall EXCEPT !.at = "loaded", !.id = d, !.loaded = n, !.lines = l] =
           [at |-> "loaded", id |-> d, lines |-> l, loaded |-> n, number |-> <<0, 0>>]
<1> DEFINE R(a, b, e, f) ==
      [at |-> a, id |-> b, lines |-> e, loaded |-> f, number |-> <<0, 0>>]
<1>1. NoCall = R("idle", 0, <<>>, 0)
  BY DEF NoCall, NoNumber
<1>2. [R("idle", 0, <<>>, 0) EXCEPT !.at = "loaded"] = R("loaded", 0, <<>>, 0)
  OBVIOUS
<1>3. [R("loaded", 0, <<>>, 0) EXCEPT !.id = d] = R("loaded", d, <<>>, 0)
  OBVIOUS
<1>4. [R("loaded", d, <<>>, 0) EXCEPT !.loaded = n] = R("loaded", d, <<>>, n)
  OBVIOUS
<1>5. [R("loaded", d, <<>>, n) EXCEPT !.lines = l] = R("loaded", d, l, n)
  OBVIOUS
<1> HIDE DEF R
<1>6. [NoCall EXCEPT !.at = "loaded", !.id = d, !.loaded = n, !.lines = l] =
        R("loaded", d, l, n)
  BY <1>1, <1>2, <1>3, <1>4, <1>5, Zenon
<1> QED
  BY <1>6, Zenon DEF R

\* Changing one field of a call leaves the others.
LEMMA MoveCall ==
  ASSUME NEW c, IsCall(c), NEW a \in Steps
  PROVE  /\ IsCall([c EXCEPT !.at = a])
         /\ [c EXCEPT !.at = a].at = a /\ [c EXCEPT !.at = a].loaded = c.loaded
         /\ [c EXCEPT !.at = a].number = c.number
<1>1. [c EXCEPT !.at = a] =
        [at |-> a, id |-> c.id, lines |-> c.lines, loaded |-> c.loaded, number |-> c.number]
  BY DEF IsCall
<1> QED
  BY <1>1, MakeCall DEF IsCall

\* Integer division, as the provers need it.
LEMMA DivBounds ==
  ASSUME NEW a \in Int, NEW b \in Nat \ {0}
  PROVE  a \div b \in Int /\ (a \div b) * b <= a /\ a < (a \div b) * b + b
  BY Z3

\* Months do not go back.
LEMMA MonthGrows ==
  ASSUME NEW c \in Nat, NEW d \in Nat, c <= d
  PROVE  Month(c) \in Nat /\ Month(c) <= Month(d)
  BY DivBounds, Z3 DEF Month

LEMMA InitNInv == Init => NInv
<1> SUFFICES ASSUME Init PROVE NInv
  OBVIOUS
<1>1. 1 \in 1..Len(Calendar)
  BY InvoiceAssumption
<1>2. NumberTypes
  BY <1>1, InvoiceAssumption, NoCallIsCall DEF Init, NumberTypes
<1>3. OneCall /\ CounterAhead /\ Unique /\ MonthHasCome
  BY DEF Init, OneCall, CounterAhead, Unique, MonthHasCome, OfRun, NoCall
<1> QED
  BY <1>2, <1>3 DEF NInv

LEMMA NextNInv == NInv /\ [Next]_vars => NInv'
<1> SUFFICES ASSUME NInv, [Next]_vars PROVE NInv'
  BY Zenon
<1> USE DEF NInv
<1>0. event_loop' = event_loop /\ ProcessOf \in [Threads -> Processes]
  BY InvoiceAssumption DEF Next, vars, NextDay, Restart, Load, Store, Number, Issue, RecordLine
<1>01. today \in Nat /\ Month(today) \in Nat
  BY InvoiceAssumption, MonthGrows DEF NumberTypes, today
<1>02. \A t \in Threads : call[t].number[1] \in Nat /\ call[t].number \in Nat \X Nat
  BY DEF NumberTypes, IsCall
<1>1. CASE UNCHANGED vars
  BY <1>1 DEF vars, NumberTypes, OneCall, CounterAhead, Unique, MonthHasCome, OfRun, today
<1>2. CASE NextDay
  <2>1. /\ day' \in 1..Len(Calendar) /\ today \in Nat /\ today' \in Nat /\ today <= today'
        /\ UNCHANGED <<event_loop, counter, run, call, issued>>
    <3>1. /\ day \in 1..Len(Calendar) /\ day < Len(Calendar) /\ day' = day + 1
          /\ UNCHANGED <<event_loop, counter, run, call, issued>>
      BY <1>2 DEF NextDay, NumberTypes
    <3>2. Len(Calendar) \in Nat /\ \A i \in 1..Len(Calendar) : Calendar[i] \in Nat
      BY InvoiceAssumption
    <3>3. \A i, j \in 1..Len(Calendar) : i < j => Calendar[i] < Calendar[j]
      BY InvoiceAssumption
    <3>4. day' \in 1..Len(Calendar) /\ day < day'
      BY <3>1, <3>2
    <3> QED
      BY <3>1, <3>2, <3>3, <3>4 DEF today
  <2>2. Month(today) \in Nat /\ Month(today') \in Nat /\ Month(today) <= Month(today')
    BY <2>1, MonthGrows
  <2>3. NumberTypes'
    BY <2>1 DEF NumberTypes
  <2>4. (OneCall /\ CounterAhead /\ Unique => OneCall' /\ CounterAhead' /\ Unique')
    BY <2>1 DEF OneCall, CounterAhead, Unique, OfRun
  <2>5. MonthHasCome'
    BY <2>1, <2>2, <1>02 DEF MonthHasCome
  <2> QED
    BY <1>0, <2>3, <2>4, <2>5
<1>3. ASSUME NEW p \in Processes, Restart(p) PROVE NInv'
  <2>1. /\ run' = [run EXCEPT ![p] = @ + 1] /\ counter' = [counter EXCEPT ![p] = 0]
        /\ UNCHANGED <<event_loop, day, issued>>
        /\ call' = [u \in Threads |-> call'[u]]
        /\ \A t \in Threads : call'[t] = IF ProcessOf[t] = p THEN NoCall ELSE call[t]
    BY <1>3 DEF Restart
  <2>2. NumberTypes'
    BY <2>1, NoCallIsCall, SMTT(30) DEF NumberTypes
  <2>3. OneCall => OneCall'
    BY <2>1 DEF OneCall, NoCall
  <2>4. OfRun(p)' = {} /\ \A q \in Processes \ {p} : OfRun(q)' = OfRun(q)
    BY <2>1 DEF OfRun, NumberTypes
  <2>5. CounterAhead => CounterAhead'
    BY <1>0, <2>1, <2>4 DEF CounterAhead, NumberTypes, NoCall
  <2>6. Unique => Unique'
    BY <2>1 DEF Unique
  <2>7. MonthHasCome'
    BY <2>1 DEF MonthHasCome, today, NoCall
  <2> QED
    BY <1>0, <2>2, <2>3, <2>5, <2>6, <2>7
<1>4. ASSUME NEW t \in Threads, Load(t) PROVE NInv'
  <2> DEFINE n == counter[ProcessOf[t]]
  <2>a. PICK list \in LineLists :
          call' = [call EXCEPT ![t] =
            [NoCall EXCEPT
               !.at = "loaded", !.id = started', !.loaded = n,
               !.lines = [i \in 1..Len(list) |->
                            [unit_price_net |-> list[i].unit_price_net,
                             quantity |-> list[i].quantity,
                             country_code |-> list[i].country_code,
                             transaction_date |-> today]]]]
    BY <1>4, Zenon DEF Load
  <2> DEFINE l == [i \in 1..Len(list) |->
                     [unit_price_net |-> list[i].unit_price_net,
                      quantity |-> list[i].quantity,
                      country_code |-> list[i].country_code,
                      transaction_date |-> today]]
             c == [NoCall EXCEPT !.at = "loaded", !.id = started', !.loaded = n, !.lines = l]
             r == [at |-> "loaded", id |-> started', lines |-> l, loaded |-> n,
                   number |-> <<0, 0>>]
  <2>b. call' = [call EXCEPT ![t] = c]
    BY <2>a
  <2> HIDE DEF l
  <2>c. c = r
    BY LoadCall
  <2> HIDE DEF c
  <2>d. r.at = "loaded" /\ r.loaded = n
    OBVIOUS
  <2>e. n \in Nat
    BY <1>0 DEF NumberTypes
  <2>f. "loaded" \in Steps /\ <<0, 0>> \in Nat \X Nat
    BY DEF Steps
  <2>g. IsCall(r)
    BY <2>e, <2>f, MakeCall
  <2> HIDE DEF r
  <2>1. /\ call[t].at = "idle" /\ Alone(t) /\ call' = [u \in Threads |-> call'[u]]
        /\ call'[t] = r
        /\ \A u \in Threads \ {t} : call'[u] = call[u]
        /\ UNCHANGED <<event_loop, day, counter, run, issued>>
    <3>1. call = [u \in Threads |-> call[u]]
      BY DEF NumberTypes
    <3> QED
      BY <1>4, <2>b, <2>c, <3>1 DEF Load
  <2>11. IsCall(call'[t]) /\ call'[t].at = "loaded" /\ call'[t].loaded = n
    BY <2>1, <2>d, <2>g
  <2>2. NumberTypes'
    BY <2>1, <2>11 DEF NumberTypes
  <2>3. event_loop /\ OneCall => OneCall'
    BY <2>1, <2>11 DEF OneCall, Alone
  <2>4. CounterAhead => CounterAhead'
    BY <2>1, <2>11 DEF CounterAhead, OfRun
  <2>5. (Unique => Unique') /\ MonthHasCome'
    BY <2>1, <2>11 DEF Unique, MonthHasCome, today
  <2> QED
    BY <1>0, <2>2, <2>3, <2>4, <2>5
<1>5. ASSUME NEW t \in Threads, Store(t) PROVE NInv'
  <2>1. /\ call[t].at = "loaded" /\ call' = [u \in Threads |-> call'[u]]
        /\ IsCall(call[t]) /\ call'[t] = [call[t] EXCEPT !.at = "stored"]
        /\ counter' = [counter EXCEPT ![ProcessOf[t]] = call[t].loaded + 1]
        /\ \A u \in Threads \ {t} : call'[u] = call[u]
        /\ UNCHANGED <<event_loop, day, run, issued>>
    BY <1>5 DEF Store, Move, NumberTypes
  <2>11. /\ IsCall(call'[t]) /\ call'[t].at = "stored"
         /\ call'[t].loaded = call[t].loaded /\ call'[t].number = call[t].number
         /\ call[t].loaded \in Nat
    BY <2>1, MoveCall, ZenonT(60) DEF Steps, IsCall
  <2>12. counter' \in [Processes -> Nat]
    BY <1>0, <2>1, <2>11 DEF NumberTypes
  <2>2. NumberTypes'
    BY <2>1, <2>11, <2>12 DEF NumberTypes
  <2>3. OneCall => OneCall'
    BY <2>1, <2>11 DEF OneCall
  <2>4. ASSUME OneCall, CounterAhead PROVE CounterAhead'
    <3>1. counter'[ProcessOf[t]] = counter[ProcessOf[t]] + 1
      BY <1>0, <2>1, <2>11, <2>4 DEF CounterAhead, NumberTypes
    <3>2. \A p \in Processes \ {ProcessOf[t]} : counter'[p] = counter[p]
      BY <2>1 DEF NumberTypes
    <3>3. \A p \in Processes : OfRun(p)' = OfRun(p)
      BY <2>1 DEF OfRun
    <3>4. \A p \in Processes : counter[p] \in Nat /\ \A i \in OfRun(p) : i.number[2] \in Nat
      BY DEF NumberTypes, OfRun
    <3>5. \A p \in Processes : \A i \in OfRun(p)' : i.number[2] <= counter'[p]
      BY <1>0, <2>4, <3>1, <3>2, <3>3, <3>4 DEF CounterAhead
    <3>6. \A i \in OfRun(ProcessOf[t])' : i.number[2] < counter'[ProcessOf[t]]
      BY <1>0, <2>4, <3>1, <3>3, <3>4 DEF CounterAhead
    <3>7. ASSUME NEW u \in Threads \ {t}
          PROVE  /\ call'[u].at = "loaded" => call'[u].loaded = counter'[ProcessOf[u]]
                 /\ call'[u].at \in {"stored", "numbered"} =>
                      \A i \in OfRun(ProcessOf[u])' : i.number[2] < counter'[ProcessOf[u]]
                 /\ call'[u].at = "numbered" =>
                      call'[u].number[2] = counter'[ProcessOf[u]]
      <4>1. CASE ProcessOf[u] = ProcessOf[t]
        BY <2>1, <2>4, <4>1 DEF OneCall
      <4>2. CASE ProcessOf[u] # ProcessOf[t]
        BY <1>0, <2>1, <2>4, <3>2, <3>3, <4>2 DEF CounterAhead
      <4> QED
        BY <4>1, <4>2
    <3> QED
      BY <2>1, <2>11, <3>5, <3>6, <3>7 DEF CounterAhead
  <2>5. (Unique => Unique') /\ MonthHasCome'
    BY <2>1, <2>11 DEF Unique, MonthHasCome, today
  <2> QED
    BY <1>0, <2>2, <2>3, <2>4, <2>5
<1>6. ASSUME NEW t \in Threads, Number(t) PROVE NInv'
  <2>1. /\ call[t].at = "stored" /\ call' = [u \in Threads |-> call'[u]]
        /\ IsCall(call[t])
        /\ call'[t] = [[call[t] EXCEPT !.at = "numbered"] EXCEPT
                         !.number = <<Month(today), counter[ProcessOf[t]]>>]
        /\ \A u \in Threads \ {t} : call'[u] = call[u]
        /\ UNCHANGED <<event_loop, day, counter, run, issued>>
    BY <1>6 DEF Number, NumberTypes
  <2>11. call'[t] = [at |-> "numbered", id |-> call[t].id, lines |-> call[t].lines,
                     loaded |-> call[t].loaded,
                     number |-> <<Month(today), counter[ProcessOf[t]]>>]
    BY <2>1 DEF IsCall
  <2>12. /\ IsCall(call'[t]) /\ call'[t].at = "numbered"
         /\ call'[t].number[1] = Month(today)
         /\ call'[t].number[2] = counter[ProcessOf[t]]
    <3>1. call[t].loaded \in Nat /\ <<Month(today), counter[ProcessOf[t]]>> \in Nat \X Nat
      BY <1>0, <1>01, <2>1 DEF NumberTypes, IsCall
    <3> QED
      BY <2>11, <3>1, MakeCall, SMTT(30) DEF Steps
  <2>2. NumberTypes'
    BY <2>1, <2>12 DEF NumberTypes
  <2>3. OneCall => OneCall'
    BY <2>1, <2>12 DEF OneCall
  <2>4. CounterAhead => CounterAhead'
    BY <2>1, <2>12 DEF CounterAhead, OfRun
  <2>5. (Unique => Unique') /\ MonthHasCome'
    <3>1. today' = today
      BY <2>1 DEF today
    <3>2. \A u \in Threads : call'[u].at = "numbered" => call'[u].number[1] <= Month(today)
      <4>1. \A m \in Nat : m <= m
        OBVIOUS
      <4>2. call'[t].number[1] <= Month(today)
        BY <1>01, <2>12, <4>1, Zenon
      <4>3. \A u \in Threads \ {t} :
              call'[u].at = "numbered" => call'[u].number[1] <= Month(today)
        BY <2>1, Zenon DEF MonthHasCome
      <4> QED
        BY <4>2, <4>3
    <3>3. \A i \in issued' : i.number[1] <= Month(i.date)
      BY <2>1 DEF MonthHasCome
    <3>4. MonthHasCome'
      BY <3>1, <3>2, <3>3 DEF MonthHasCome
    <3> QED
      BY <2>1, <3>4 DEF Unique
  <2> QED
    BY <1>0, <2>2, <2>3, <2>4, <2>5
<1>7. ASSUME NEW t \in Threads, Issue(t) PROVE NInv'
  <2> DEFINE inv == [id |-> call[t].id, number |-> call[t].number, date |-> today,
                     lines |-> call[t].lines, process |-> ProcessOf[t],
                     run |-> run[ProcessOf[t]]]
  <2>1. /\ issued' = issued \cup {inv}
        /\ inv.number = call[t].number /\ inv.date = today
        /\ inv.process = ProcessOf[t] /\ inv.run = run[ProcessOf[t]]
    BY <1>7 DEF Issue
  <2> HIDE DEF inv
  <2>2. /\ call[t].at = "numbered" /\ call' = [u \in Threads |-> call'[u]]
        /\ IsCall(call[t]) /\ call'[t] = [call[t] EXCEPT !.at = "recording"]
        /\ \A u \in Threads \ {t} : call'[u] = call[u]
        /\ UNCHANGED <<event_loop, day, counter, run>>
    BY <1>7 DEF Issue, Move, NumberTypes
  <2>21. IsCall(call'[t]) /\ call'[t].at = "recording"
    <3>1. "recording" \in Steps
      BY DEF Steps
    <3> QED
      BY <2>2, <3>1, MoveCall
  <2>22. call[t].number \in Nat \X Nat /\ run[ProcessOf[t]] \in Nat
    BY <1>0, <1>02 DEF NumberTypes
  <2>23. \A i \in issued' : /\ i.process \in Processes /\ i.run \in 0..run[i.process]
                             /\ i.number \in Nat \X Nat
    BY <1>0, <2>1, <2>22 DEF NumberTypes
  <2>3. NumberTypes'
    BY <2>2, <2>21, <2>23 DEF NumberTypes
  <2>4. OneCall => OneCall'
    BY <2>2, <2>21 DEF OneCall
  <2>5. /\ OfRun(ProcessOf[t])' = OfRun(ProcessOf[t]) \cup {inv}
        /\ \A p \in Processes \ {ProcessOf[t]} : OfRun(p)' = OfRun(p)
    BY <1>0, <2>1, <2>2 DEF OfRun
  <2>6. ASSUME OneCall, CounterAhead PROVE CounterAhead'
    <3>1. inv.number[2] = counter[ProcessOf[t]] /\ counter[ProcessOf[t]] \in Nat
      BY <1>0, <2>1, <2>2, <2>6 DEF CounterAhead, NumberTypes
    <3>2. \A p \in Processes : \A i \in OfRun(p)' : i.number[2] <= counter[p]
      BY <1>0, <2>5, <2>6, <3>1 DEF CounterAhead
    <3>3. ASSUME NEW u \in Threads \ {t}
          PROVE  /\ call[u].at = "loaded" => call[u].loaded = counter[ProcessOf[u]]
                 /\ call[u].at \in {"stored", "numbered"} =>
                      \A i \in OfRun(ProcessOf[u])' : i.number[2] < counter[ProcessOf[u]]
                 /\ call[u].at = "numbered" =>
                      call[u].number[2] = counter[ProcessOf[u]]
      <4>1. CASE ProcessOf[u] = ProcessOf[t]
        BY <2>2, <2>6, <4>1 DEF OneCall
      <4>2. CASE ProcessOf[u] # ProcessOf[t]
        BY <1>0, <2>5, <2>6, <4>2 DEF CounterAhead
      <4> QED
        BY <4>1, <4>2
    <3> QED
      BY <2>2, <2>21, <3>2, <3>3 DEF CounterAhead
  <2>7. ASSUME CounterAhead, Unique PROVE Unique'
    <3>1. \A i \in OfRun(ProcessOf[t]) : i.number[2] < call[t].number[2]
      BY <2>2, <2>7 DEF CounterAhead
    <3>2. \A i \in OfRun(ProcessOf[t]) : i.number \in Nat \X Nat
      BY DEF OfRun, NumberTypes
    <3>4. \A i \in OfRun(ProcessOf[t]) : i.number # inv.number
      BY <2>1, <2>22, <3>1, <3>2
    <3>5. \A i \in issued : i.number = inv.number =>
            i.process # inv.process \/ i.run # inv.run
      BY <2>1, <3>4 DEF OfRun
    <3> QED
      BY <2>1, <2>7, <3>5 DEF Unique
  <2>8. MonthHasCome'
    BY <2>1, <2>2, <2>21 DEF MonthHasCome, today
  <2> QED
    BY <1>0, <2>3, <2>4, <2>6, <2>7, <2>8
<1>8. ASSUME NEW t \in Threads, RecordLine(t) PROVE NInv'
  <2>1. /\ call[t].at = "recording" /\ call' = [u \in Threads |-> call'[u]]
        /\ IsCall(call[t])
        /\ \/ call'[t] = NoCall
           \/ call'[t] = [call[t] EXCEPT !.lines = Tail(call[t].lines)]
        /\ \A u \in Threads \ {t} : call'[u] = call[u]
        /\ UNCHANGED <<event_loop, day, counter, run, issued>>
    BY <1>8 DEF RecordLine, NumberTypes
  <2> DEFINE Good == IsCall(call'[t]) /\ call'[t].at \in {"idle", "recording"}
  <2>11. ASSUME call'[t] = NoCall PROVE Good
    BY <2>11, NoCallIsCall
  <2>12. ASSUME call'[t] = [call[t] EXCEPT !.lines = Tail(call[t].lines)] PROVE Good
    <3>1. call'[t] = [at |-> "recording", id |-> call[t].id,
                      lines |-> Tail(call[t].lines), loaded |-> call[t].loaded,
                      number |-> call[t].number]
      BY <2>1, <2>12 DEF IsCall
    <3> QED
      BY <2>1, <3>1, MakeCall DEF IsCall
  <2>13. IsCall(call'[t]) /\ call'[t].at \in {"idle", "recording"}
    BY <2>1, <2>11, <2>12
  <2>2. NumberTypes'
    BY <2>1, <2>13 DEF NumberTypes
  <2>3. OneCall => OneCall'
    BY <2>1, <2>13 DEF OneCall
  <2>4. CounterAhead => CounterAhead'
    BY <2>1, <2>13 DEF CounterAhead, OfRun
  <2>5. (Unique => Unique') /\ MonthHasCome'
    BY <2>1, <2>13 DEF Unique, MonthHasCome, today
  <2> QED
    BY <1>0, <2>2, <2>3, <2>4, <2>5
<1> QED
  BY <1>1, <1>2, <1>3, <1>4, <1>5, <1>6, <1>7, <1>8, SMTT(30) DEF Next

\* On one event loop two invoices share a number only if different runs of the
\* generator issued them, whatever else runs, restarts or happens at midnight.
THEOREM NumbersUniquePerRun == Spec => []DuplicateNumberHasACause
<1>1. NInv => DuplicateNumberHasACause
  BY DEF NInv, Unique, MonthHasCome, DuplicateNumberHasACause
<1> QED
  BY InitNInv, NextNInv, <1>1, PTL DEF Spec

-----------------------------------------------------------------------------
(* The rate table.                                                         *)

\* A country with one rate charges it on every day.
LEMMA OneRate ==
  ASSUME NEW country, NEW r, NEW e \in Int, NEW d \in Int,
         Rates(country.code) = <<From(r, e)>>
  PROVE  get_vat_rate(country, d) = r /\ RateOn(country.code, d) = r
<1> DEFINE rates == Rates(country.code)
           from  == {i \in 1..Len(rates) : d >= rates[i].effective_from}
<1>1. Len(rates) = 1 /\ rates[1].rate = r /\ rates[1].effective_from = e
  BY DEF From
<1>2. ToSet(rates) = {From(r, e)}
  BY DEF ToSet
<1>3. get_vat_rate(country, d) = r
  <2>1. from = {} \/ from = {1}
    BY <1>1
  <2>2. from = {1} => Min(from) = 1
    BY DEF Min
  <2> QED
    BY <1>1, <2>1, <2>2 DEF get_vat_rate
<1>4. RateOn(country.code, d) = r
  <2> DEFINE all  == ToSet(rates)
             past == {x \in all : x.effective_from <= d}
  <2>1. From(r, e).rate = r /\ From(r, e).effective_from = e
    BY DEF From
  <2>2. past = {} \/ past = {From(r, e)}
    BY <1>2
  <2>3. (CHOOSE x \in {From(r, e)} : \A s \in {From(r, e)} : x.effective_from <= s.effective_from) = From(r, e)
    BY <2>1
  <2>4. (CHOOSE x \in {From(r, e)} : \A s \in {From(r, e)} : s.effective_from <= x.effective_from) = From(r, e)
    BY <2>1
  <2> QED
    BY <1>2, <2>1, <2>2, <2>3, <2>4 DEF RateOn
<1> QED
  BY <1>3, <1>4

\* A country with two, the newer first.
LEMMA TwoRates ==
  ASSUME NEW country, NEW r, NEW e \in Int, NEW q, NEW f \in Int, f < e, NEW d \in Int,
         Rates(country.code) = <<From(r, e), From(q, f)>>
  PROVE  LET rate == IF d >= e THEN r ELSE q
         IN  get_vat_rate(country, d) = rate /\ RateOn(country.code, d) = rate
<1> DEFINE rates == Rates(country.code)
           from  == {i \in 1..Len(rates) : d >= rates[i].effective_from}
           a == From(r, e)
           b == From(q, f)
           rate == IF d >= e THEN r ELSE q
<1>1. /\ Len(rates) = 2 /\ rates[1].rate = r /\ rates[1].effective_from = e
      /\ rates[2].rate = q /\ rates[2].effective_from = f
  BY DEF From
<1>2. ToSet(rates) = {a, b}
  BY DEF ToSet
<1>3. a.rate = r /\ a.effective_from = e /\ b.rate = q /\ b.effective_from = f
  BY DEF From
<1>4. get_vat_rate(country, d) = rate
  <2>1. CASE d >= e
    <3>1. from = {1, 2}
      BY <1>1, <2>1
    <3>2. Min(from) = 1
      BY <3>1 DEF Min
    <3> QED
      BY <1>1, <2>1, <3>1, <3>2 DEF get_vat_rate
  <2>2. CASE d < e /\ d >= f
    <3>1. from = {2}
      BY <1>1, <2>2
    <3>2. Min(from) = 2
      BY <3>1 DEF Min
    <3> QED
      BY <1>1, <2>2, <3>1, <3>2 DEF get_vat_rate
  <2>3. CASE d < f
    <3>1. from = {}
      BY <1>1, <2>3
    <3> QED
      BY <1>1, <2>3, <3>1 DEF get_vat_rate
  <2> QED
    BY <2>1, <2>2, <2>3
<1>5. RateOn(country.code, d) = rate
  <2> DEFINE all  == {a, b}
             past == {x \in all : x.effective_from <= d}
             Oldest(S) == CHOOSE x \in S : \A s \in S : x.effective_from <= s.effective_from
             Newest(S) == CHOOSE x \in S : \A s \in S : s.effective_from <= x.effective_from
  <2> HIDE DEF a, b
  <2>0. RateOn(country.code, d) = IF past # {} THEN Newest(past).rate ELSE Oldest(all).rate
    <3> DEFINE Past(S) == {x \in S : x.effective_from <= d}
               R(S) == IF Past(S) # {} THEN Newest(Past(S)).rate ELSE Oldest(S).rate
    <3>1. RateOn(country.code, d) = R(ToSet(rates))
      BY DEF RateOn
    <3>2. R(all) = IF past # {} THEN Newest(past).rate ELSE Oldest(all).rate
      OBVIOUS
    <3> HIDE DEF R
    <3>3. R(ToSet(rates)) = R(all)
      BY <1>2
    <3> QED
      BY <3>1, <3>2, <3>3
  <2>1. CASE d >= e
    <3>1. past = {a, b}
      BY <1>3, <2>1
    <3>2. Newest({a, b}) = a
      BY <1>3
    <3> QED
      BY <1>3, <2>0, <2>1, <3>1, <3>2
  <2>2. CASE d < e /\ d >= f
    <3>1. past = {b}
      BY <1>3, <2>2
    <3>2. Newest({b}) = b
      BY <1>3
    <3> QED
      BY <1>3, <2>0, <2>2, <3>1, <3>2
  <2>3. CASE d < f
    <3>1. past = {}
      BY <1>3, <2>3
    <3>2. Oldest(all) = b
      BY <1>3
    <3> QED
      BY <1>3, <2>0, <2>3, <3>1, <3>2
  <2> QED
    BY <2>1, <2>2, <2>3
<1> QED
  BY <1>4, <1>5

PerMille == 1..999

\* country_rates.py: the first rate of the list in force is that of the greatest
\* effective date not after the day, and rates lie strictly between 0 and 1.
LEMMA RateFacts ==
  ASSUME NEW country, country.code \in EU_27, NEW d \in Int
  PROVE  /\ get_vat_rate(country, d) = RateOn(country.code, d)
         /\ get_vat_rate(country, d) \in PerMille
<1> USE DEF PerMille
<1> DEFINE c == country.code
<1>1. CASE c \in {"LT", "LV"}
  <2>1. \E e \in Int : Rates(c) = <<From(210, e)>>
    BY <1>1 DEF Rates, BALTIC_RATES
  <2> QED
    BY <2>1, OneRate
<1>2. CASE c = "EE"
  <2>1. Rates(c) = <<From(240, 20250701), From(220, 20240101)>>
    BY <1>2 DEF Rates, BALTIC_RATES
  <2> QED
    BY <2>1, TwoRates
<1>3. CASE c \notin {"LT", "LV", "EE"}
  <2>1. c \in DOMAIN OTHER_RATES /\ Rates(c) = <<From(OTHER_RATES[c], 0)>>
    BY <1>3 DEF Rates, BALTIC_RATES, EU_27
  <2>2. OTHER_RATES[c] \in 1..999
    BY <2>1 DEF OTHER_RATES
  <2> QED
    BY <2>1, <2>2, OneRate
<1> QED
  BY <1>1, <1>2, <1>3

-----------------------------------------------------------------------------
(* Rounding.                                                               *)

\* ROUND_HALF_UP is within a half, and nothing else is within less than a half.
LEMMA RoundBounds ==
  ASSUME NEW num \in Int, NEW den \in Nat \ {0}
  PROVE  /\ RoundHalfUp(num, den) \in Int
         /\ 2 * (RoundHalfUp(num, den) * den) - 2 * num <= den
         /\ 2 * num - 2 * (RoundHalfUp(num, den) * den) <= den
<1>1. CASE num >= 0
  <2> DEFINE q == (2 * num + den) \div (2 * den)
  <2>1. q \in Int /\ q * (2 * den) <= 2 * num + den /\ 2 * num + den < q * (2 * den) + 2 * den
    <3>1. 2 * num + den \in Int /\ 2 * den \in Nat \ {0}
      OBVIOUS
    <3> QED
      BY <3>1, DivBounds, Zenon
  <2>2. RoundHalfUp(num, den) = q
    BY <1>1 DEF RoundHalfUp
  <2> HIDE DEF q
  <2>3. q * (2 * den) = 2 * (q * den) /\ q * den \in Int
    BY <2>1
  <2> QED
    BY <2>1, <2>2, <2>3
<1>2. CASE num < 0
  <2> DEFINE q == (den - 2 * num) \div (2 * den)
  <2>1. q \in Int /\ q * (2 * den) <= den - 2 * num /\ den - 2 * num < q * (2 * den) + 2 * den
    <3>1. den - 2 * num \in Int /\ 2 * den \in Nat \ {0}
      OBVIOUS
    <3> QED
      BY <3>1, DivBounds, Zenon
  <2>2. RoundHalfUp(num, den) = -q
    BY <1>2 DEF RoundHalfUp
  <2> HIDE DEF q
  <2>3. q * (2 * den) = 2 * (q * den) /\ q * den \in Int /\ (-q) * den = -(q * den)
    BY <2>1
  <2> QED
    BY <2>1, <2>2, <2>3
<1> QED
  BY <1>1, <1>2

LEMMA RoundUnique ==
  ASSUME NEW num \in Int, NEW den \in Nat \ {0}, NEW k \in Int,
         2 * num - 2 * (k * den) < den, 2 * (k * den) - 2 * num < den
  PROVE  RoundHalfUp(num, den) = k
<1> DEFINE q == RoundHalfUp(num, den)
<1>1. /\ q \in Int /\ 2 * (q * den) - 2 * num <= den /\ 2 * num - 2 * (q * den) <= den
  BY RoundBounds
<1> HIDE DEF q
<1>2. q * den \in Int /\ k * den \in Int /\ (q - k) * den = q * den - k * den
  BY <1>1
<1>3. (q - k) * den < den /\ -den < (q - k) * den
  BY <1>1, <1>2
<1>4. q - k = 0
  <2>1. q - k >= 1 => (q - k) * den >= den
    BY <1>1
  <2>2. q - k <= -1 => (q - k) * den <= -den
    BY <1>1
  <2> QED
    BY <1>1, <1>3, <2>1, <2>2
<1> QED
  BY <1>1, <1>4 DEF q

\* What rounding adds to the VAT of a net amount, in thousandths.
Excess(net, rate) == 1000 * VatOf(net, rate) - net * rate

\* The VAT of a net amount is within half a cent of the exact one.
LEMMA VatBounds ==
  ASSUME NEW net \in Int, NEW rate, rate \in 1..999
  PROVE  /\ VatOf(net, rate) \in Int /\ Excess(net, rate) \in Int
         /\ 2 * Excess(net, rate) <= 10000 /\ -10000 <= 2 * Excess(net, rate)
<1> DEFINE n == net * rate
           q == RoundHalfUp(n, 10000)
<1>1. n \in Int /\ 10000 \in Nat \ {0}
  OBVIOUS
<1>2. VatOf(net, rate) = 10 * q
  BY DEF VatOf, Cent
<1> HIDE DEF n
<1>3. q \in Int /\ 2 * (q * 10000) - 2 * n <= 10000 /\ 2 * n - 2 * (q * 10000) <= 10000
  BY <1>1, RoundBounds
<1> HIDE DEF q
<1>4. Excess(net, rate) = 1000 * (10 * q) - n
  BY <1>2 DEF Excess, n
<1> QED
  BY <1>1, <1>2, <1>3, <1>4

\* A whole number of cents comes back from its gross amount.
LEMMA NetRecovered ==
  ASSUME NEW net \in Int, NEW rate, rate \in 1..999, net % Cent = 0
  PROVE  NetOf(net + VatOf(net, rate), rate) = net
<1> DEFINE k == net \div 10
           q == RoundHalfUp(net * rate, 10000)
           kr == k * rate
<1>1. k \in Int /\ net = 10 * k
  BY Z3 DEF Cent
<1>2. VatOf(net, rate) = 10 * q
  BY DEF VatOf, Cent
<1>3. Excess(net, rate) \in Int /\ 2 * Excess(net, rate) <= 10000 /\ -10000 <= 2 * Excess(net, rate)
  BY VatBounds
<1>4. q \in Int
  <2> DEFINE n == net * rate
  <2>1. n \in Int /\ 10000 \in Nat \ {0}
    OBVIOUS
  <2> HIDE DEF n
  <2>2. RoundHalfUp(n, 10000) \in Int
    BY <2>1, RoundBounds
  <2> QED
    BY <2>2 DEF n
<1> HIDE DEF k, q
<1>5. kr \in Int /\ net * rate = 10 * kr
  BY <1>1
<1>6. 2 * (1000 * q - kr) <= 1000 /\ 2 * (kr - 1000 * q) <= 1000
  <2>1. Excess(net, rate) = 1000 * (10 * q) - 10 * kr
    BY <1>2, <1>5 DEF Excess
  <2> HIDE DEF kr
  <2> QED
    BY <1>3, <1>4, <1>5, <2>1
<1> DEFINE num == (net + VatOf(net, rate)) * 1000
           den == (1000 + rate) * 10
<1>7. num = 10000 * k + 10000 * q /\ den \in Nat \ {0} /\ den = 10000 + 10 * rate
  BY <1>1, <1>2, <1>4
<1>8. k * den = 10000 * k + 10 * kr
  <2>1. k * (10000 + 10 * rate) = 10000 * k + 10 * (k * rate)
    BY <1>1
  <2> QED
    BY <1>7, <2>1
<1>9. NetOf(net + VatOf(net, rate), rate) = 10 * RoundHalfUp(num, den)
  BY DEF NetOf, Cent
<1> HIDE DEF num, den, kr
<1>10. num \in Int /\ 2 * num - 2 * (k * den) < den /\ 2 * (k * den) - 2 * num < den
  BY <1>1, <1>4, <1>5, <1>6, <1>7, <1>8
<1>11. RoundHalfUp(num, den) = k
  BY <1>1, <1>7, <1>10, RoundUnique
<1> QED
  BY <1>1, <1>9, <1>11

-----------------------------------------------------------------------------
(* The lines of an invoice.                                                *)

Lines == [unit_price_net : Int, quantity : Int,
          country_code : [code : STRING, upper : BOOLEAN], transaction_date : Nat]

\* vat_calculation of one line.
LEMMA LineFacts ==
  ASSUME NEW line \in Lines, Known(line.country_code)
  PROVE  LET v == vat_calculation(line)
             back == calculate_from_gross(v.gross, line.country_code, line.transaction_date)
         IN  /\ v.net \in Int /\ v.vat \in Int /\ v.rate \in Int
             /\ v.gross = v.net + v.vat /\ v.country_code = line.country_code
             /\ v.rate = RateOn(line.country_code.code, line.transaction_date)
             /\ 1000 * v.vat - v.net * v.rate = Excess(v.net, v.rate)
             /\ Excess(v.net, v.rate) \in Int
             /\ 2 * Excess(v.net, v.rate) <= 10000 /\ -10000 <= 2 * Excess(v.net, v.rate)
             /\ v.net % Cent = 0 => back = v
<1> DEFINE country == line.country_code
           d == line.transaction_date
           net == line.unit_price_net * line.quantity
           rate == get_vat_rate(country, d)
           vat == VatOf(net, rate)
           v == vat_calculation(line)
           back == calculate_from_gross(v.gross, country, d)
<1>1. country.code \in EU_27 /\ d \in Int /\ net \in Int
  BY DEF Lines, Known
<1>2. v = VatCalculation(net, vat, net + vat, rate, country)
  BY DEF vat_calculation, calculate_from_net
<1>3. back = VatCalculation(NetOf(v.gross, rate), v.gross - NetOf(v.gross, rate), v.gross,
                            rate, country)
  BY DEF calculate_from_gross
<1> HIDE DEF country, d, net, back, v
<1>4. rate = RateOn(country.code, d) /\ rate \in 1..999
  <2>1. country.code \in EU_27 /\ d \in Int
    BY <1>1
  <2>2. rate = RateOn(country.code, d) /\ rate \in PerMille
    BY <2>1, RateFacts, Zenon
  <2> QED
    BY <2>2, Zenon DEF PerMille
<1> HIDE DEF rate
<1>5. /\ vat \in Int /\ Excess(net, rate) \in Int
      /\ 2 * Excess(net, rate) <= 10000 /\ -10000 <= 2 * Excess(net, rate)
  BY <1>1, <1>4, VatBounds
<1>51. 1000 * vat - net * rate = Excess(net, rate)
  BY DEF Excess
<1>6. net % Cent = 0 => NetOf(net + vat, rate) = net
  BY <1>1, <1>4, NetRecovered
<1> HIDE DEF vat
<1>7. /\ v.net = net /\ v.vat = vat /\ v.gross = net + vat /\ v.rate = rate
      /\ v.country_code = country
  BY <1>2 DEF VatCalculation
<1>8. net % Cent = 0 => back = v
  <2>1. (net + vat) - net = vat
    BY <1>1, <1>5
  <2>2. SUFFICES ASSUME net % Cent = 0 PROVE back = v
    OBVIOUS
  <2>3. NetOf(v.gross, rate) = net /\ v.gross - NetOf(v.gross, rate) = vat
    BY <1>6, <1>7, <2>1, <2>2
  <2> QED
    BY <1>2, <1>3, <1>7, <2>3, Zenon
<1> QED
  BY <1>1, <1>4, <1>5, <1>51, <1>7, <1>8 DEF country, d, v, back

\* An invoice of such lines has what VatIsExact asks of it.
LEMMA InvoiceIsExact ==
  ASSUME NEW lines \in Seq(Lines), \A i \in 1..Len(lines) : Known(lines[i].country_code)
  PROVE  TotalsAreExact(lines)
<1> DEFINE S == 1..Len(lines)
           net == [i \in S |-> vat_calculation(lines[i]).net]
           vat == [i \in S |-> vat_calculation(lines[i]).vat]
           gross == [i \in S |-> vat_calculation(lines[i]).gross]
           due == [i \in S |-> vat_calculation(lines[i]).net * vat_calculation(lines[i]).rate]
           \* what rounding adds, twice, and how far that is from its two limits
           off == [i \in S |-> 2000 * vat[i] + (-2) * due[i]]
           two == [i \in S |-> 2000 * vat[i]]
           neg == [i \in S |-> (-2) * due[i]]
           one == [i \in S |-> 1]
           lim == [i \in S |-> 10000 * one[i]]
           below == [i \in S |-> lim[i] - off[i]]
           above == [i \in S |-> lim[i] + off[i]]
           Total(f) == SumFunctionOnSet(f, S)
<1>1. Len(lines) \in Nat /\ IsFiniteSet(S) /\ Cardinality(S) = Len(lines)
  <2>1. Len(lines) \in Nat /\ 1 \in Int /\ Len(lines) \in Int
    OBVIOUS
  <2>2. IsFiniteSet(S) /\ Cardinality(S) = IF 1 > Len(lines) THEN 0 ELSE Len(lines) - 1 + 1
    BY <2>1, FS_Interval, Zenon
  <2> QED
    BY <2>1, <2>2
<1>2. ASSUME NEW i \in S
      PROVE  /\ net[i] \in Int /\ vat[i] \in Int /\ gross[i] = net[i] + vat[i]
             /\ due[i] \in Int
             /\ 2 * (1000 * vat[i] - due[i]) <= 10000
             /\ -10000 <= 2 * (1000 * vat[i] - due[i])
  <2>1. lines[i] \in Lines /\ Known(lines[i].country_code)
    OBVIOUS
  <2> DEFINE v == vat_calculation(lines[i])
  <2>2. /\ v.net \in Int /\ v.vat \in Int /\ v.rate \in Int /\ v.gross = v.net + v.vat
        /\ 1000 * v.vat - v.net * v.rate = Excess(v.net, v.rate)
        /\ 2 * Excess(v.net, v.rate) <= 10000 /\ -10000 <= 2 * Excess(v.net, v.rate)
    <3>1. PICK l : l = lines[i]
      OBVIOUS
    <3>2. l \in Lines /\ Known(l.country_code)
      BY <2>1, <3>1, Zenon
    <3> DEFINE w == vat_calculation(l)
    <3> HIDE DEF S, net, vat, gross, due, off, two, neg, one, lim, below, above, Total
    <3>3. /\ w.net \in Int /\ w.vat \in Int /\ w.rate \in Int /\ w.gross = w.net + w.vat
          /\ 1000 * w.vat - w.net * w.rate = Excess(w.net, w.rate)
          /\ 2 * Excess(w.net, w.rate) <= 10000 /\ -10000 <= 2 * Excess(w.net, w.rate)
      BY <3>2, LineFacts
    <3>4. w = v
      BY <3>1
    <3> HIDE DEF v, w
    <3> QED
      BY <3>3, <3>4
  <2>3. /\ net[i] = v.net /\ vat[i] = v.vat /\ gross[i] = v.gross /\ due[i] = v.net * v.rate
    OBVIOUS
  <2>4. v.net * v.rate \in Int
    BY <2>2
  <2> HIDE DEF v, net, vat, gross, due
  <2> QED
    BY <2>2, <2>3, <2>4
<1>3. /\ total_vat(lines) = Total(vat) /\ total_gross(lines) = Total(net) + Total(vat)
      /\ SumFunction(due) = Total(due) /\ SumFunction(gross) = Total(gross)
  BY DEF total_vat, total_net, total_gross, SumFunction
<1> HIDE DEF net, vat, gross, due
<1>4. Total(gross) = Total(net) + Total(vat)
  <2>1. \A i \in S : net[i] \in Int /\ vat[i] \in Int /\ gross[i] = net[i] + vat[i]
    BY <1>2
  <2> HIDE DEF S
  <2> QED
    BY <1>1, <2>1, SumPlus
<1>5. Total(vat) \in Int /\ Total(due) \in Int
  <2>1. (\A i \in S : vat[i] \in Int) /\ (\A i \in S : due[i] \in Int)
    BY <1>2
  <2> QED
    BY <1>1, <2>1, SumType
<1>6. Total(two) = 2000 * Total(vat) /\ Total(neg) = (-2) * Total(due)
  <2>1. \A i \in S : vat[i] \in Int /\ two[i] = 2000 * vat[i]
    BY <1>2
  <2>2. \A i \in S : due[i] \in Int /\ neg[i] = (-2) * due[i]
    BY <1>2
  <2> HIDE DEF two, neg, S
  <2>3. Total(two) = 2000 * Total(vat)
    BY <1>1, <2>1, SumScale, 2000 \in Int
  <2>4. Total(neg) = (-2) * Total(due)
    BY <1>1, <2>2, SumScale, -2 \in Int
  <2> QED
    BY <2>3, <2>4
<1>7. Total(off) = Total(two) + Total(neg)
  <2>1. \A i \in S : two[i] \in Int /\ neg[i] \in Int /\ off[i] = two[i] + neg[i]
    BY <1>2
  <2> HIDE DEF two, neg, off
  <2> QED
    BY <1>1, <2>1, SumPlus
<1>8. Total(lim) = 10000 * Len(lines)
  <2>1. Total(one) = Cardinality(S)
    BY <1>1, SumOfOnes
  <2>2. \A i \in S : one[i] \in Int /\ lim[i] = 10000 * one[i]
    OBVIOUS
  <2> HIDE DEF one, lim
  <2>3. Total(lim) = 10000 * Total(one)
    BY <1>1, <2>2, SumScale, 10000 \in Int
  <2> QED
    BY <1>1, <2>1, <2>3
<1>9. ASSUME NEW i \in S
      PROVE  /\ off[i] \in Int /\ lim[i] \in Int /\ below[i] \in Nat /\ above[i] \in Nat
             /\ lim[i] = below[i] + off[i] /\ above[i] = lim[i] + off[i]
  <2>1. off[i] \in Int /\ off[i] <= 10000 /\ -10000 <= off[i]
    <3>1. off[i] = 2000 * vat[i] + (-2) * due[i]
      OBVIOUS
    <3>2. /\ vat[i] \in Int /\ due[i] \in Int
          /\ 2 * (1000 * vat[i] - due[i]) <= 10000
          /\ -10000 <= 2 * (1000 * vat[i] - due[i])
      BY <1>2
    <3> DEFINE o == off[i]
               m == vat[i]
               n == due[i]
    <3>3. /\ o = 2000 * m + (-2) * n /\ m \in Int /\ n \in Int
          /\ 2 * (1000 * m - n) <= 10000 /\ -10000 <= 2 * (1000 * m - n)
      BY <3>1, <3>2
    <3> HIDE DEF o, m, n
    <3>4. o \in Int /\ o <= 10000 /\ -10000 <= o
      BY <3>3
    <3> QED
      BY <3>4 DEF o
  <2>0. lim[i] = 10000
    OBVIOUS
  <2>2. below[i] = lim[i] - off[i] /\ above[i] = lim[i] + off[i]
    OBVIOUS
  <2> HIDE DEF off, lim, below, above
  <2> QED
    BY <2>1, <2>0, <2>2
<1> HIDE DEF off, two, neg, one, lim, below, above
<1>10. Total(below) \in Nat /\ Total(above) \in Nat /\ Total(off) \in Int
  BY <1>1, <1>9, SumOfNats, SumType
<1>11. Total(lim) = Total(below) + Total(off)
  <2>1. \A i \in S : below[i] \in Int /\ off[i] \in Int /\ lim[i] = below[i] + off[i]
    BY <1>9
  <2> QED
    BY <1>1, <2>1, SumPlus
<1>12. Total(above) = Total(lim) + Total(off)
  <2>1. \A i \in S : lim[i] \in Int /\ off[i] \in Int /\ above[i] = lim[i] + off[i]
    BY <1>9
  <2> QED
    BY <1>1, <2>1, SumPlus
<1> HIDE DEF Total
<1> DEFINE V == Total(vat)
           D == Total(due)
           F == Total(off)
           L == 10000 * Len(lines)
<1>13. /\ 2 * (1000 * Total(vat) - Total(due)) <= 10000 * Len(lines)
       /\ 2 * (Total(due) - 1000 * Total(vat)) <= 10000 * Len(lines)
  <2>1. V \in Int /\ D \in Int /\ F \in Int /\ L \in Int /\ F = 2000 * V + (-2) * D
    BY <1>1, <1>5, <1>6, <1>7, <1>10
  <2>2. \E b, a \in Nat : L = b + F /\ a = L + F
    BY <1>8, <1>10, <1>11, <1>12
  <2> HIDE DEF V, D, F, L
  <2>3. 2 * (1000 * V - D) <= L /\ 2 * (D - 1000 * V) <= L
    BY <2>1, <2>2
  <2> QED
    BY <2>3 DEF V, D, L
<1>14. 2 * Abs(1000 * Total(vat) - Total(due)) <= 1000 * Cent * Len(lines)
  BY <1>1, <1>5, <1>13 DEF Abs, Cent
<1> QED
  BY <1>3, <1>4, <1>14 DEF due, gross, TotalsAreExact

-----------------------------------------------------------------------------
(* The records of an invoice.                                              *)

Codes == [code : STRING, upper : BOOLEAN]

TaxRecords == [invoice : Nat, country_code : Codes, net : Int, vat : Int,
               transaction_date : Nat, retention_until : Nat]

\* The lines were made on one day of the calendar.
OneDay(lines) ==
  \E c \in 1..Len(Calendar) : \A i \in 1..Len(lines) : lines[i].transaction_date = Calendar[c]

\* Of the lines of an invoice, the list has the records of the first k, each once, and
\* no other record of the invoice.
Own(list, inv) == {n \in 1..Len(list) : list[n].invoice = inv.id}
Recorded(list, inv, k) ==
  /\ Cardinality(Own(list, inv)) = k
  /\ \A i \in 1..k :
       /\ ~Unrecordable(inv.lines[i])
       /\ \E n \in Own(list, inv) : list[n] = TaxRecord(inv, inv.lines[i])
  /\ \A n \in Own(list, inv) : \E i \in 1..k : list[n] = TaxRecord(inv, inv.lines[i])

LineTypes ==
  /\ started \in Nat /\ records \in [Processes -> Seq(TaxRecords)]
  /\ \A t \in Threads :
       /\ call[t].lines \in Seq(Lines) /\ OneDay(call[t].lines)
       /\ IF call[t].at = "idle" THEN call[t] = NoCall
          ELSE call[t].id \in 1..started /\ call[t].lines # <<>>
  /\ \A i \in issued : i.lines \in Seq(Lines) /\ OneDay(i.lines) /\ i.id \in 1..started

\* An id names one call and one invoice, which has its records after it was issued.
Ids ==
  /\ \A t, u \in Threads :
       t # u /\ call[t].at # "idle" /\ call[u].at # "idle" => call[t].id # call[u].id
  /\ \A i, j \in issued : i.id = j.id => i = j
  /\ \A t \in Threads :
       call[t].at \in {"loaded", "stored", "numbered"} => \A i \in issued : i.id # call[t].id
  /\ \A p \in Processes : \A n \in 1..Len(records[p]) :
       \E i \in issued : i.id = records[p][n].invoice

\* A call that records an invoice has its last lines left; the others are recorded.
Left(t, inv, k) ==
  /\ inv.id = call[t].id /\ inv.process = ProcessOf[t] /\ inv.run = run[ProcessOf[t]]
  /\ Len(inv.lines) = k + Len(call[t].lines)
  /\ \A i \in 1..Len(call[t].lines) : call[t].lines[i] = inv.lines[k + i]
  /\ Recorded(records[ProcessOf[t]], inv, k)

Recording ==
  \A t \in Threads : call[t].at = "recording" =>
    \E inv \in issued : \E k \in 0..Len(inv.lines) : Left(t, inv, k)

\* An invoice that is done is recorded up to its end, or up to the line it was
\* refused for.
Stopped(inv, k) ==
  \/ k = Len(inv.lines)
  \/ inv.id \in refused /\ k + 1 \in 1..Len(inv.lines) /\ Unrecordable(inv.lines[k + 1])

Finished(inv) ==
  \E k \in 0..Len(inv.lines) : Recorded(records[inv.process], inv, k) /\ Stopped(inv, k)

Done == \A inv \in issued : Settled(inv) => Finished(inv)

\* A refused invoice was issued and has a line that gives a reason.
Refusals ==
  \A id \in refused : \E inv \in issued :
    inv.id = id /\ \E i \in 1..Len(inv.lines) : Unrecordable(inv.lines[i])

\* The strengthening of LinesAreRecorded.
RInv == LineTypes /\ Ids /\ Recording /\ Done /\ Refusals

\* What date(year + 7, month, day) does on a day of the calendar.
LEMMA RetentionFacts ==
  ASSUME NEW c \in 1..Len(Calendar)
  PROVE  LET d == Calendar[c]
         IN  /\ d \in Nat /\ retention_until(d) \in Nat
             /\ retention_until(d) = 0 <=> IsLeapDay(d)
             /\ ~IsLeapDay(d) => retention_until(d) = d + 70000
<1> DEFINE d == Calendar[c]
           y == Year(d)
<1>1. d \in Nat /\ (IsLeapDay(d) => Leap(Year(d)))
  BY InvoiceAssumption
<1> HIDE DEF d
<1>2. Year(d + 70000) = y + 7 /\ y \in Int
  BY <1>1, Z3 DEF Year
<1> HIDE DEF y
<1>3. y % 4 = 0 => (y + 7) % 4 # 0
  BY <1>2, Z3
<1>4. IsLeapDay(d) => ~Leap(Year(d + 70000))
  BY <1>1, <1>2, <1>3 DEF Leap, y
<1>5. retention_until(d) = IF IsLeapDay(d) /\ ~Leap(Year(d + 70000)) THEN 0 ELSE d + 70000
  BY <1>1 DEF retention_until, RETENTION_YEARS
<1> QED
  BY <1>1, <1>4, <1>5 DEF d

\* The fields of a tax record.
LEMMA RecordFacts ==
  ASSUME NEW inv, inv.id \in Nat, NEW line \in Lines, Known(line.country_code),
         NEW c \in 1..Len(Calendar), line.transaction_date = Calendar[c]
  PROVE  LET r == TaxRecord(inv, line)
         IN  /\ r \in TaxRecords /\ r.invoice = inv.id /\ r.country_code = line.country_code
             /\ r.transaction_date = line.transaction_date
             /\ r.net = vat_calculation(line).net /\ r.vat = vat_calculation(line).vat
             /\ r.retention_until = retention_until(line.transaction_date)
<1> DEFINE v == vat_calculation(line)
<1>1. v.net \in Int /\ v.vat \in Int /\ v.country_code = line.country_code
  BY LineFacts
<1>2. line.country_code \in Codes /\ line.transaction_date \in Nat
  BY DEF Lines, Codes
<1>3. retention_until(line.transaction_date) \in Nat
  BY RetentionFacts
<1> HIDE DEF v
<1>4. TaxRecord(inv, line) =
        [invoice |-> inv.id, country_code |-> v.country_code, net |-> v.net, vat |-> v.vat,
         transaction_date |-> line.transaction_date,
         retention_until |-> retention_until(line.transaction_date)]
  BY DEF TaxRecord, v
<1> QED
  BY <1>1, <1>2, <1>3, <1>4 DEF TaxRecords, v

\* A list without records of the invoice.
LEMMA NoneRecorded ==
  ASSUME NEW list \in Seq(TaxRecords), NEW inv,
         \A n \in 1..Len(list) : list[n].invoice # inv.id
  PROVE  Recorded(list, inv, 0)
<1>1. Own(list, inv) = {}
  BY DEF Own
<1> QED
  BY <1>1, FS_EmptySet DEF Recorded

LEMMA OwnFinite ==
  ASSUME NEW list \in Seq(TaxRecords), NEW inv
  PROVE  IsFiniteSet(Own(list, inv)) /\ Cardinality(Own(list, inv)) \in Nat
<1>1. Len(list) \in Int /\ 1 \in Int
  OBVIOUS
<1>2. IsFiniteSet(1..Len(list))
  BY <1>1, FS_Interval
<1>3. Own(list, inv) \subseteq 1..Len(list)
  BY DEF Own
<1> QED
  BY <1>2, <1>3, FS_Subset, FS_CardinalityType

\* store() of a record of another invoice.
LEMMA AppendOther ==
  ASSUME NEW list \in Seq(TaxRecords), NEW r \in TaxRecords, NEW inv, NEW k,
         r.invoice # inv.id, Recorded(list, inv, k)
  PROVE  Recorded(Append(list, r), inv, k)
<1> DEFINE new == Append(list, r)
<1>1. /\ Len(list) \in Nat /\ Len(new) = Len(list) + 1 /\ new[Len(list) + 1] = r
      /\ \A n \in 1..Len(list) : new[n] = list[n]
  BY AppendFacts
<1> HIDE DEF new
<1>2. 1..Len(new) = (1..Len(list)) \cup {Len(list) + 1}
  BY <1>1
<1>3. Own(new, inv) = Own(list, inv)
  BY <1>1, <1>2 DEF Own
<1>4. \A n \in Own(list, inv) : new[n] = list[n]
  BY <1>1 DEF Own
<1>5. Recorded(new, inv, k)
  BY <1>3, <1>4 DEF Recorded
<1> QED
  BY <1>5 DEF new

\* store() of the record of the invoice's next line.
LEMMA AppendOwn ==
  ASSUME NEW list \in Seq(TaxRecords), NEW inv, NEW k \in Nat, Recorded(list, inv, k),
         TaxRecord(inv, inv.lines[k + 1]) \in TaxRecords,
         TaxRecord(inv, inv.lines[k + 1]).invoice = inv.id,
         ~Unrecordable(inv.lines[k + 1])
  PROVE  Recorded(Append(list, TaxRecord(inv, inv.lines[k + 1])), inv, k + 1)
<1> DEFINE r == TaxRecord(inv, inv.lines[k + 1])
           new == Append(list, r)
           m == Len(list) + 1
<1>1. /\ Len(list) \in Nat /\ Len(new) = Len(list) + 1 /\ new[m] = r
      /\ \A n \in 1..Len(list) : new[n] = list[n]
  BY AppendFacts
<1>r. r.invoice = inv.id
  OBVIOUS
<1> HIDE DEF new, r
<1>2. 1..Len(new) = (1..Len(list)) \cup {m} /\ m \notin 1..Len(list)
  BY <1>1
<1>3. Own(new, inv) = Own(list, inv) \cup {m} /\ m \notin Own(list, inv)
  BY <1>r, <1>1, <1>2 DEF Own
<1>4. \A n \in Own(list, inv) : new[n] = list[n]
  BY <1>1 DEF Own
<1> HIDE DEF m
<1>5. Cardinality(Own(new, inv)) = k + 1
  <2>1. Cardinality(Own(list, inv)) = k /\ IsFiniteSet(Own(list, inv))
    BY OwnFinite DEF Recorded
  <2> QED
    BY <1>3, <2>1, FS_AddElement
<1>6. ASSUME NEW i \in 1..(k + 1)
      PROVE  /\ ~Unrecordable(inv.lines[i])
             /\ \E n \in Own(new, inv) : new[n] = TaxRecord(inv, inv.lines[i])
  <2>1. CASE i = k + 1
    BY <1>1, <1>3, <2>1 DEF r
  <2>2. CASE i \in 1..k
    BY <1>3, <1>4, <2>2 DEF Recorded
  <2> QED
    BY <2>1, <2>2
<1>7. ASSUME NEW n \in Own(new, inv)
      PROVE  \E i \in 1..(k + 1) : new[n] = TaxRecord(inv, inv.lines[i])
  <2>1. CASE n = m
    <3>1. k + 1 \in 1..(k + 1)
      OBVIOUS
    <3> QED
      BY <1>1, <2>1, <3>1 DEF r
  <2>2. CASE n \in Own(list, inv)
    <3>1. PICK i \in 1..k : list[n] = TaxRecord(inv, inv.lines[i])
      BY <2>2 DEF Recorded
    <3>2. i \in 1..(k + 1)
      OBVIOUS
    <3> QED
      BY <1>4, <2>2, <3>1, <3>2
  <2> QED
    BY <1>3, <2>1, <2>2
<1>8. Recorded(new, inv, k + 1)
  BY <1>5, <1>6, <1>7 DEF Recorded
<1> QED
  BY <1>8 DEF new, r

-----------------------------------------------------------------------------
(* The records: what the actions preserve.                                 *)

Early(c) == c.at \in {"loaded", "stored", "numbered"}

\* The call of a thread that was moved on.
LEMMA MoveKeeps ==
  ASSUME NEW c, IsCall(c), NEW a
  PROVE  /\ [c EXCEPT !.at = a].at = a
         /\ [c EXCEPT !.at = a].id = c.id /\ [c EXCEPT !.at = a].lines = c.lines
<1>1. [c EXCEPT !.at = a] =
        [at |-> a, id |-> c.id, lines |-> c.lines, loaded |-> c.loaded, number |-> c.number]
  BY DEF IsCall
<1> QED
  BY <1>1

LEMMA NoCallLines ==
  /\ NoCall.at = "idle" /\ NoCall.id = 0 /\ NoCall.lines = <<>> /\ NoCall.lines \in Seq(Lines)
  /\ OneDay(NoCall.lines)
<1>1. NoCall.at = "idle" /\ NoCall.id = 0 /\ NoCall.lines = <<>>
  BY DEF NoCall
<1>2. 1 \in 1..Len(Calendar)
  BY InvoiceAssumption
<1>3. <<>> \in Seq(Lines) /\ 1..Len(<<>>) = {}
  OBVIOUS
<1> QED
  BY <1>1, <1>2, <1>3 DEF OneDay

LEMMA InitRInv == Init => RInv
<1> SUFFICES ASSUME Init PROVE RInv
  OBVIOUS
<1>1. /\ started = 0 /\ issued = {} /\ refused = {} /\ records = [p \in Processes |-> <<>>]
      /\ \A t \in Threads : call[t] = NoCall
  BY DEF Init
<1>2. LineTypes
  <2>1. <<>> \in Seq(TaxRecords)
    OBVIOUS
  <2> QED
    BY <1>1, <2>1, NoCallLines DEF LineTypes
<1>3. Ids
  <2>1. \A p \in Processes : 1..Len(records[p]) = {}
    BY <1>1
  <2> QED
    BY <1>1, <2>1, NoCallLines DEF Ids
<1>4. Recording /\ Done /\ Refusals
  BY <1>1, NoCallLines DEF Recording, Done, Refusals
<1> QED
  BY <1>2, <1>3, <1>4 DEF RInv

\* A recording goes on where it was if its records, its run and its call are left alone.
LEMMA LeftKept ==
  ASSUME NEW u \in Threads, call[u].at = "recording", Recording, issued \subseteq issued',
         records'[ProcessOf[u]] = records[ProcessOf[u]], run'[ProcessOf[u]] = run[ProcessOf[u]],
         call'[u] = call[u]
  PROVE  \E inv \in issued' : \E k \in 0..Len(inv.lines) : Left(u, inv, k)'
<1>1. PICK inv \in issued : \E k \in 0..Len(inv.lines) : Left(u, inv, k)
  BY DEF Recording
<1>2. PICK k \in 0..Len(inv.lines) : Left(u, inv, k)
  BY <1>1
<1>3. Left(u, inv, k)'
  BY <1>2 DEF Left
<1> QED
  BY <1>3

\* The steps before the invoice is issued, and the calendar.
LEMMA QuietStep ==
  ASSUME RInv, UNCHANGED <<started, issued, records, refused, run>>,
         \A t \in Threads : /\ call'[t].id = call[t].id /\ call'[t].lines = call[t].lines
                            /\ call'[t] = call[t] \/ (Early(call[t]) /\ Early(call'[t]))
  PROVE  RInv'
<1> USE DEF RInv
<1>1. \A t \in Threads : (call'[t].at = "idle" <=> call[t].at = "idle")
  BY DEF Early
<1>2. \A t \in Threads : call'[t].at = "recording" => call'[t] = call[t]
  BY DEF Early
<1>3. LineTypes'
  BY <1>1 DEF LineTypes, Early
<1>4. Ids'
  BY <1>1 DEF Ids, Early
<1>5. Recording'
  <2>1. ASSUME NEW u \in Threads, call'[u].at = "recording"
        PROVE  \E inv \in issued' : \E k \in 0..Len(inv.lines) : Left(u, inv, k)'
    BY <1>2, <2>1, LeftKept
  <2> QED
    BY <2>1 DEF Recording
<1>6. Done'
  BY DEF Done, Settled, Finished, Stopped
<1>7. Refusals'
  BY DEF Refusals
<1> QED
  BY <1>3, <1>4, <1>5, <1>6, <1>7

\* The line items that generate is called with.
Made(list) ==
  [i \in 1..Len(list) |->
     [unit_price_net |-> list[i].unit_price_net, quantity |-> list[i].quantity,
      country_code |-> list[i].country_code, transaction_date |-> today]]

LEMMA MadeFacts ==
  ASSUME NEW list \in LineLists, day \in 1..Len(Calendar)
  PROVE  Made(list) \in Seq(Lines) /\ Made(list) # <<>> /\ OneDay(Made(list))
<1>1. list \in Seq(Items) /\ list # <<>>
  BY InvoiceAssumption
<1>2. Len(list) \in Nat /\ Len(list) # 0 /\ \A i \in 1..Len(list) : list[i] \in Items
  BY <1>1
<1>3. today \in Nat
  BY InvoiceAssumption DEF today
<1>4. \A i \in 1..Len(list) : Made(list)[i] \in Lines /\ Made(list)[i].transaction_date = today
  BY <1>2, <1>3 DEF Made, Items, Lines
<1>5. Made(list) \in [1..Len(list) -> Lines]
  BY <1>4 DEF Made
<1>6. Made(list) \in Seq(Lines) /\ Len(Made(list)) = Len(list)
  BY <1>2, <1>5
<1>7. OneDay(Made(list))
  BY <1>4, <1>6 DEF OneDay, today
<1>8. Made(list) # <<>>
  BY <1>2, <1>6
<1> QED
  BY <1>6, <1>7, <1>8

LEMMA LoadStep ==
  ASSUME RInv, NumberTypes, NEW t \in Threads, Load(t)
  PROVE  RInv'
<1> USE DEF RInv
<1>1. PICK list \in LineLists :
        call' = [call EXCEPT ![t] =
          [NoCall EXCEPT !.at = "loaded", !.id = started', !.loaded = counter[ProcessOf[t]],
                         !.lines = Made(list)]]
  BY Zenon DEF Load, Made
<1> DEFINE c == [NoCall EXCEPT !.at = "loaded", !.id = started',
                               !.loaded = counter[ProcessOf[t]], !.lines = Made(list)]
<1>2. c.at = "loaded" /\ c.id = started' /\ c.lines = Made(list)
  BY LoadCall
<1> HIDE DEF c
<1>3. /\ call[t].at = "idle" /\ started' = started + 1 /\ started \in Nat
      /\ UNCHANGED <<run, issued, records, refused>>
      /\ call'[t] = c /\ \A u \in Threads \ {t} : call'[u] = call[u]
  BY <1>1 DEF Load, NumberTypes, LineTypes, c
<1>4. Made(list) \in Seq(Lines) /\ Made(list) # <<>> /\ OneDay(Made(list))
  BY MadeFacts DEF NumberTypes
<1>5. LineTypes'
  <2>1. started' \in Nat /\ started' \in 1..started' /\ \A n \in 1..started : n \in 1..started'
    BY <1>3
  <2>2. ASSUME NEW u \in Threads
        PROVE  /\ call'[u].lines \in Seq(Lines) /\ OneDay(call'[u].lines)
               /\ IF call'[u].at = "idle" THEN call'[u] = NoCall
                  ELSE call'[u].id \in 1..started' /\ call'[u].lines # <<>>
    <3>1. CASE u = t
      BY <1>2, <1>3, <1>4, <2>1, <3>1
    <3>2. CASE u # t
      BY <1>3, <2>1, <3>2 DEF LineTypes
    <3> QED
      BY <3>1, <3>2
  <2> QED
    BY <1>3, <2>1, <2>2 DEF LineTypes
<1>6. Ids'
  <2>1. \A u \in Threads \ {t} : call[u].at # "idle" => call[u].id # started'
    BY <1>3 DEF LineTypes
  <2>2. \A i \in issued : i.id # started'
    BY <1>3 DEF LineTypes
  <2> QED
    BY <1>2, <1>3, <2>1, <2>2 DEF Ids
<1>7. Recording'
  <2>1. ASSUME NEW u \in Threads, call'[u].at = "recording"
        PROVE  \E inv \in issued' : \E k \in 0..Len(inv.lines) : Left(u, inv, k)'
    <3>1. u # t
      BY <1>2, <1>3, <2>1
    <3> QED
      BY <1>3, <2>1, <3>1, LeftKept
  <2> QED
    BY <2>1 DEF Recording
<1>8. Done'
  <2>1. ASSUME NEW j \in issued, Settled(j)' PROVE Settled(j)
    <3>1. call[t].id # j.id
      BY <1>3, NoCallLines DEF LineTypes
    <3> QED
      BY <1>3, <2>1, <3>1 DEF Settled
  <2> QED
    BY <1>3, <2>1 DEF Done, Finished, Stopped
<1>9. Refusals'
  BY <1>3 DEF Refusals
<1> QED
  BY <1>5, <1>6, <1>7, <1>8, <1>9

LEMMA IssueStep ==
  ASSUME RInv, NumberTypes, NEW t \in Threads, Issue(t)
  PROVE  RInv'
<1> USE DEF RInv
<1>0. PICK inv : inv = [id |-> call[t].id, number |-> call[t].number, date |-> today,
                        lines |-> call[t].lines, process |-> ProcessOf[t],
                        run |-> run[ProcessOf[t]]]
  OBVIOUS
<1> DEFINE p == ProcessOf[t]
<1>1. /\ issued' = issued \cup {inv} /\ inv.id = call[t].id /\ inv.lines = call[t].lines
      /\ inv.process = p /\ inv.run = run[p]
  BY <1>0 DEF Issue
<1>2. /\ call[t].at = "numbered" /\ call'[t] = [call[t] EXCEPT !.at = "recording"]
      /\ \A u \in Threads \ {t} : call'[u] = call[u]
      /\ UNCHANGED <<started, records, refused, run>> /\ IsCall(call[t])
  BY DEF Issue, Move, NumberTypes
<1>3. call'[t].at = "recording" /\ call'[t].id = inv.id /\ call'[t].lines = inv.lines
  <2>1. /\ [call[t] EXCEPT !.at = "recording"].at = "recording"
        /\ [call[t] EXCEPT !.at = "recording"].id = call[t].id
        /\ [call[t] EXCEPT !.at = "recording"].lines = call[t].lines
    BY <1>2, MoveKeeps
  <2> QED
    BY <1>1, <1>2, <2>1, Zenon
<1>31. \A u \in Threads : call'[u].id = call[u].id
  BY <1>1, <1>2, <1>3, Zenon
<1>4. inv.lines \in Seq(Lines) /\ OneDay(inv.lines) /\ inv.id \in 1..started /\ inv.lines # <<>>
  BY <1>1, <1>2 DEF LineTypes
<1>5. \A i \in issued : i.id # inv.id
  BY <1>1, <1>2 DEF Ids
<1>6. p \in Processes /\ records[p] \in Seq(TaxRecords)
  BY InvoiceAssumption DEF LineTypes
<1>7. LineTypes'
  <2>1. started' = started /\ records' = records
    BY <1>2
  <2>2. ASSUME NEW u \in Threads
        PROVE  /\ call'[u].lines \in Seq(Lines) /\ OneDay(call'[u].lines)
               /\ IF call'[u].at = "idle" THEN call'[u] = NoCall
                  ELSE call'[u].id \in 1..started' /\ call'[u].lines # <<>>
    <3>1. CASE u = t
      BY <1>3, <1>4, <2>1, <3>1
    <3>2. CASE u # t
      BY <1>2, <2>1, <3>2 DEF LineTypes
    <3> QED
      BY <3>1, <3>2
  <2>3. \A i \in issued' : i.lines \in Seq(Lines) /\ OneDay(i.lines) /\ i.id \in 1..started'
    BY <1>1, <1>4, <2>1 DEF LineTypes
  <2> QED
    BY <2>1, <2>2, <2>3 DEF LineTypes
<1>8. Ids'
  <2>1. \A u, w \in Threads :
          u # w /\ call'[u].at # "idle" /\ call'[w].at # "idle" => call'[u].id # call'[w].id
    BY <1>2, <1>31 DEF Ids
  <2>2. \A i, j \in issued' : i.id = j.id => i = j
    BY <1>1, <1>5 DEF Ids
  <2>3. ASSUME NEW u \in Threads, call'[u].at \in {"loaded", "stored", "numbered"},
               NEW i \in issued'
        PROVE  i.id # call'[u].id
    <3>1. u # t /\ call'[u] = call[u]
      BY <1>2, <1>3, <2>3
    <3>2. call[u].id # inv.id
      <4>1. call[u].at # "idle" /\ call[t].at # "idle"
        BY <1>2, <2>3, <3>1
      <4> QED
        BY <1>1, <3>1, <4>1 DEF Ids
    <3>3. CASE i \in issued
      BY <2>3, <3>1, <3>3 DEF Ids
    <3> QED
      BY <1>1, <3>1, <3>2, <3>3
  <2>4. \A q \in Processes : \A n \in 1..Len(records'[q]) :
          \E i \in issued' : i.id = records'[q][n].invoice
    BY <1>1, <1>2 DEF Ids
  <2> QED
    BY <2>1, <2>2, <2>3, <2>4 DEF Ids
<1>9. Recording'
  <2>1. Left(t, inv, 0)' /\ 0 \in 0..Len(inv.lines)
    <3>1. \A n \in 1..Len(records[p]) : records[p][n].invoice # inv.id
      BY <1>5, <1>6 DEF Ids
    <3>2. Recorded(records'[p], inv, 0)
      BY <1>2, <1>6, <3>1, NoneRecorded
    <3>3. Len(inv.lines) \in Nat
      BY <1>4
    <3>4. \A i \in 1..Len(inv.lines) : inv.lines[i] = inv.lines[0 + i]
      BY <3>3
    <3>5. inv.id = call'[t].id /\ inv.process = p /\ inv.run = run'[p]
      BY <1>1, <1>2, <1>3
    <3> QED
      BY <1>3, <3>2, <3>3, <3>4, <3>5 DEF Left
  <2>2. ASSUME NEW u \in Threads \ {t}, call'[u].at = "recording"
        PROVE  \E j \in issued' : \E k \in 0..Len(j.lines) : Left(u, j, k)'
    BY <1>1, <1>2, <2>2, LeftKept
  <2> QED
    BY <1>1, <2>1, <2>2 DEF Recording
<1>10. Done'
  <2>1. ~Settled(inv)'
    BY <1>3 DEF Settled
  <2>2. ASSUME NEW j \in issued, Settled(j)' PROVE Finished(j)'
    <3>1. Settled(j)
      BY <1>2, <1>31, <2>2 DEF Settled
    <3> QED
      BY <1>2, <3>1 DEF Done, Finished, Stopped
  <2> QED
    BY <1>1, <2>1, <2>2 DEF Done
<1>11. Refusals'
  BY <1>1, <1>2 DEF Refusals
<1> QED
  BY <1>7, <1>8, <1>9, <1>10, <1>11

\* [c EXCEPT !.lines = rest]
LEMMA LinesKeep ==
  ASSUME NEW c, IsCall(c), NEW l
  PROVE  /\ [c EXCEPT !.lines = l].at = c.at /\ [c EXCEPT !.lines = l].id = c.id
         /\ [c EXCEPT !.lines = l].lines = l
<1>1. [c EXCEPT !.lines = l] =
        [at |-> c.at, id |-> c.id, lines |-> l, loaded |-> c.loaded, number |-> c.number]
  BY DEF IsCall
<1> QED
  BY <1>1

LEMMA RecordLineStep ==
  ASSUME RInv, NumberTypes, NEW t \in Threads, RecordLine(t)
  PROVE  RInv'
<1> USE DEF RInv
<1> DEFINE p == ProcessOf[t]
           c == call[t]
           line == Head(c.lines)
           rest == Tail(c.lines)
<1>1. c.at = "recording" /\ IsCall(c) /\ UNCHANGED <<started, issued, run>>
  BY DEF RecordLine, NumberTypes
<1>2. PICK inv \in issued : \E k \in 0..Len(inv.lines) : Left(t, inv, k)
  BY <1>1 DEF Recording
<1>3. PICK k \in 0..Len(inv.lines) : Left(t, inv, k)
  BY <1>2
<1>4. /\ p \in Processes /\ records[p] \in Seq(TaxRecords) /\ inv.id \in Nat
      /\ inv.lines \in Seq(Lines) /\ Len(inv.lines) \in Nat /\ k \in Nat
  BY InvoiceAssumption DEF LineTypes
<1>5. /\ c.lines \in Seq(Lines) /\ c.lines # <<>> /\ c.id = inv.id
      /\ inv.process = p /\ inv.run = run[p] /\ Len(inv.lines) = k + Len(c.lines)
      /\ Recorded(records[p], inv, k)
  BY <1>1, <1>3 DEF LineTypes, Left
<1>6. \A i \in 1..Len(c.lines) : c.lines[i] = inv.lines[k + i]
  BY <1>3 DEF Left
<1>7. /\ Len(c.lines) \in Nat /\ Len(c.lines) >= 1 /\ line = c.lines[1] /\ rest \in Seq(Lines)
      /\ Len(rest) = Len(c.lines) - 1 /\ \A i \in 1..Len(rest) : rest[i] = c.lines[i + 1]
      /\ Len(c.lines) > 1 => rest # <<>>
  <2>1. /\ Len(c.lines) \in Nat /\ Len(c.lines) >= 1 /\ line = c.lines[1] /\ rest \in Seq(Lines)
        /\ Len(rest) = Len(c.lines) - 1
        /\ \A i \in 1..(Len(c.lines) - 1) : rest[i] = c.lines[i + 1]
        /\ Len(c.lines) > 1 => rest # <<>>
    BY <1>5, HeadTail
  <2> HIDE DEF c, line, rest
  <2> QED
    BY <2>1
<1>8. line = inv.lines[k + 1] /\ k + 1 \in 1..Len(inv.lines) /\ line \in Lines
  BY <1>4, <1>5, <1>6, <1>7
<1>9. PICK d \in 1..Len(Calendar) :
        \A i \in 1..Len(inv.lines) : inv.lines[i].transaction_date = Calendar[d]
  BY DEF LineTypes, OneDay
<1>10. line.transaction_date = Calendar[d]
  BY <1>8, <1>9
<1>11. Recordable(line) <=> ~Unrecordable(line)
  BY <1>10, RetentionFacts DEF Recordable, Unrecordable
<1>12. TaxRecord(c, line) = TaxRecord(inv, line)
  BY <1>5, Zenon DEF TaxRecord
<1> DEFINE r == TaxRecord(inv, line)
<1>13. ~Unrecordable(line) => r \in TaxRecords /\ r.invoice = inv.id
  BY <1>4, <1>8, <1>10, RecordFacts DEF Unrecordable
<1>14. \A u \in Threads \ {t} : call'[u] = call[u]
  BY DEF RecordLine, NumberTypes
<1>15. \A u \in Threads \ {t} : call[u].id # inv.id
  <2>1. \A u \in Threads \ {t} : call[u].at # "idle" => call[u].id # inv.id
    BY <1>1, <1>5 DEF Ids
  <2>2. inv.id # 0
    BY DEF LineTypes
  <2>3. \A u \in Threads \ {t} : call[u].at = "idle" => call[u].id = 0
    BY NoCallLines DEF LineTypes
  <2> QED
    BY <2>1, <2>2, <2>3
<1>16. \A j \in issued : j = inv \/ j.id # inv.id
  BY DEF Ids
\* The outcomes of the step: what is true of its records and of its call.
<1>17. \/ /\ ~Unrecordable(line) /\ refused' = refused
          /\ records' = [records EXCEPT ![p] = Append(@, r)]
          /\ call'[t] = IF rest = <<>> THEN NoCall ELSE [c EXCEPT !.lines = rest]
       \/ /\ Unrecordable(line) /\ refused' = refused \cup {inv.id}
          /\ records' = records /\ call'[t] = NoCall
  BY <1>5, <1>11, <1>12 DEF RecordLine, store, NumberTypes
<1> HIDE DEF p, c, line, rest, r
<1>18. \/ call'[t] = NoCall
       \/ /\ call'[t].at = "recording" /\ call'[t].id = inv.id
          /\ call'[t].lines = rest /\ rest # <<>> /\ ~Unrecordable(line)
  <2>1. SUFFICES ASSUME call'[t] # NoCall
                 PROVE  /\ call'[t].at = "recording" /\ call'[t].id = inv.id
                        /\ call'[t].lines = rest
                        /\ rest # <<>> /\ ~Unrecordable(line)
    BY Zenon
  <2>2. /\ call'[t] = [c EXCEPT !.lines = rest] /\ rest # <<>>
        /\ ~Unrecordable(line)
    BY <1>17, <2>1, Zenon
  <2>3. /\ [c EXCEPT !.lines = rest].at = c.at /\ [c EXCEPT !.lines = rest].id = c.id
        /\ [c EXCEPT !.lines = rest].lines = rest
    BY <1>1, LinesKeep
  <2> QED
    BY <1>1, <1>5, <2>2, <2>3, Zenon
<1>19. /\ records' \in [Processes -> Seq(TaxRecords)]
       /\ \A q \in Processes \ {p} : records'[q] = records[q]
       /\ IF Unrecordable(line) THEN records'[p] = records[p]
          ELSE records'[p] = Append(records[p], r)
  <2>1. ~Unrecordable(line) => Append(records[p], r) \in Seq(TaxRecords)
    BY <1>4, <1>13, AppendFacts
  <2>2. records \in [Processes -> Seq(TaxRecords)]
    BY DEF LineTypes
  <2> QED
    BY <1>4, <1>17, <2>1, <2>2
<1>20. ASSUME NEW j, NEW q \in Processes, NEW m, j.id # inv.id, Recorded(records[q], j, m)
       PROVE  Recorded(records'[q], j, m)
  <2>1. CASE q = p /\ ~Unrecordable(line)
    BY <1>4, <1>13, <1>19, <1>20, <2>1, AppendOther
  <2> QED
    BY <1>19, <1>20, <2>1
<1>21. ~Unrecordable(line) => Recorded(records'[p], inv, k + 1)
  BY <1>4, <1>5, <1>8, <1>13, <1>19, AppendOwn DEF r
<1>22. LineTypes'
  <2>1. ASSUME NEW u \in Threads
        PROVE  /\ call'[u].lines \in Seq(Lines) /\ OneDay(call'[u].lines)
               /\ IF call'[u].at = "idle" THEN call'[u] = NoCall
                  ELSE call'[u].id \in 1..started' /\ call'[u].lines # <<>>
    <3>1. CASE u # t
      BY <1>1, <1>14, <3>1 DEF LineTypes
    <3>2. CASE call'[u] = NoCall
      BY <3>2, NoCallLines
    <3>3. CASE u = t /\ call'[t] # NoCall
      <4>1. OneDay(rest)
        <5>1. ASSUME NEW i \in 1..Len(rest) PROVE rest[i].transaction_date = Calendar[d]
          <6>1. /\ rest[i] = c.lines[i + 1] /\ c.lines[i + 1] = inv.lines[k + (i + 1)]
                /\ k + (i + 1) \in 1..Len(inv.lines)
            BY <1>4, <1>5, <1>6, <1>7
          <6> QED
            BY <1>9, <6>1
        <5> QED
          BY <5>1 DEF OneDay
      <4>2. inv.id \in 1..started
        BY DEF LineTypes
      <4> QED
        BY <1>1, <1>7, <1>18, <3>3, <4>1, <4>2
    <3> QED
      BY <3>1, <3>2, <3>3
  <2>2. \A i \in issued' : i.lines \in Seq(Lines) /\ OneDay(i.lines) /\ i.id \in 1..started'
    BY <1>1 DEF LineTypes
  <2>3. started' \in Nat
    BY <1>1 DEF LineTypes
  <2> QED
    BY <1>19, <2>1, <2>2, <2>3 DEF LineTypes
<1>23. Ids'
  <2>1. ASSUME NEW u \in Threads
        PROVE  call'[u].at # "idle" => call[u].at # "idle" /\ call'[u].id = call[u].id
    BY <1>1, <1>5, <1>14, <1>18, NoCallLines DEF c
  <2>2. ASSUME NEW u \in Threads, call'[u].at \in {"loaded", "stored", "numbered"}
        PROVE  call'[u] = call[u]
    BY <1>14, <1>18, <2>2, NoCallLines
  <2>3. ASSUME NEW q \in Processes, NEW n \in 1..Len(records'[q])
        PROVE  \E i \in issued : i.id = records'[q][n].invoice
    <3>1. CASE records'[q] = records[q]
      BY <2>3, <3>1 DEF Ids
    <3>2. CASE q = p /\ ~Unrecordable(line)
      <4>1. /\ Len(records'[p]) = Len(records[p]) + 1 /\ records'[p][Len(records[p]) + 1] = r
            /\ \A m \in 1..Len(records[p]) : records'[p][m] = records[p][m]
            /\ Len(records[p]) \in Nat
        BY <1>4, <1>13, <1>19, <3>2, AppendFacts
      <4>2. n \in 1..Len(records[p]) \/ n = Len(records[p]) + 1
        BY <2>3, <3>2, <4>1
      <4>3. CASE n \in 1..Len(records[p])
        <5>1. records'[q][n] = records[p][n]
          BY <3>2, <4>1, <4>3, Zenon
        <5>2. \E i \in issued : i.id = records[p][n].invoice
          BY <1>4, <4>3, Zenon DEF Ids
        <5> QED
          BY <5>1, <5>2, Zenon
      <4>4. CASE n = Len(records[p]) + 1
        <5>1. records'[q][n] = r
          BY <3>2, <4>1, <4>4, Zenon
        <5>2. r.invoice = inv.id
          BY <1>13, <3>2
        <5> QED
          BY <5>1, <5>2, Zenon
      <4> QED
        BY <4>2, <4>3, <4>4
    <3> QED
      BY <1>19, <3>1, <3>2
  <2>4. \A u, w \in Threads :
          u # w /\ call'[u].at # "idle" /\ call'[w].at # "idle" => call'[u].id # call'[w].id
    BY <2>1 DEF Ids
  <2>5. \A u \in Threads :
          call'[u].at \in {"loaded", "stored", "numbered"} =>
            \A i \in issued : i.id # call'[u].id
    BY <2>2 DEF Ids
  <2>6. \A i, j \in issued : i.id = j.id => i = j
    BY DEF Ids
  <2>7. issued' = issued
    BY <1>1
  <2> QED
    BY <2>3, <2>4, <2>5, <2>6, <2>7 DEF Ids
<1>24. Recording'
  <2>1. ASSUME NEW u \in Threads \ {t}, call'[u].at = "recording"
        PROVE  \E j \in issued' : \E m \in 0..Len(j.lines) : Left(u, j, m)'
    <3>1. PICK j \in issued : \E m \in 0..Len(j.lines) : Left(u, j, m)
      BY <1>14, <2>1 DEF Recording
    <3>2. PICK m \in 0..Len(j.lines) : Left(u, j, m)
      BY <3>1
    <3>3. j.id # inv.id /\ Recorded(records[ProcessOf[u]], j, m) /\ ProcessOf[u] \in Processes
      BY <1>15, <2>1, <3>2, InvoiceAssumption DEF Left
    <3>4. Recorded(records'[ProcessOf[u]], j, m)
      BY <1>20, <3>3
    <3>5. Left(u, j, m)'
      BY <1>1, <1>14, <2>1, <3>2, <3>4 DEF Left
    <3> QED
      BY <1>1, <3>5
  <2>2. ASSUME call'[t].at = "recording"
        PROVE  \E j \in issued' : \E m \in 0..Len(j.lines) : Left(t, j, m)'
    <3>1. /\ call'[t].id = inv.id /\ call'[t].lines = rest
          /\ Recorded(records'[ProcessOf[t]], inv, k + 1)
      BY <1>18, <1>21, <2>2, NoCallLines DEF p
    <3>2. Len(inv.lines) = (k + 1) + Len(rest) /\ k + 1 \in 0..Len(inv.lines)
      <4>1. /\ k \in Nat /\ Len(inv.lines) \in Nat /\ Len(c.lines) \in Nat /\ Len(c.lines) >= 1
            /\ Len(inv.lines) = k + Len(c.lines) /\ Len(rest) = Len(c.lines) - 1
            /\ k \in Int /\ Len(inv.lines) \in Int /\ Len(c.lines) \in Int /\ Len(rest) \in Int
        BY <1>4, <1>5, <1>7
      <4>2. \A a, b, m, n \in Int :
              a \in Nat /\ b >= 1 /\ m = a + b /\ n = b - 1 => m = (a + 1) + n /\ a + 1 \in 0..m
        OBVIOUS
      <4> HIDE DEF rest
      <4> QED
        BY <4>1, <4>2, Zenon
    <3>3. \A i \in 1..Len(rest) : rest[i] = inv.lines[(k + 1) + i]
      <4>1. ASSUME NEW i \in 1..Len(rest) PROVE rest[i] = inv.lines[(k + 1) + i]
        <5>1. i + 1 \in 1..Len(c.lines) /\ k + (i + 1) = (k + 1) + i
          BY <1>4, <1>7
        <5> QED
          BY <1>6, <1>7, <5>1
      <4> QED
        BY <4>1
    <3>4. inv.process = ProcessOf[t] /\ inv.run = run'[ProcessOf[t]]
      BY <1>1, <1>5 DEF p
    <3>5. Left(t, inv, k + 1)'
      BY <3>1, <3>2, <3>3, <3>4 DEF Left
    <3> QED
      BY <1>1, <3>2, <3>5
  <2> QED
    BY <2>1, <2>2 DEF Recording
<1>25. Done'
  <2>1. ASSUME NEW j \in issued, Settled(j)' PROVE Finished(j)'
    <3>1. CASE j = inv
      <4>1. call'[t].id # inv.id
        BY <2>1, <3>1 DEF Settled
      <4>2. call'[t] = NoCall
        BY <1>18, <4>1
      <4>3. CASE Unrecordable(line)
        <5>1. inv.id \in refused' /\ records'[inv.process] = records[p]
          BY <1>5, <1>17, <4>3
        <5>2. Recorded(records'[inv.process], inv, k)
          BY <1>5, <5>1
        <5>3. Stopped(inv, k)'
          BY <1>8, <4>3, <5>1 DEF Stopped
        <5> QED
          BY <3>1, <5>2, <5>3 DEF Finished
      <4>4. CASE ~Unrecordable(line)
        <5>1. rest = <<>>
          <6>1. SUFFICES ASSUME rest # <<>> PROVE FALSE
            OBVIOUS
          <6>2. call'[t] = [c EXCEPT !.lines = rest]
            BY <1>17, <4>4, <6>1
          <6>3. [c EXCEPT !.lines = rest].id = c.id
            BY <1>1, LinesKeep
          <6> QED
            BY <1>5, <4>1, <6>2, <6>3, Zenon
        <5>2. k + 1 = Len(inv.lines)
          BY <1>4, <1>5, <1>7, <5>1
        <5>3. Recorded(records'[inv.process], inv, Len(inv.lines))
          BY <1>5, <1>21, <4>4, <5>2
        <5>4. Len(inv.lines) \in 0..Len(inv.lines) /\ Stopped(inv, Len(inv.lines))'
          BY <1>4 DEF Stopped
        <5> QED
          BY <3>1, <5>3, <5>4 DEF Finished
      <4> QED
        BY <4>3, <4>4
    <3>2. CASE j.id # inv.id
      <4>1. Settled(j)
        <5>1. run[j.process] = j.run
          BY <1>1, <2>1 DEF Settled
        <5>2. \A u \in Threads : call[u].id # j.id
          BY <1>5, <1>14, <2>1, <3>2 DEF Settled, c
        <5> QED
          BY <5>1, <5>2 DEF Settled
      <4>2. Finished(j) /\ j.process \in Processes
        BY <4>1 DEF Done, NumberTypes
      <4>3. j.id \in refused => j.id \in refused'
        BY <1>17
      <4>4. PICK m \in 0..Len(j.lines) : Recorded(records[j.process], j, m) /\ Stopped(j, m)
        BY <4>2 DEF Finished
      <4>5. Recorded(records'[j.process], j, m)
        BY <1>20, <3>2, <4>2, <4>4
      <4>6. Stopped(j, m)'
        BY <4>3, <4>4 DEF Stopped
      <4> QED
        BY <4>5, <4>6 DEF Finished
    <3> QED
      BY <1>16, <3>1, <3>2
  <2>2. issued' = issued
    BY <1>1
  <2> QED
    BY <2>1, <2>2 DEF Done
<1>26. Refusals'
  <2>1. Unrecordable(line) => \E i \in 1..Len(inv.lines) : Unrecordable(inv.lines[i])
    BY <1>8
  <2>2. issued' = issued
    BY <1>1
  <2> QED
    BY <1>17, <2>1, <2>2 DEF Refusals
<1> QED
  BY <1>22, <1>23, <1>24, <1>25, <1>26

\* The death of a process takes its calls and its records; its invoices are of a run
\* that is over.
LEMMA RestartStep ==
  ASSUME RInv, NumberTypes, NEW p \in Processes, Restart(p)
  PROVE  RInv'
<1> USE DEF RInv
<1>1. /\ \A u \in Threads : call'[u] = IF ProcessOf[u] = p THEN NoCall ELSE call[u]
      /\ UNCHANGED <<started, issued, refused>>
      /\ run'[p] = run[p] + 1 /\ run[p] \in Nat
      /\ \A q \in Processes \ {p} : run'[q] = run[q] /\ records'[q] = records[q]
      /\ records'[p] = <<>> /\ records' \in [Processes -> Seq(TaxRecords)]
  <2>1. <<>> \in Seq(TaxRecords)
    OBVIOUS
  <2> QED
    BY <2>1 DEF Restart, NumberTypes, LineTypes
<1>2. LineTypes'
  <2>1. ASSUME NEW u \in Threads
        PROVE  /\ call'[u].lines \in Seq(Lines) /\ OneDay(call'[u].lines)
               /\ IF call'[u].at = "idle" THEN call'[u] = NoCall
                  ELSE call'[u].id \in 1..started' /\ call'[u].lines # <<>>
    <3>1. CASE call'[u] = NoCall
      BY <3>1, NoCallLines
    <3>2. CASE call'[u] = call[u]
      BY <1>1, <3>2 DEF LineTypes
    <3> QED
      BY <1>1, <3>1, <3>2
  <2>2. \A i \in issued' : i.lines \in Seq(Lines) /\ OneDay(i.lines) /\ i.id \in 1..started'
    BY <1>1 DEF LineTypes
  <2>3. started' \in Nat
    BY <1>1 DEF LineTypes
  <2> QED
    BY <1>1, <2>1, <2>2, <2>3 DEF LineTypes
<1>3. Ids'
  <2>1. \A u \in Threads : call'[u].at # "idle" => call'[u] = call[u]
    BY <1>1, NoCallLines
  <2>2. ASSUME NEW q \in Processes, NEW n \in 1..Len(records'[q])
        PROVE  \E i \in issued' : i.id = records'[q][n].invoice
    <3>1. q # p
      BY <1>1, <2>2
    <3> QED
      BY <1>1, <2>2, <3>1 DEF Ids
  <2>3. \A u, w \in Threads :
          u # w /\ call'[u].at # "idle" /\ call'[w].at # "idle" => call'[u].id # call'[w].id
    BY <2>1 DEF Ids
  <2>4. \A u \in Threads :
          call'[u].at \in {"loaded", "stored", "numbered"} =>
            \A i \in issued' : i.id # call'[u].id
    BY <1>1, <2>1 DEF Ids
  <2>5. \A i, j \in issued' : i.id = j.id => i = j
    BY <1>1 DEF Ids
  <2> QED
    BY <2>2, <2>3, <2>4, <2>5 DEF Ids
<1>4. Recording'
  <2>1. ASSUME NEW u \in Threads, call'[u].at = "recording"
        PROVE  \E inv \in issued' : \E k \in 0..Len(inv.lines) : Left(u, inv, k)'
    <3>1. ProcessOf[u] # p /\ call'[u] = call[u]
      BY <1>1, <2>1, NoCallLines
    <3>2. ProcessOf[u] \in Processes
      BY InvoiceAssumption
    <3> QED
      BY <1>1, <2>1, <3>1, <3>2, LeftKept
  <2> QED
    BY <2>1 DEF Recording
<1>5. Done'
  <2>1. ASSUME NEW j \in issued, Settled(j)' PROVE Finished(j)'
    <3>1. j.process \in Processes /\ j.run \in 0..run[j.process]
      BY DEF NumberTypes
    <3>2. j.process # p
      <4>1. SUFFICES ASSUME j.process = p PROVE FALSE
        OBVIOUS
      <4>2. run'[p] = j.run
        BY <2>1, <4>1 DEF Settled
      <4> QED
        BY <1>1, <3>1, <4>1, <4>2
    <3>3. run[j.process] = j.run
      BY <1>1, <2>1, <3>1, <3>2 DEF Settled
    <3>4. ASSUME NEW u \in Threads PROVE call[u].id # j.id
      <4>1. SUFFICES ASSUME call[u].id = j.id PROVE FALSE
        OBVIOUS
      <4>2. call'[u].id # j.id
        BY <2>1 DEF Settled
      <4>3. ProcessOf[u] = p
        BY <1>1, <4>1, <4>2
      <4>4. call[u].at # "idle"
        BY <4>1, NoCallLines DEF LineTypes
      <4>5. call[u].at \in {"loaded", "stored", "numbered", "recording"}
        BY <4>4 DEF NumberTypes, IsCall, Steps
      <4>6. call[u].at = "recording"
        BY <4>1, <4>5 DEF Ids
      <4>7. PICK inv \in issued : \E k \in 0..Len(inv.lines) : Left(u, inv, k)
        BY <4>6 DEF Recording
      <4>8. inv.id = call[u].id /\ inv.process = ProcessOf[u]
        BY <4>7 DEF Left
      <4>9. inv = j
        BY <4>1, <4>8 DEF Ids
      <4> QED
        BY <3>2, <4>3, <4>8, <4>9
    <3>5. Finished(j)
      BY <3>3, <3>4 DEF Done, Settled
    <3>6. records'[j.process] = records[j.process] /\ refused' = refused
      BY <1>1, <3>1, <3>2
    <3> QED
      BY <3>5, <3>6 DEF Finished, Stopped
  <2> QED
    BY <1>1, <2>1 DEF Done
<1>6. Refusals'
  BY <1>1 DEF Refusals
<1> QED
  BY <1>2, <1>3, <1>4, <1>5, <1>6

LEMMA NextRInv == RInv /\ NInv /\ [Next]_vars => RInv'
<1> SUFFICES ASSUME RInv, NumberTypes, [Next]_vars PROVE RInv'
  BY Zenon DEF NInv
<1>1. CASE UNCHANGED vars \/ NextDay
  <2>1. UNCHANGED <<started, issued, records, refused, run, call>>
    BY <1>1 DEF vars, NextDay
  <2> QED
    BY <2>1, QuietStep
<1>2. ASSUME NEW t \in Threads, Store(t) \/ Number(t) PROVE RInv'
  <2>1. /\ UNCHANGED <<started, issued, records, refused, run>>
        /\ \A u \in Threads \ {t} : call'[u] = call[u]
        /\ Early(call[t]) /\ IsCall(call[t])
        /\ \/ call'[t] = [call[t] EXCEPT !.at = "stored"]
           \/ \E n : call'[t] = [call[t] EXCEPT !.at = "numbered", !.number = n]
    BY <1>2 DEF Store, Number, Move, NumberTypes, Early
  <2>2. Early(call'[t]) /\ call'[t].id = call[t].id /\ call'[t].lines = call[t].lines
    <3>1. CASE call'[t] = [call[t] EXCEPT !.at = "stored"]
      <4>1. /\ [call[t] EXCEPT !.at = "stored"].at = "stored"
            /\ [call[t] EXCEPT !.at = "stored"].id = call[t].id
            /\ [call[t] EXCEPT !.at = "stored"].lines = call[t].lines
        BY <2>1, MoveKeeps
      <4> QED
        BY <3>1, <4>1, Zenon DEF Early
    <3>2. CASE \E n : call'[t] = [call[t] EXCEPT !.at = "numbered", !.number = n]
      <4>1. PICK n : call'[t] = [call[t] EXCEPT !.at = "numbered", !.number = n]
        BY <3>2
      <4>2. call'[t] = [at |-> "numbered", id |-> call[t].id, lines |-> call[t].lines,
                        loaded |-> call[t].loaded, number |-> n]
        BY <2>1, <4>1 DEF IsCall
      <4> QED
        BY <4>2 DEF Early
    <3> QED
      BY <2>1, <3>1, <3>2
  <2> QED
    BY <2>1, <2>2, QuietStep
<1> QED
  BY <1>1, <1>2, LoadStep, IssueStep, RecordLineStep, RestartStep DEF Next

LEMMA AlwaysRInv == Spec => [](RInv /\ NInv)
<1>1. Init => RInv /\ NInv
  BY InitRInv, InitNInv
<1>2. RInv /\ NInv /\ [Next]_vars => (RInv /\ NInv)'
  BY NextRInv, NextNInv
<1> QED
  BY <1>1, <1>2, PTL DEF Spec

-----------------------------------------------------------------------------
(* VAT and records of every invoice.                                       *)

LEMMA EveryLineIsExact ==
  ASSUME NEW line \in Lines, Known(line.country_code)
  PROVE  LineIsExact(line)
<1> DEFINE v == vat_calculation(line)
           e == Excess(v.net, v.rate)
           back == calculate_from_gross(v.gross, line.country_code, line.transaction_date)
<1>1. /\ v.rate = RateOn(line.country_code.code, line.transaction_date)
      /\ 1000 * v.vat - v.net * v.rate = e
      /\ e \in Int /\ 2 * e <= 10000 /\ -10000 <= 2 * e
      /\ v.net % Cent = 0 => back = v
  BY LineFacts
<1> HIDE DEF v, e, back
<1>2. 2 * Abs(e) <= 1000 * Cent
  BY <1>1 DEF Abs, Cent
<1>3. 2 * Abs(1000 * v.vat - v.net * v.rate) <= 1000 * Cent
  BY <1>1, <1>2
<1> QED
  BY <1>1, <1>3 DEF v, back, LineIsExact

LEMMA ExactFromTypes == LineTypes => VatIsExact
<1> SUFFICES ASSUME LineTypes, NEW inv \in issued
             PROVE  LET lines == inv.lines
                    IN  /\ \A i \in 1..Len(lines) :
                             Known(lines[i].country_code) => LineIsExact(lines[i])
                        /\ (\A i \in 1..Len(lines) : Known(lines[i].country_code)) =>
                             TotalsAreExact(lines)
  BY DEF VatIsExact
<1>1. inv.lines \in Seq(Lines)
  BY DEF LineTypes
<1>2. \A i \in 1..Len(inv.lines) : inv.lines[i] \in Lines
  BY <1>1
<1> QED
  BY <1>1, <1>2, EveryLineIsExact, InvoiceIsExact

\* Every invoice for countries with a rate is taxed at that of its day, to the cent:
\* VatIsExact.
THEOREM VatAlwaysExact == Spec => []VatIsExact
  BY AlwaysRInv, ExactFromTypes, PTL DEF RInv

\* The retention report counts every record of a store.
LEMMA ReportFacts ==
  ASSUME NEW p \in Processes, records[p] \in Seq(TaxRecords)
  PROVE  SumFunction(get_retention_report(p)) = Len(records[p])
<1> DEFINE list == records[p]
           S == 1..Len(list)
           c == [i \in S |-> Year(list[i].retention_until)]
           C == {Year(r.retention_until) : r \in ToSet(list)}
           h == get_retention_report(p)
<1>1. Len(list) \in Nat /\ IsFiniteSet(S) /\ Cardinality(S) = Len(list)
  <2>1. Len(list) \in Nat /\ 1 \in Int /\ Len(list) \in Int
    OBVIOUS
  <2>2. IsFiniteSet(S) /\ Cardinality(S) = IF 1 > Len(list) THEN 0 ELSE Len(list) - 1 + 1
    BY <2>1, FS_Interval, Zenon
  <2> QED
    BY <2>1, <2>2
<1>2. ToSet(list) = {list[i] : i \in S}
  <2>1. DOMAIN list = S
    OBVIOUS
  <2> QED
    BY <2>1 DEF ToSet
<1>3. C = {c[i] : i \in S}
  BY <1>2
<1>4. IsFiniteSet(C)
  <2>1. c \in [S -> C]
    BY <1>3
  <2>2. \A y \in C : \E i \in S : c[i] = y
    BY <1>3
  <2> HIDE DEF c, C
  <2>3. c \in Surjection(S, C)
    BY <2>1, <2>2 DEF Surjection
  <2> QED
    BY <1>1, <2>3, FS_Surjection
<1>5. \A y \in C : h[y] = Cardinality(Class(S, c, y))
  <2> SUFFICES ASSUME NEW y \in C PROVE h[y] = Cardinality(Class(S, c, y))
    OBVIOUS
  <2>1. Class(S, c, y) =
          {i \in 1..Len(records[p]) : Year(records[p][i].retention_until) = y}
    BY DEF Class
  <2> QED
    BY <2>1, Zenon DEF get_retention_report
<1>6. \A i \in S : c[i] \in C
  <2> HIDE DEF c, C
  <2> QED
    BY <1>3
<1>7. SumFunction(h) = SumFunctionOnSet(h, C)
  BY Zenon DEF SumFunction, get_retention_report
<1> HIDE DEF c, C, h, S, list
<1>8. SumFunctionOnSet(h, C) = Cardinality(S)
  BY <1>1, <1>4, <1>5, <1>6, CountParts
<1> QED
  BY <1>1, <1>7, <1>8 DEF h, list

\* What get_by_country finds on one day.
LEMMA FoundFacts ==
  ASSUME NEW p \in Processes, records[p] \in Seq(TaxRecords), NEW country, NEW d \in Nat, NEW r
  PROVE  r \in ToSet(get_by_country(p, country, d, d)) <=>
           \E n \in 1..Len(records[p]) :
             /\ r = records[p][n] /\ r.country_code = country /\ r.transaction_date = d
<1> DEFINE list == records[p]
           P == {i \in 1..Len(list) : /\ list[i].country_code = country
                                      /\ list[i].transaction_date >= d
                                      /\ list[i].transaction_date <= d}
<1>1. get_by_country(p, country, d, d) = Chosen(list, P)
  BY Zenon DEF get_by_country
<1>2. P \in SUBSET (1..Len(list))
  OBVIOUS
<1>3. \A i \in 1..Len(list) :
        i \in P <=> list[i].country_code = country /\ list[i].transaction_date = d
  <2>0. \A i \in 1..Len(list) : list[i] \in TaxRecords
    OBVIOUS
  <2>1. \A i \in 1..Len(list) : list[i].transaction_date \in Nat
    BY <2>0 DEF TaxRecords
  <2> QED
    BY <2>1
<1> HIDE DEF P
<1>4. /\ Cardinality(P) \in Nat /\ Len(Chosen(list, P)) = Cardinality(P)
      /\ Chosen(list, P) \in Seq(TaxRecords)
      /\ \A k \in 1..Cardinality(P) : \E i \in P : Chosen(list, P)[k] = list[i]
      /\ \A i \in P : \E k \in 1..Cardinality(P) : Chosen(list, P)[k] = list[i]
  BY <1>2, ChosenFacts
<1>5. ToSet(Chosen(list, P)) = {list[i] : i \in P}
  <2> DEFINE s == Chosen(list, P)
  <2>1. DOMAIN s = 1..Cardinality(P)
    BY <1>4
  <2> HIDE DEF s
  <2>2. ToSet(s) = {s[k] : k \in 1..Cardinality(P)}
    BY <2>1 DEF ToSet
  <2>3. /\ \A k \in 1..Cardinality(P) : \E i \in P : s[k] = list[i]
        /\ \A i \in P : \E k \in 1..Cardinality(P) : s[k] = list[i]
    BY <1>4 DEF s
  <2>4. ToSet(s) = {list[i] : i \in P}
    BY <2>2, <2>3
  <2> QED
    BY <2>4 DEF s
<1>6. r \in ToSet(Chosen(list, P)) <=> \E i \in P : r = list[i]
  BY <1>5
<1> HIDE DEF list
<1>7. (\E i \in P : r = list[i]) <=>
        \E n \in 1..Len(list) : r = list[n] /\ r.country_code = country /\ r.transaction_date = d
  BY <1>2, <1>3
<1> QED
  BY <1>1, <1>6, <1>7 DEF list

\* The record of a line tells of it.
LEMMA RecordTells ==
  ASSUME NEW inv \in issued, LineTypes, NEW i \in 1..Len(inv.lines),
         ~Unrecordable(inv.lines[i])
  PROVE  LET r == TaxRecord(inv, inv.lines[i])
         IN  /\ Tells(r, inv.lines[i]) /\ r.country_code = inv.lines[i].country_code
             /\ r.transaction_date = inv.lines[i].transaction_date /\ r.invoice = inv.id
             /\ inv.lines[i] \in Lines
<1> DEFINE line == inv.lines[i]
           r == TaxRecord(inv, line)
<1>1. line \in Lines /\ inv.id \in Nat
  BY DEF LineTypes
<1>0. Known(line.country_code) /\ ~IsLeapDay(line.transaction_date)
  BY DEF Unrecordable
<1>2. PICK c \in 1..Len(Calendar) : line.transaction_date = Calendar[c]
  BY DEF LineTypes, OneDay
<1>3. /\ r.invoice = inv.id /\ r.country_code = line.country_code
      /\ r.transaction_date = line.transaction_date
      /\ r.net = vat_calculation(line).net /\ r.vat = vat_calculation(line).vat
      /\ r.retention_until = retention_until(line.transaction_date)
  BY <1>0, <1>1, <1>2, RecordFacts
<1>4. /\ Calendar[c] \in Nat
      /\ ~IsLeapDay(Calendar[c]) => retention_until(Calendar[c]) = Calendar[c] + 70000
  BY RetentionFacts
<1>5. r.retention_until >= line.transaction_date + 70000
  <2> DEFINE m == Calendar[c]
  <2>1. line.transaction_date = m /\ m \in Nat /\ r.retention_until = m + 70000
    BY <1>0, <1>2, <1>3, <1>4
  <2> HIDE DEF r, line, m
  <2> QED
    BY <2>1
<1> QED
  BY <1>0, <1>1, <1>3, <1>5 DEF Tells

LEMMA KeptFromInv == RInv /\ NumberTypes => LinesAreRecorded
<1> SUFFICES ASSUME RInv, NumberTypes PROVE LinesAreRecorded
  OBVIOUS
<1>1. LineTypes /\ Done /\ records \in [Processes -> Seq(TaxRecords)]
  BY DEF RInv, LineTypes
<1>2. \A p \in Processes : SumFunction(get_retention_report(p)) = Len(records[p])
  BY <1>1, ReportFacts
<1>3. ASSUME NEW inv \in issued, Settled(inv)
      PROVE  LET lines == inv.lines IN
             /\ \A k \in RecordsOf(inv) : \E i \in 1..Len(lines) :
                  Tells(records[inv.process][k], lines[i])
             /\ \A i \in 1..Len(lines) : \A r \in FoundWith(inv, lines[i]) :
                  \E j \in 1..Len(lines) :
                    /\ lines[j].country_code.code = lines[i].country_code.code
                    /\ lines[j].transaction_date = lines[i].transaction_date
                    /\ Tells(r, lines[j])
             /\ IF inv.id \in refused
                THEN \E i \in 1..Len(lines) : Unrecordable(lines[i])
                ELSE /\ Cardinality(RecordsOf(inv)) = Len(lines)
                     /\ \A i \in 1..Len(lines) : lines[i].country_code.upper =>
                          \E r \in FoundWith(inv, lines[i]) : Tells(r, lines[i])
  <2> DEFINE p == inv.process
             lines == inv.lines
  <2>1. Finished(inv) /\ p \in Processes /\ records[p] \in Seq(TaxRecords)
    BY <1>1, <1>3 DEF Done, NumberTypes
  <2>2. PICK k \in 0..Len(lines) : Recorded(records[p], inv, k) /\ Stopped(inv, k)
    BY <2>1 DEF Finished
  <2>3. RecordsOf(inv) = Own(records[p], inv)
    BY DEF RecordsOf, Own
  <2>4. Len(lines) \in Nat /\ \A i \in 1..Len(lines) : lines[i] \in Lines
    BY <1>1 DEF LineTypes
  <2>5. \A i \in 1..k : i \in 1..Len(lines) /\ ~Unrecordable(lines[i])
    BY <2>2, <2>4 DEF Recorded
  \* A record of the invoice is that of one of its lines.
  <2>6. ASSUME NEW n \in RecordsOf(inv)
        PROVE  \E j \in 1..Len(lines) :
                 /\ Tells(records[p][n], lines[j])
                 /\ records[p][n].country_code = lines[j].country_code
                 /\ records[p][n].transaction_date = lines[j].transaction_date
    <3>1. PICK j \in 1..k : records[p][n] = TaxRecord(inv, lines[j])
      BY <2>2, <2>3 DEF Recorded
    <3>2. j \in 1..Len(lines) /\ ~Unrecordable(lines[j])
      BY <2>5
    <3>3. /\ Tells(TaxRecord(inv, lines[j]), lines[j])
          /\ TaxRecord(inv, lines[j]).country_code = lines[j].country_code
          /\ TaxRecord(inv, lines[j]).transaction_date = lines[j].transaction_date
      BY <1>1, <3>2, RecordTells
    <3> QED
      BY <3>1, <3>2, <3>3, Zenon
  <2>7. ASSUME NEW i \in 1..Len(lines), NEW r
        PROVE  r \in FoundWith(inv, lines[i]) <=>
                 /\ \E n \in 1..Len(records[p]) :
                      /\ r = records[p][n]
                      /\ r.country_code = Typed(lines[i].country_code.code, TRUE)
                      /\ r.transaction_date = lines[i].transaction_date
                 /\ r.invoice = inv.id
    <3> DEFINE d == lines[i].transaction_date
               country == Typed(lines[i].country_code.code, TRUE)
    <3>1. d \in Nat
      BY <2>4 DEF Lines
    <3>2. FoundWith(inv, lines[i]) =
            {x \in ToSet(get_by_country(p, country, d, d)) : x.invoice = inv.id}
      BY Zenon DEF FoundWith
    <3> HIDE DEF d, country
    <3>3. r \in ToSet(get_by_country(p, country, d, d)) <=>
            \E n \in 1..Len(records[p]) :
              /\ r = records[p][n] /\ r.country_code = country /\ r.transaction_date = d
      BY <2>1, <3>1, FoundFacts
    <3> QED
      BY <3>2, <3>3, Zenon DEF d, country
  <2>8. ASSUME NEW i \in 1..Len(lines), NEW r \in FoundWith(inv, lines[i])
        PROVE  \E j \in 1..Len(lines) :
                 /\ lines[j].country_code.code = lines[i].country_code.code
                 /\ lines[j].transaction_date = lines[i].transaction_date
                 /\ Tells(r, lines[j])
    <3>0. /\ \E n \in 1..Len(records[p]) :
               /\ r = records[p][n]
               /\ r.country_code = Typed(lines[i].country_code.code, TRUE)
               /\ r.transaction_date = lines[i].transaction_date
          /\ r.invoice = inv.id
      <4> HIDE DEF p, lines
      <4> QED
        BY <2>7, Zenon
    <3>1. PICK n \in 1..Len(records[p]) :
            /\ r = records[p][n]
            /\ r.country_code = Typed(lines[i].country_code.code, TRUE)
            /\ r.transaction_date = lines[i].transaction_date
      BY <3>0, Zenon
    <3>2. r.invoice = inv.id
      BY <3>0, Zenon
    <3>3. n \in RecordsOf(inv)
      BY <3>1, <3>2 DEF RecordsOf
    <3>4. PICK j \in 1..Len(lines) :
            /\ Tells(r, lines[j]) /\ r.country_code = lines[j].country_code
            /\ r.transaction_date = lines[j].transaction_date
      BY <2>6, <3>1, <3>3
    <3>5. Typed(lines[i].country_code.code, TRUE).code = lines[i].country_code.code
      BY DEF Typed
    <3>6. lines[j].country_code.code = lines[i].country_code.code
      BY <3>1, <3>4, <3>5, Zenon
    <3> QED
      BY <3>1, <3>4, <3>6, Zenon
  <2>9. ASSUME inv.id \in refused PROVE \E i \in 1..Len(lines) : Unrecordable(lines[i])
    <3>1. PICK j \in issued :
            j.id = inv.id /\ \E i \in 1..Len(j.lines) : Unrecordable(j.lines[i])
      BY <2>9 DEF RInv, Refusals
    <3>2. j = inv
      BY <3>1 DEF RInv, Ids
    <3> QED
      BY <3>1, <3>2
  <2>10. ASSUME inv.id \notin refused
         PROVE  /\ Cardinality(RecordsOf(inv)) = Len(lines)
                /\ \A i \in 1..Len(lines) : lines[i].country_code.upper =>
                     \E r \in FoundWith(inv, lines[i]) : Tells(r, lines[i])
    <3>1. k = Len(lines)
      BY <2>2, <2>10 DEF Stopped
    <3>2. Cardinality(RecordsOf(inv)) = Len(lines)
      BY <2>2, <2>3, <3>1 DEF Recorded
    <3>3. ASSUME NEW i \in 1..Len(lines), lines[i].country_code.upper
          PROVE  \E r \in FoundWith(inv, lines[i]) : Tells(r, lines[i])
      <4>1. lines[i].country_code = Typed(lines[i].country_code.code, TRUE)
        BY <2>4, <3>3 DEF Lines, Typed
      <4>2. PICK n \in Own(records[p], inv) : records[p][n] = TaxRecord(inv, lines[i])
        BY <2>2, <3>1 DEF Recorded
      <4>3. n \in 1..Len(records[p]) /\ ~Unrecordable(lines[i])
        BY <2>5, <3>1, <4>2 DEF Own
      <4> DEFINE r == TaxRecord(inv, lines[i])
      <4>4. /\ Tells(r, lines[i]) /\ r.country_code = lines[i].country_code
            /\ r.transaction_date = lines[i].transaction_date /\ r.invoice = inv.id
        BY <1>1, <4>3, RecordTells
      <4>5. r = records[p][n]
        BY <4>2
      <4> HIDE DEF r
      <4>6. r.country_code = Typed(lines[i].country_code.code, TRUE)
        BY <4>1, <4>4, Zenon
      <4>7. r \in FoundWith(inv, lines[i])
        BY <2>7, <4>3, <4>4, <4>5, <4>6
      <4> QED
        BY <4>4, <4>7
    <3> QED
      BY <3>2, <3>3
  <2>11. \A n \in RecordsOf(inv) : \E j \in 1..Len(lines) : Tells(records[p][n], lines[j])
    BY <2>6
  <2> QED
    BY <2>8, <2>9, <2>10, <2>11
<1> QED
  BY <1>2, <1>3, Zenon DEF LinesAreRecorded

\* store(): every line of every invoice has its one record, whoever else issues
\* invoices meanwhile, unless the caller was refused for one of its lines, and can be
\* looked up again: LinesAreRecorded.
THEOREM RecordsAlwaysKept == Spec => []LinesAreRecorded
  BY AlwaysRInv, KeptFromInv, PTL DEF NInv

=============================================================================
