----------------------------- MODULE Responses -----------------------------
(***************************************************************************)
(* What the messages of Bloomberg become on their way to the caller: each  *)
(* is normalised (executor/normalize.py), the parts of one request are     *)
(* merged, the requests of a plan are merged (executor/blp_exec.py), and   *)
(* the client makes frames of the data (dataframes.py).                    *)
(*                                                                         *)
(* Data is a mapping of keys (a security, a reserved name) to a dict of    *)
(* fields, or to a list for bars and ticks; a value is a list or a scalar. *)
(* What a value says is left out: an entry of a list is known by its date  *)
(* or time, a scalar by the request that brought it.                       *)
(***************************************************************************)
EXTENDS Integers, FiniteSets, Sequences, SequencesExt

CONSTANTS Securities, Fields,
          Bulk,                            \* the fields whose value is a table
          MaxCollects, MaxMessages, MaxRows,  \* bounds, on a plan
          MaxRecords                          \* ... and on a message

ASSUME ResponsesAssumption ==
  /\ Bulk \subseteq Fields
  /\ "dates" \notin Fields /\ "_field_info" \notin Securities
  /\ {MaxCollects, MaxMessages, MaxRows, MaxRecords} \subseteq Nat
  /\ IsFiniteSet(Fields)

VARIABLES
  asked,    \* the requests of the plan so far: [kind, security]
  parts,    \* the messages of the current request
  merged,   \* _collect_response: the NormalizedMessage of the current request
  data, errors, \* execute: what the finished collects brought
  answers,  \* history: the messages of the finished requests, in their order
  phase     \* "ready", "collecting", "raised": an exception ended the plan

responseVars == <<asked, parts, merged, data, errors, answers, phase>>

Kinds == {"reference", "history", "bars", "info"}

List(items) == [type |-> "list", items |-> items]
Scalar(x) == [type |-> "scalar", item |-> x]
Dict(fields) == [type |-> "dict", fields |-> fields]
Nothing == [data |-> <<>>, errors |-> <<>>]

----------------------------------------------------------------------------
(* normalize_message.  A message:                                          *)
(*   responseError; a reference message, a sequence of records; a history   *)
(*   message of one record; the rows of bars or ticks; a field info         *)
(*   message, id -> "info" or "error".                                     *)
(* A record: the security, may have a securityError, has field exceptions   *)
(* and fieldData: the fields of a reference, the rows of a history, each a  *)
(* date and the fields that have a value on it.                            *)

RecordErrors(record) ==
  (IF record.error THEN <<[code |-> "security", security |-> record.security]>> ELSE <<>>)
    \o [n \in DOMAIN record.exceptions |->
          [code |-> "field", security |-> record.security, field |-> record.exceptions[n]]]

ReferenceFields(record) ==
  [f \in record.fields |-> IF f \in Bulk THEN List(<<record.tag>>) ELSE Scalar(record.tag)]

\* One record of a reference message.
Absorb(out, record) ==
  [data |-> [s \in DOMAIN out.data \cup {record.security} |->
               IF s = record.security THEN Dict(ReferenceFields(record)) ELSE out.data[s]],
   errors |-> out.errors \o RecordErrors(record)]

NormalizeReference(m) == FoldLeft(Absorb, Nothing, m.records)

\* A list for the dates and one for each field: a field without a value on a
\* date leaves no gap in its list.
WithRow(columns, row) ==
  [f \in DOMAIN columns \cup row.fields |->
     IF f = "dates" \/ f \in row.fields
     THEN List(Append(IF f \in DOMAIN columns THEN columns[f].items ELSE <<>>, row.date))
     ELSE columns[f]]

NoRows == [f \in {"dates"} |-> List(<<>>)]

HistoryFields(rows) == FoldLeft(WithRow, NoRows, rows)

NormalizeHistory(m) ==
  [data |-> [s \in {m.record.security} |-> Dict(HistoryFields(m.rows))],
   errors |-> RecordErrors(m.record)]

\* The response does not name the security: the hint of the plan does.
NormalizeRows(m, hint) == [data |-> [s \in {hint} |-> List(m.rows)], errors |-> <<>>]

NormalizeFieldInfo(m) ==
  LET bad == SetToSeq({i \in DOMAIN m.infos : m.infos[i] = "error"})
  IN  [data |-> [k \in {"_field_info"} |->
                   Dict([i \in {j \in DOMAIN m.infos : m.infos[j] = "info"} |-> Scalar(m.tag)])],
       errors |-> [n \in DOMAIN bad |-> [code |-> "info", field |-> bad[n]]]]

Normalize(m, hint) ==
  CASE m.kind = "responseError" -> [data |-> <<>>, errors |-> <<[code |-> "response"]>>]
    [] m.kind = "reference" -> NormalizeReference(m)
    [] m.kind = "history" -> NormalizeHistory(m)
    [] m.kind = "bars" -> NormalizeRows(m, hint)
    [] m.kind = "info" -> NormalizeFieldInfo(m)

----------------------------------------------------------------------------
(* _merge_data.                                                            *)

\* faulty: dict.update
Replaced(old, new) == [f \in DOMAIN old \cup DOMAIN new |-> IF f \in DOMAIN new THEN new[f] ELSE old[f]]

MergeFields(old, new) ==
  [f \in DOMAIN old \cup DOMAIN new |->
     CASE f \notin DOMAIN new -> old[f]
       [] f \in DOMAIN new /\ f \in DOMAIN old /\ old[f].type = "list" /\ new[f].type = "list" ->
            List(old[f].items \o new[f].items)
       [] OTHER -> new[f]]

\* A list has no items() and no get(): for such a key the merge raises.
Clash(old, new) ==
  {k \in DOMAIN old \cap DOMAIN new :
     \/ new[k].type = "list"
     \/ old[k].type = "list" /\ DOMAIN new[k].fields # {}}

MergeData(old, new) ==
  [k \in DOMAIN old \cup DOMAIN new |->
     IF k \notin DOMAIN new THEN old[k]
     ELSE IF k \notin DOMAIN old THEN new[k]
     ELSE IF new[k].type = "dict" /\ old[k].type = "dict"
          THEN Dict(MergeFields(old[k].fields, new[k].fields))
     ELSE old[k]]

----------------------------------------------------------------------------
(* The executor's collects.                                                *)

ResponsesInit ==
  /\ asked = <<>> /\ parts = <<>> /\ answers = <<>>
  /\ merged = Nothing /\ data = <<>> /\ errors = <<>>
  /\ phase = "ready"

\* The hint of a collect: the security that the plan gave its request.
Hint == asked[Len(asked)].security

Send(kind, s) ==
  /\ phase = "ready" /\ Len(asked) < MaxCollects
  /\ asked' = Append(asked, [kind |-> kind, security |-> s])
  /\ parts' = <<>> /\ merged' = Nothing
  /\ phase' = "collecting"
  /\ UNCHANGED <<data, errors, answers>>

Raise(error) ==
  /\ phase' = "raised"
  /\ errors' = Append(errors, error)
  /\ UNCHANGED <<asked, merged, answers>>

TimesOut ==
  /\ phase = "collecting"
  /\ Raise([code |-> "timeout"])
  /\ UNCHANGED <<parts, data>>

\* One pass of the loop, for a part of the response.
Part(m) ==
  LET norm == Normalize(m, Hint)
  IN  /\ parts' = Append(parts, m)
      /\ UNCHANGED data
      /\ IF Clash(merged.data, norm.data) # {}
         THEN Raise([code |-> "execution"])
         ELSE /\ merged' = [data |-> MergeData(merged.data, norm.data),
                            errors |-> merged.errors \o norm.errors]
              /\ UNCHANGED <<asked, errors, answers, phase>>

\* ... and for the last one, after which the request's data goes into the
\* plan's: the keys before one that clashes have been merged by then.
LastPart(m) ==
  LET norm == Normalize(m, Hint)
      whole == MergeData(merged.data, norm.data)
  IN  /\ parts' = Append(parts, m)
      /\ CASE Clash(merged.data, norm.data) # {} ->
                Raise([code |-> "execution"]) /\ UNCHANGED data
           [] Clash(merged.data, norm.data) = {} /\ Clash(data, whole) # {} ->
                /\ Raise([code |-> "execution"])
                /\ \E before \in SUBSET (DOMAIN whole \ Clash(data, whole)) :
                     data' = MergeData(data, Restrict(whole, before))
           [] OTHER ->
                /\ data' = MergeData(data, whole)
                /\ errors' = errors \o merged.errors \o norm.errors
                /\ answers' = answers \o parts'
                /\ merged' = Nothing
                /\ phase' = "ready"
                /\ UNCHANGED asked

----------------------------------------------------------------------------
(* What Bloomberg may send.  A record has fields, and an exception for each *)
(* field asked for that it lacks, or an error; a message has one record for *)
(* a security at most.  The rows of a history and of bars go on from where  *)
(* the last part of the request ended; bars are those of the security that  *)
(* was asked for, which they do not name.                                   *)

RecordWith(s, ff) ==
  [security |-> s, error |-> FALSE, fields |-> ff, exceptions |-> SetToSeq(Fields \ ff), tag |-> Len(asked)]

ErrorRecord(s) == [security |-> s, error |-> TRUE, fields |-> {}, exceptions |-> <<>>, tag |-> Len(asked)]

Records == {RecordWith(s, ff) : s \in Securities, ff \in SUBSET Fields} \cup {ErrorRecord(s) : s \in Securities}

OneEach(records) == \A i, j \in DOMAIN records : records[i].security = records[j].security => i = j

HistoryRecord(s, e) == [security |-> s, error |-> e, exceptions |-> <<>>]

RowsOf(m) == IF m.kind \in {"history", "bars"} THEN Len(m.rows) ELSE 0

CountRows(n, m) == n + RowsOf(m)

\* The rows that the request has brought.
Rows == FoldLeft(CountRows, 0, parts)

HistoryWith(s, q) ==
  [kind |-> "history", record |-> HistoryRecord(s, FALSE),
   rows |-> [n \in DOMAIN q |-> [date |-> Rows + n, fields |-> q[n]]]]

HistoryError(s) == [kind |-> "history", record |-> HistoryRecord(s, TRUE), rows |-> <<>>]

Messages(kind) ==
  {[kind |-> "responseError"]} \cup
  CASE kind = "reference" ->
         {[kind |-> kind, records |-> r] :
            r \in {q \in UNION {[1..n -> Records] : n \in 1..MaxRecords} : OneEach(q)}}
    [] kind = "history" ->
         {HistoryWith(s, q) :
            s \in Securities, q \in UNION {[1..n -> SUBSET Fields] : n \in 0..MaxRows - Rows}}
         \cup {HistoryError(s) : s \in Securities}
    [] kind = "bars" ->
         {[kind |-> kind, security |-> Hint, rows |-> [n \in 1..m |-> Rows + n]] :
            m \in 0..MaxRows - Rows}
    [] kind = "info" ->
         {[kind |-> kind, infos |-> i, tag |-> Len(asked)] :
             i \in UNION {[ff -> {"info", "error"}] : ff \in SUBSET Fields}}

MayReceive == phase = "collecting" /\ Len(answers) + Len(parts) < MaxMessages

Receive ==
  /\ MayReceive
  /\ \E m \in Messages(asked[Len(asked)].kind) : Part(m) \/ LastPart(m)

ResponsesNext ==
  \/ \E kind \in Kinds, s \in Securities : Send(kind, s)
  \/ Receive \/ TimesOut

ResponsesSpec == ResponsesInit /\ [][ResponsesNext]_responseVars

ResponseStatus ==
  IF errors = <<>> THEN "ok" ELSE IF DOMAIN data # {} THEN "partial" ELSE "error"

----------------------------------------------------------------------------
(* The client's frames, for one security and field.                        *)

Column(s, f) ==
  IF s \in DOMAIN data /\ f \in DOMAIN data[s].fields THEN data[s].fields[f].items ELSE <<>>

\* The lists of pd_history must be as long as its index, or pandas raises.
PdHistoryRaises(s) == \E f \in Fields : Len(Column(s, f)) # Len(Column(s, "dates"))

----------------------------------------------------------------------------

\* What messages say about a security: the rows and the bars, the fields of
\* references, the errors, and the kinds of the messages.
Silence == [rows |-> <<>>, bars |-> <<>>, fields |-> {}, errors |-> <<>>, kinds |-> {}]

Of(m, s) == {n \in DOMAIN m.records : m.records[n].security = s}

About(m, s) ==
  CASE m.kind = "history" /\ m.record.security = s ->
         [Silence EXCEPT !.rows = m.rows, !.errors = RecordErrors(m.record), !.kinds = {m.kind}]
    [] m.kind = "bars" /\ m.security = s -> [Silence EXCEPT !.bars = m.rows, !.kinds = {m.kind}]
    [] m.kind = "reference" /\ Of(m, s) # {} ->
         LET record == m.records[CHOOSE n \in Of(m, s) : TRUE]
         IN  [Silence EXCEPT !.fields = record.fields, !.errors = RecordErrors(record), !.kinds = {m.kind}]
    [] OTHER -> Silence

AndThen(x, y) ==
  [rows |-> x.rows \o y.rows, bars |-> x.bars \o y.bars, fields |-> x.fields \cup y.fields,
   errors |-> x.errors \o y.errors, kinds |-> x.kinds \cup y.kinds]

Hear(told, m) == [s \in Securities |-> AndThen(told[s], About(m, s))]

Told(messages) == FoldLeft(Hear, [s \in Securities |-> Silence], messages)

\* Column holds the dates of the rows that have f, in their order.
IsColumn(column, rows, f) ==
  LET places == {n \in DOMAIN rows : f \in rows[n].fields}
  IN  \E at \in [DOMAIN column -> places] :
         /\ \A i, j \in DOMAIN column : i < j => at[i] < at[j]
         /\ \A n \in places : \E i \in DOMAIN column : at[i] = n
         /\ \A i \in DOMAIN column : column[i] = rows[at[i]].date

IsHistory(columns, rows) ==
  /\ DOMAIN columns = {"dates"} \cup UNION {rows[n].fields : n \in DOMAIN rows}
  /\ columns["dates"] = List([n \in DOMAIN rows |-> rows[n].date])
  /\ \A f \in DOMAIN columns \ {"dates"} : IsColumn(columns[f].items, rows, f)

\* When no collect raised, the caller has every value Bloomberg sent: a history
\* or a bar series is the concatenation of its parts in the order they came,
\* every field of a reference record is there (a security asked for both ways
\* in one plan is left out: its scalars and its series replace each other).
NothingIsLost ==
  phase # "raised" =>
    \A s \in Securities :
      LET told == Told(answers)[s]
      IN  /\ "history" \in told.kinds /\ "reference" \notin told.kinds =>
               data[s].type = "dict" /\ IsHistory(data[s].fields, told.rows)
          /\ "bars" \in told.kinds => data[s] = List(told.bars)
          /\ told.fields # {} => told.fields \subseteq DOMAIN data[s].fields

\* The errors that name a security, by the security.
WithError(by, e) ==
  IF e.code \in {"security", "field"} THEN [by EXCEPT ![e.security] = Append(@, e)] ELSE by

BySecurity(list) == FoldLeft(WithError, [s \in Securities |-> <<>>], list)

\* Every security error and field exception of a finished request is reported
\* once for each record it came in, in their order, whatever came after it.
ErrorsAreReported == \A s \in Securities : BySecurity(errors)[s] = Told(answers)[s].errors

\* pd_history gives each value the date it came with, or raises.
PandasIsAligned ==
  phase # "raised" =>
    \A s \in Securities, f \in Fields :
      LET kinds == Told(answers)[s].kinds
      IN  "history" \in kinds /\ "reference" \notin kinds /\ ~PdHistoryRaises(s)
            => Column(s, f) = Column(s, "dates")

\* What the caller is given is what Bloomberg sent (blp_exec.py:185-244,
\* normalize.py, dataframes.py:71-113): no value, no error and no date is lost
\* or moved by the merges.
DataIsWhole == NothingIsLost /\ ErrorsAreReported /\ PandasIsAligned
============================================================================
