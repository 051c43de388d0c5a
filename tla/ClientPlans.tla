---------------------------- MODULE ClientPlans ----------------------------
(***************************************************************************)
(* The plans that the client's functions build (client.py, data.py) and    *)
(* those of a language model (llm.py), against what the server makes of    *)
(* them (PlanExecution).                                                   *)
(*                                                                         *)
(* The user composes one call: a function, then securities and fields, the *)
(* overrides of bds(), and possibly a timeout (in seconds) other than the  *)
(* function's default.                                                     *)
(***************************************************************************)
EXTENDS Integers, Sequences, SequencesExt

CONSTANTS MaxArgs, Timeouts,
          Overrides,             \* the paths "overrides.<key>" of bds()
          RefusedOverrides,      \* those that Bloomberg refuses to set: no element has such a name,
                                 \* "overrides" is an array; what it takes is not in the repository
          MaxSecurities, MaxFields, MaxTimeout   \* of the plan and the settings, the smaller

VARIABLE call

RefdataService == "//blp/refdata"
FieldsService == "//blp/apiflds"

\* REQUIRED_ELEMENTS
RequiredElements ==
  [ReferenceDataRequest |-> {"securities", "fields"},
   HistoricalDataRequest |-> {"securities", "fields", "startDate", "endDate"},
   IntradayBarRequest |-> {"security", "eventType", "interval", "startDateTime", "endDateTime"},
   IntradayTickRequest |-> {"security", "eventTypes", "startDateTime", "endDateTime"},
   FieldInfoRequest |-> {"id"}]

ElementPaths == (UNION {RequiredElements[t] : t \in DOMAIN RequiredElements})
                  \cup {"periodicitySelection", "returnFieldDocumentation"}
AllPaths == ElementPaths \cup Overrides

ASSUME ClientPlansAssumption ==
  /\ {MaxArgs, MaxSecurities, MaxFields, MaxTimeout} \subseteq Nat
  /\ Timeouts \subseteq Nat
  /\ RefusedOverrides \subseteq Overrides /\ Overrides \cap ElementPaths = {}

\* The elements blpapi takes as arrays, and the table of llm.py. A set raises on the former,
\* and on the overrides that are refused.
ArrayElements == {"securities", "fields", "eventTypes", "id"}
ArrayPaths == ArrayElements \cup RefusedOverrides
KnownArrayPaths == {"securities", "fields", "eventTypes", "overrides", "ids"}

INSTANCE PlanExecution
  WITH Services <- {RefdataService, FieldsService}, AllowedServices <- {RefdataService, FieldsService},
       Types <- DOMAIN RequiredElements, AllowedTypes <- DOMAIN RequiredElements,
       Paths <- AllPaths, Required <- RequiredElements, Arrays <- ArrayPaths

----------------------------------------------------------------------------
(* The functions.  Each makes one request with one send and one collect.   *)

Request(service, type, puts, timeout) ==
  <<StartOp, OpenOp(service), CreateOp(service, type, "req1")>> \o puts
    \o <<SendOp("req1", "cid1"), CollectOp("cid1", timeout)>>

Appended(path, n) == [m \in 1..n |-> AppendOp("req1", path)]
SetAll(paths) == [m \in DOMAIN paths |-> SetOp("req1", paths[m])]

RefdataPlan(securities, fields, timeout) ==
  Request(RefdataService, "ReferenceDataRequest",
          Appended("securities", securities) \o Appended("fields", fields), timeout)

Period == <<"startDate", "endDate", "periodicitySelection">>

Bdh(securities, fields, timeout) ==
  Request(RefdataService, "HistoricalDataRequest",
          Appended("securities", securities) \o Appended("fields", fields) \o SetAll(Period), timeout)

GetBars(timeout) ==
  Request(RefdataService, "IntradayBarRequest",
          SetAll(<<"security", "eventType", "interval", "startDateTime", "endDateTime">>), timeout)

GetTicks(types, timeout) ==
  Request(RefdataService, "IntradayTickRequest",
          SetAll(<<"security">>) \o Appended("eventTypes", types)
            \o SetAll(<<"startDateTime", "endDateTime">>), timeout)

GetFieldInfo(fields, timeout) ==
  Request(FieldsService, "FieldInfoRequest",
          Appended("id", fields) \o SetAll(<<"returnFieldDocumentation">>), timeout)

PxLast(timeout) == RefdataPlan(1, 1, timeout)
RefData(securities, fields, timeout) == RefdataPlan(securities, fields, timeout)
Bds(overrides, timeout) ==
  Request(RefdataService, "ReferenceDataRequest",
          Appended("securities", 1) \o Appended("fields", 1) \o SetAll(overrides), timeout)
GetIndexMembers(timeout) == Bds(<<>>, timeout)
GetHistoricalPrices(securities, timeout) == Bdh(securities, 1, timeout)
GetReturnsData(securities, timeout) == Bdh(securities, 2, timeout)

Functions == {"px_last", "ref_data", "bds", "get_index_members", "bdh", "get_historical_prices",
              "get_returns_data", "get_bars", "get_ticks", "get_field_info", "ask", "ask_fields"}

\* The functions that take no list of securities, or of fields: they have one, and
\* get_returns_data two fields.
FixedSecurities == {"px_last", "bds", "get_index_members", "get_bars", "get_ticks", "get_field_info", "ask_fields"}
FixedFields == {"px_last", "bds", "get_index_members", "get_historical_prices",
                "get_returns_data", "get_bars"}

DefaultTimeout(fn) ==
  CASE fn \in {"px_last", "ref_data", "ask", "ask_fields"} -> 10
    [] fn = "get_returns_data" -> 60
    [] OTHER -> 30

\* A model may write each put of an array as an append or as a set.
Drifted(plan, putAs) ==
  [n \in DOMAIN plan |-> IF plan[n].op = "append" THEN [plan[n] EXCEPT !.op = putAs] ELSE plan[n]]

NotNormalised(plan) == plan   \* faulty

\* _normalise_array_paths
Normalised(plan) ==
  [n \in DOMAIN plan |->
     IF plan[n].op = "set" /\ plan[n].path \in KnownArrayPaths
     THEN AppendOp(plan[n].id, plan[n].path) ELSE plan[n]]

\* ask(): what the model answered, normalised.
Ask(plan, putAs) == Normalised(Drifted(plan, putAs))

PlanOf(c) ==
  CASE c.fn = "px_last" -> PxLast(c.timeout)
    [] c.fn = "ref_data" -> RefData(c.securities, c.fields, c.timeout)
    [] c.fn = "bds" -> Bds(c.overrides, c.timeout)
    [] c.fn = "get_index_members" -> GetIndexMembers(c.timeout)
    [] c.fn = "bdh" -> Bdh(c.securities, c.fields, c.timeout)
    [] c.fn = "get_historical_prices" -> GetHistoricalPrices(c.securities, c.timeout)
    [] c.fn = "get_returns_data" -> GetReturnsData(c.securities, c.timeout)
    [] c.fn = "get_bars" -> GetBars(c.timeout)
    [] c.fn = "get_ticks" -> GetTicks(c.fields, c.timeout)
    [] c.fn = "get_field_info" -> GetFieldInfo(c.fields, c.timeout)
    [] c.fn = "ask" -> Ask(RefdataPlan(c.securities, c.fields, c.timeout), c.putAs)
    [] c.fn = "ask_fields" -> Ask(GetFieldInfo(c.fields, c.timeout), c.putAs)

----------------------------------------------------------------------------

NoCall == [fn |-> "none"]

PlansInit == call = NoCall

Choose ==
  /\ call = NoCall
  /\ \E fn \in Functions, putAs \in {"append", "set"} :
       call' = [fn |-> fn, putAs |-> putAs, timeout |-> DefaultTimeout(fn),
                securities |-> IF fn \in FixedSecurities THEN 1 ELSE 0,
                fields |-> IF fn = "get_returns_data" THEN 2
                           ELSE IF fn \in FixedFields THEN 1 ELSE 0,
                overrides |-> <<>>]

AddSecurity ==
  /\ call # NoCall /\ call.fn \notin FixedSecurities /\ call.securities < MaxArgs
  /\ call' = [call EXCEPT !.securities = @ + 1]

AddField ==
  /\ call # NoCall /\ call.fn \notin FixedFields /\ call.fields < MaxArgs
  /\ call' = [call EXCEPT !.fields = @ + 1]

AddOverride ==
  /\ call # NoCall /\ call.fn = "bds"
  /\ \E o \in Overrides \ ToSet(call.overrides) :
       call' = [call EXCEPT !.overrides = Append(@, o)]

SetTimeout ==
  /\ call # NoCall /\ call.fn \notin {"ask", "ask_fields"}
  /\ \E t \in Timeouts : call' = [call EXCEPT !.timeout = t]

PlansNext == Choose \/ AddSecurity \/ AddField \/ AddOverride \/ SetTimeout

PlansSpec == PlansInit /\ [][PlansNext]_call

----------------------------------------------------------------------------

\* What the limits count: the requests with lists of securities and fields.
Counted(fn) == fn \notin {"get_bars", "get_ticks", "get_field_info", "ask_fields"}

\* What validate_plan lets through although Bloomberg will not take it: the ids of a field
\* info request that a model sets, for the table of arrays in llm.py has "ids" and not "id",
\* and an override that Bloomberg refuses.
Spoilt(c) == \/ c.fn = "ask_fields" /\ c.putAs = "set"
             \/ ToSet(c.overrides) \cap RefusedOverrides # {}

\* The server accepts the plan of a call exactly when its lists are not empty and
\* within the limits, and its timeout is, with overrides or without; an accepted plan
\* runs to its end and brings one answer, to a request that has every element it needs,
\* each given the way Bloomberg takes it. The two kinds of plan that are accepted and
\* fail do so before anything is sent. No plan leaves a queue.
BuiltPlansAreServed ==
  call # NoCall =>
    LET plan == PlanOf(call)  run == Execute(plan)
    IN  /\ Valid(plan) <=> /\ call.securities >= 1 /\ call.fields >= 1
                           /\ Counted(call.fn) => /\ call.securities <= MaxSecurities
                                                  /\ call.fields <= MaxFields
                           /\ call.timeout <= MaxTimeout
        /\ Valid(plan) =>
             /\ LeftRegistered(plan, run) = {}
             /\ IF Spoilt(call) THEN Status(run) = "error" /\ run.sent = <<>>
                ELSE /\ Status(run) = "ok" /\ Len(run.got) = 1
                     /\ RequiredElements[run.got[1].request.type]
                          \subseteq ToSet(run.got[1].request.paths)
============================================================================
