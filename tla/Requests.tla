------------------------------- MODULE Requests -------------------------------
(***************************************************************************)
(* The keys under which executors store and look up the results of a        *)
(* request: the cache key of one installation, a digest of the simulation's *)
(* id and the validated inputs in JSON, and the squid id the services share, *)
(* a digest of a text made of the inputs.  A digest stands for what it is    *)
(* made of.                                                                 *)
(***************************************************************************)
EXTENDS Schema

CONSTANTS Grid,      \* floats are rounded to multiples of Grid / One
          LinesOf    \* a function: the lines of each text that has a line break,
                     \* those after the first as a name and what follows it

VARIABLE requests    \* the validated inputs of the requests so far
rvars == <<svars, requests>>

RInit == SInit /\ requests = {}

\* tolist: of the dimensions after one that is 0 nothing is left.
Nesting(shape) ==
  IF 0 \in ToSet(shape)
  THEN SubSeq(shape, 1, CHOOSE k \in DOMAIN shape: shape[k] = 0 /\ \A j \in 1..(k - 1): shape[j] # 0)
  ELSE shape

\* serialize_for_hashing: quantities and arrays become plain; what JSON cannot
\* write raises later.
ForHashing(v) ==
  LET floats == [k \in DOMAIN v.array |-> [float |-> v.array[k]]]
  IN  CASE Has(v, "array") /\ v.shape = <<>> -> [float |-> v.array[1]]
        [] Has(v, "array") /\ Len(v.shape) = 1 -> [list |-> floats]
        [] Has(v, "array") /\ Len(v.shape) > 1 -> [list |-> floats, nesting |-> Nesting(v.shape)]
        [] Has(v, "magnitude") -> [dict |-> v]
        [] OTHER -> v

\* round(value, 9), which leaves what is not finite
Rounded(x) == IF x = NaN THEN NaN ELSE Grid * ((x + Grid \div 2) \div Grid)
RoundedItem(v) == IF Has(v, "float") THEN [float |-> Rounded(v.float)] ELSE v
RoundedDict(d) ==
  CASE Has(d, "magnitude") -> [d EXCEPT !.magnitude = Rounded(@)]
    [] Has(d, "array") -> [d EXCEPT !.array = [k \in DOMAIN d.array |-> Rounded(d.array[k])]]
    [] OTHER -> d
CanonicalFloats(v) ==
  CASE Has(v, "dict") -> [dict |-> RoundedDict(v.dict)]
    [] Has(v, "list") -> [v EXCEPT !.list = [k \in DOMAIN v.list |-> RoundedItem(v.list[k])]]
    [] OTHER -> RoundedItem(v)

Writable(inputs) == \A n \in DOMAIN inputs: Jsonable(ForHashing(inputs[n]))

\* compute_cache_key
CacheKey(inputs) == [n \in DOMAIN inputs |-> CanonicalFloats(ForHashing(inputs[n]))]

\* Mutant: the values without their names.
Unnamed(inputs, n) ==
  IF n \in DOMAIN inputs THEN <<Str(ForHashing(inputs[n]))>> ELSE <<>>

\* The lines "key value" of an input, as pairs: one, unless it is a text of several.
Lines(inputs, n) ==
  IF n \notin DOMAIN inputs THEN <<>>
  ELSE LET text == Str(ForHashing(inputs[n]))
       IN  IF Has(inputs[n], "text") /\ text \in DOMAIN LinesOf
           THEN <<<<n, Head(LinesOf[text])>>>> \o Tail(LinesOf[text])
           ELSE <<<<n, text>>>>

\* compute_squid_id: the lines of the inputs in the order of their names.
SquidId(inputs) ==
  LET prologue[k \in 0..Len(FieldOrder)] ==
        IF k = 0 THEN <<>> ELSE prologue[k - 1] \o Lines(inputs, FieldOrder[k])
  IN  prologue[Len(FieldOrder)]

\* prepare_inputs and the keys made of its result: a request whose inputs are
\* refused, or cannot be written, raises before anything runs.
Request(data) ==
  /\ use = "inputs" /\ Cardinality(requests) < MaxRuns
  /\ LET inputs == Validated(schema, data)
     IN  /\ raised' = (inputs = Invalid \/ ~Writable(inputs))
         /\ requests' = IF raised' THEN requests ELSE requests \cup {inputs}
  /\ UNCHANGED <<use, schema, values, results>>

RNext == \/ SNext /\ UNCHANGED requests
         \/ \E data \in Data: Request(data)

-----------------------------------------------------------------------------
\* What a request can hold: what validation makes of what is given, and defaults,
\* which nothing validates.
Storable ==
  (UNION {{Validate(f, v): v \in Given} \cup {f.default}: f \in UNION {Fields[n]: n \in FieldNames}})
    \ {None, Invalid}

\* An array without dimensions is a number; str writes two plain values that are
\* no texts differently.
ASSUME RequestsAssumption ==
  /\ Grid \in Nat \ {0}
  /\ {None, Invalid} \cap [list: Seq(Scalars), nesting: Seq(Nat)] = {}
  /\ \A v \in Given: Has(v, "array") /\ v.shape = <<>> => Len(v.array) = 1
  /\ \A v, w \in {ForHashing(x): x \in Storable}:
       Jsonable(v) /\ Jsonable(w) /\ Str(v) = Str(w) => v = w \/ Has(v, "text") \/ Has(w, "text")

\* A text is not told from what it looks like where a field may hold both, as a
\* number field without units, or one with a default of another type; nor is a
\* line break in it from one between inputs.
Mistakable(inputs) ==
  \E n \in DOMAIN inputs:
    \/ Has(inputs[n], "text") # (schema[n].type = "Text")
    \/ Has(inputs[n], "text") /\ inputs[n].text \in DOMAIN LinesOf

\* Plain values that are the same up to what rounding takes from a float.
Close(x, y) == x = y \/ (NaN \notin {x, y} /\ x - y < Grid /\ y - x < Grid)
CloseItems(v, w) == v = w \/ (Has(v, "float") /\ Has(w, "float") /\ Close(v.float, w.float))
CloseDicts(d, e) ==
  \/ d = e
  \/ /\ Has(d, "magnitude") /\ Has(e, "magnitude") /\ d.units = e.units
     /\ Close(d.magnitude, e.magnitude)
  \/ /\ Has(d, "array") /\ Has(e, "array") /\ d.shape = e.shape /\ Len(d.array) = Len(e.array)
     /\ \A k \in DOMAIN d.array: Close(d.array[k], e.array[k])
Near(v, w) ==
  \/ CloseItems(v, w)
  \/ Has(v, "dict") /\ Has(w, "dict") /\ CloseDicts(v.dict, w.dict)
  \/ /\ Has(v, "list") /\ Has(w, "list") /\ w = [v EXCEPT !.list = w.list]
     /\ Len(v.list) = Len(w.list) /\ \A k \in DOMAIN v.list: CloseItems(v.list[k], w.list[k])

(* Requests that share a key, and so results, are requests of the same inputs, *)
(* that is of inputs that JSON writes in the same way: for the cache key up to *)
(* the rounding of floats, and for the squid id if no text of theirs can be    *)
(* taken for something else.                                                   *)
KeysSeparate ==
  \A a, b \in requests:
    /\ CacheKey(a) = CacheKey(b) =>
         DOMAIN a = DOMAIN b /\ \A n \in DOMAIN a: Near(ForHashing(a[n]), ForHashing(b[n]))
    /\ SquidId(a) = SquidId(b) =>
         \/ DOMAIN a = DOMAIN b /\ \A n \in DOMAIN a: ForHashing(a[n]) = ForHashing(b[n])
         \/ Mistakable(a) \/ Mistakable(b)
=============================================================================
