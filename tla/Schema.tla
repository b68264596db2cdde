-------------------------------- MODULE Schema --------------------------------
(***************************************************************************)
(* A schema: named fields, each of a type that validates, coerces, writes   *)
(* and reads its value.  A schema is used in three ways.  A caller assigns  *)
(* to its fields; an executor validates the inputs of a request with it;    *)
(* and the results of a simulation share the schema of its outputs, whose   *)
(* fields hold whatever output was read last.                               *)
(*                                                                         *)
(* A value is a record of one part that names what it is: [int |-> 1].  A   *)
(* float is counted in One-ths, so that some of them are no integer.        *)
(***************************************************************************)
EXTENDS Integers, Sequences, FiniteSets, SequencesExt, Functions, TLC, NoValue

CONSTANTS Fields,          \* a function: for each field the specifications it may have
          FieldOrder,      \* the names of the fields, in the order of the schema
          Raws,            \* a function: for each field the values it may be given
          Data,            \* the dictionaries of values a caller passes
          Outputs,         \* the dictionaries a run returns
          Mappings,        \* dictionaries that hold no quantity, array or image
          One,             \* the float 1.0
          MaxNumeral,      \* bound on the numbers texts spell
          UnitSize,        \* functions: the size of each unit of one dimension,
          UnitZero,        \* and where its zero lies, in the unit of size 1
          Symbols,         \* the chemical elements
          ElementOf,       \* a function: the element of each text that names one
          ImageFiles,      \* the paths of images
          PNGImages,       \* those of a mode that PNG has
          SchemaUses, MaxRuns,
          NaN

VARIABLES use,       \* what this behaviour does with the schema
          schema, values,
          raised,    \* whether the last assignment raised
          results    \* the results of the runs: their outputs, and what was saved
svars == <<use, schema, values, raised, results>>

Has(v, part) == v \notin {None, Invalid} /\ part \in DOMAIN v
FieldNames == ToSet(FieldOrder)

Floats == Int \cup {NaN}
Scalars == [int: Int] \cup [float: Floats] \cup [bool: BOOLEAN] \cup [text: STRING]
Quantities == [magnitude: Floats, units: STRING]
Arrays == [array: Seq(Floats), shape: Seq(Nat)]
Images == [image: STRING]
FieldValues == Scalars \cup Quantities \cup Arrays \cup Images \cup [element: Symbols]
               \cup [list: Seq(Scalars)]
               \cup [dict: Quantities \cup Arrays \cup Images \cup Mappings]

\* Field.__init__, and the arguments the types add.
Plain(type) ==
  [type |-> type, default |-> None, optional |-> FALSE, min |-> None, max |-> None,
   units |-> None, choices |-> {}, maxlen |-> 0, shape |-> <<>>]
FieldTypes == {"Integer", "Number", "Text", "Array", "Boolean", "Image", "Element", "List", "Dict"}
Specifications ==
  [type: FieldTypes, default: FieldValues \cup {None}, optional: BOOLEAN, min: Int \cup {None},
   max: Int \cup {None}, units: STRING \cup {None}, choices: SUBSET STRING, maxlen: Nat,
   shape: Seq(Nat \cup {None})]

-----------------------------------------------------------------------------
(* Validation: the value stored, or Invalid. *)

\* float of a text
Numeral(s) ==
  IF s = "nan" THEN NaN
  ELSE IF \E n \in 0..MaxNumeral: ToString(n) = s
       THEN One * CHOOSE n \in 0..MaxNumeral: ToString(n) = s
       ELSE Invalid

\* float(v)
Float(v) == CASE Has(v, "int") -> v.int * One
              [] Has(v, "float") -> v.float
              [] Has(v, "bool") -> IF v.bool THEN One ELSE 0
              [] Has(v, "text") -> Numeral(v.text)
              [] OTHER -> Invalid

\* NaN is neither less nor greater than a bound.
Within(f, x) == x = NaN \/ (/\ f.min # None => x >= f.min
                            /\ f.max # None => x <= f.max)

\* int(x): towards zero.
Truncated(x) == IF x >= 0 THEN x \div One ELSE -((-x) \div One)

ValidateInteger(f, v) ==
  LET x == Float(v)
  IN  IF x \notin {Invalid, NaN} /\ Within(f, Truncated(x) * One)
      THEN [int |-> Truncated(x)] ELSE Invalid

Quantity(x, units) == [magnitude |-> x, units |-> units]

\* Quantity.to
Converted(q, units) ==
  IF q.units = units THEN q
  ELSE IF {q.units, units} \subseteq DOMAIN UnitSize
       THEN Quantity(IF q.magnitude = NaN THEN NaN
                     ELSE (q.magnitude * UnitSize[q.units] + UnitZero[q.units] - UnitZero[units])
                          \div UnitSize[units], units)
       ELSE Invalid

\* Units whose zero is not that of their dimension, as degrees Celsius.
OffsetUnits == {u \in DOMAIN UnitSize: UnitZero[u] # 0}

\* x * ureg(units): nothing is multiplied by an offset unit.
Times(x, units) == IF units \in OffsetUnits THEN Invalid ELSE Quantity(x, units)

\* A plain value is returned as it came, a text too, when the field has no units.
ValidateNumber(f, v) ==
  LET x == IF Has(v, "magnitude") THEN v.magnitude ELSE Float(v)
      q == IF x = Invalid \/ f.units = None THEN v
           ELSE IF Has(v, "magnitude") THEN Converted(v, f.units)
           ELSE Times(x, f.units)
      magnitude == IF Has(q, "magnitude") THEN q.magnitude ELSE x
  IN  IF Invalid \notin {x, q} /\ Within(f, magnitude) THEN q ELSE Invalid

\* str(v)
Str(v) == CASE v = None -> "None"
            [] Has(v, "text") -> v.text
            [] Has(v, "int") -> ToString(v.int)
            [] Has(v, "bool") -> IF v.bool THEN "True" ELSE "False"
            [] Has(v, "float") -> IF v.float = NaN THEN "nan" ELSE ToString(v)
            [] OTHER -> ToString(v)

ValidateText(f, v) ==
  IF /\ f.maxlen # 0 => Len(Str(v)) <= f.maxlen
     /\ f.choices # {} => Str(v) \in f.choices
  THEN [text |-> Str(v)] ELSE Invalid

\* np.asarray(v, dtype=float)
AsArray(v) ==
  LET items == CASE v = None -> <<NaN>>
                 [] Has(v, "list") -> [k \in DOMAIN v.list |-> Float(v.list[k])]
                 [] Has(v, "array") -> v.array
                 [] Has(v, "magnitude") -> <<v.magnitude>>
                 [] OTHER -> <<Float(v)>>
  IN  IF Invalid \in ToSet(items) THEN Invalid
      ELSE [array |-> items,
            shape |-> CASE Has(v, "array") -> v.shape
                        [] Has(v, "list") -> <<Len(items)>>
                        [] OTHER -> <<>>]

\* A shape of the field may leave a dimension open; the empty one is no demand.
ValidateArray(f, v) ==
  LET a == AsArray(v)
  IN  IF /\ a # Invalid
         /\ f.shape # <<>> => /\ Len(a.shape) = Len(f.shape)
                              /\ \A d \in DOMAIN f.shape: f.shape[d] \in {None, a.shape[d]}
      THEN a ELSE Invalid

ValidateBoolean(v) ==
  CASE Has(v, "bool") -> v
    [] Has(v, "text") /\ v.text \in {"true", "yes", "1"} -> [bool |-> TRUE]
    [] Has(v, "text") /\ v.text \in {"false", "no", "0"} -> [bool |-> FALSE]
    [] Has(v, "int") \/ Has(v, "float") -> [bool |-> Float(v) # 0]
    [] OTHER -> Invalid

ValidateImage(v) ==
  CASE Has(v, "text") /\ v.text \in ImageFiles -> [image |-> v.text]
    [] Has(v, "image") -> v
    [] OTHER -> Invalid

\* The choices are compared with what is given, which may be a name: once it is
\* an element, with its symbol.
ValidateElement(f, v) ==
  LET given == IF Has(v, "element") THEN v.element ELSE v.text
  IN  IF /\ Has(v, "element") \/ (Has(v, "text") /\ v.text \in DOMAIN ElementOf)
         /\ f.choices # {} => given \in f.choices
      THEN [element |-> ElementOf[given]] ELSE Invalid

\* The type of the items of a list, and the schema of a dictionary, are not checked.
ValidateList(v) == IF Has(v, "list") THEN v ELSE Invalid
ValidateDict(v) == IF Has(v, "dict") THEN v ELSE Invalid

Validate(f, v) == CASE f.type = "Integer" -> ValidateInteger(f, v)
                    [] f.type = "Number" -> ValidateNumber(f, v)
                    [] f.type = "Text" -> ValidateText(f, v)
                    [] f.type = "Array" -> ValidateArray(f, v)
                    [] f.type = "Boolean" -> ValidateBoolean(v)
                    [] f.type = "Image" -> ValidateImage(v)
                    [] f.type = "Element" -> ValidateElement(f, v)
                    [] f.type = "List" -> ValidateList(v)
                    [] f.type = "Dict" -> ValidateDict(v)

\* value.setter: None is stored as it is.
Assigned(f, v) == IF v = None THEN None ELSE Validate(f, v)
\* value: None stands for the default, which nobody has validated.
Current(f, v) == IF v = None THEN f.default ELSE v

\* Schema.validate: data is a function of some names.
Accepts(s, data) ==
  /\ DOMAIN data \subseteq DOMAIN s
  /\ \A n \in DOMAIN s \ DOMAIN data: s[n].default # None \/ s[n].optional

\* Mutant: the values are only validated as they are assigned.
ValidatedLate(s, data) ==
  IF Accepts(s, data)
  THEN [n \in {m \in DOMAIN s: m \in DOMAIN data \/ s[m].default # None} |->
          IF n \in DOMAIN data THEN data[n] ELSE s[n].default]
  ELSE Invalid

Validated(s, data) ==
  LET present == {n \in DOMAIN s: n \in DOMAIN data \/ s[n].default # None}
      all == [n \in present |-> IF n \in DOMAIN data THEN Validate(s[n], data[n])
                                                     ELSE s[n].default]
  IN  IF Accepts(s, data) /\ \A n \in present: all[n] # Invalid THEN all ELSE Invalid

\* What fields have as defaults, callers pass and runs return.
Given == (UNION {Raws[n] \cup {f.default: f \in Fields[n]}: n \in FieldNames})
         \cup (UNION {Range(data): data \in Data \cup Outputs})

\* None, NaN and Invalid are no values; a schema names a field once; str writes text.
ASSUME SchemaAssumption ==
  /\ One \in Nat \ {0} /\ MaxNumeral \in Nat
  /\ NaN \notin Int /\ Invalid \notin Floats /\ Invalid # None
  /\ None \notin Int /\ None \notin STRING
  /\ None \notin FieldValues /\ Invalid \notin FieldValues
  /\ UnitSize \in [DOMAIN UnitSize -> Nat \ {0}] /\ UnitZero \in [DOMAIN UnitSize -> Int]
  /\ Symbols \subseteq STRING /\ ElementOf \in [DOMAIN ElementOf -> Symbols]
  /\ \A e \in Symbols: e \in DOMAIN ElementOf /\ ElementOf[e] = e
  /\ \A m \in Mappings: {"magnitude", "array", "image"} \cap DOMAIN m = {}
  /\ FieldOrder \in Seq(STRING) /\ IsInjective(FieldOrder)
  /\ \A n \in FieldNames: Fields[n] \subseteq Specifications
  /\ Given \subseteq FieldValues \cup {None}
  /\ \A v \in Given: Str(v) \in STRING

-----------------------------------------------------------------------------
(* Writing and reading. *)

\* Mutant: the units are left out.
SerializeMagnitude(v) ==
  CASE v = None -> None
    [] Has(v, "magnitude") -> [float |-> v.magnitude]
    [] OTHER -> [float |-> Float(v)]

\* The numbers among the plain values; a dictionary holds what a value is made of.
SerializeNumber(v) ==
  IF v = None THEN None
  ELSE IF Has(v, "magnitude") THEN [dict |-> v]
  ELSE IF Float(v) = Invalid THEN Invalid ELSE [float |-> Float(v)]

\* A default that is no array, image or element has not the method called.  An
\* image is encoded as PNG, which has not every mode; an element is its symbol.
SerializeObject(v, part) ==
  CASE v = None -> None
    [] Has(v, part) /\ part = "array" -> [dict |-> v]
    [] Has(v, part) /\ part = "image" /\ v.image \in PNGImages -> [dict |-> v]
    [] Has(v, part) /\ part = "element" -> [text |-> v.element]
    [] OTHER -> Invalid

Serialize(f, v) ==
  CASE f.type = "Number" -> SerializeNumber(v)
    [] f.type = "Array" -> SerializeObject(v, "array")
    [] f.type = "Image" -> SerializeObject(v, "image")
    [] f.type = "Element" -> SerializeObject(v, "element")
    [] f.type = "List" /\ v = None -> [list |-> <<>>]
    [] OTHER -> v

\* A dictionary that was not written by a field of the type lacks the key asked for.
FromDict(f, d, part) ==
  IF Has(d, "dict") /\ Has(d.dict, part) THEN Assigned(f, d.dict) ELSE Invalid

DeserializeNumber(f, d) ==
  IF d = None THEN None
  ELSE IF Has(d, "dict")
       THEN IF Has(d.dict, "magnitude") /\ Times(d.dict.magnitude, d.dict.units) # Invalid
            THEN Assigned(f, Times(d.dict.magnitude, d.dict.units)) ELSE Invalid
  ELSE IF Float(d) = Invalid THEN Invalid ELSE Assigned(f, [float |-> Float(d)])

DeserializeArray(f, d) ==
  IF d = None THEN None
  ELSE IF Has(d, "dict") THEN FromDict(f, d, "array")
  ELSE IF AsArray(d) = Invalid THEN Invalid ELSE Assigned(f, AsArray(d))

DeserializeImage(f, d) == IF d = None THEN None ELSE FromDict(f, d, "image")

DeserializeElement(f, d) ==
  IF d = None THEN None
  ELSE IF Has(d, "text") /\ d.text \in DOMAIN ElementOf
       THEN Assigned(f, [element |-> ElementOf[d.text]]) ELSE Invalid

Deserialize(f, d) ==
  CASE f.type = "Number" -> DeserializeNumber(f, d)
    [] f.type = "Array" -> DeserializeArray(f, d)
    [] f.type = "Image" -> DeserializeImage(f, d)
    [] f.type = "Element" -> DeserializeElement(f, d)
    [] OTHER -> Assigned(f, d)

\* to_dict: the keys a field writes (what is None or empty is left out), and
\* from_dict: the ones its type reads.
TypeKeys == [Integer |-> {"min", "max"}, Number |-> {"units", "min", "max"},
             Text |-> {"choices", "maxlen"}, Array |-> {"shape"}, Boolean |-> {},
             Image |-> {}, Element |-> {"choices"}, List |-> {}, Dict |-> {}]
Exported(f) ==
  Restrict(f, {"type", "optional", "default"} \cup
              {key \in TypeKeys[f.type]: f[key] # Plain(f.type)[key]})
\* An image's default is not read.
ReadKeys(type) == {"type", "optional"} \cup TypeKeys[type]
                  \cup (IF type = "Image" THEN {} ELSE {"default"})

Loaded(d) ==
  [key \in DOMAIN Plain(d.type) |->
     IF key \in DOMAIN d \cap ReadKeys(d.type) THEN d[key] ELSE Plain(d.type)[key]]
LoadedSchema(s) == [n \in DOMAIN s |-> Loaded(Exported(s[n]))]

-----------------------------------------------------------------------------
(* The fields as a caller uses them. *)

SInit == /\ use \in SchemaUses
         /\ schema \in {s \in [FieldNames -> UNION Range(Fields)]: \A n \in FieldNames: s[n] \in Fields[n]}
         /\ values = [n \in FieldNames |-> None]
         /\ raised = FALSE
         /\ results = <<>>

\* schema.name = value
SetField(n, v) ==
  /\ use = "values"
  /\ raised' = (Assigned(schema[n], v) = Invalid)
  /\ values' = IF raised' THEN values ELSE [values EXCEPT ![n] = Assigned(schema[n], v)]
  /\ UNCHANGED <<use, schema, results>>

\* set_values: the validated values are assigned one by one, and validated again.
SetValues(data) ==
  /\ use = "values"
  /\ LET validated == Validated(schema, data)
         refused == {k \in DOMAIN FieldOrder:
                       /\ validated # Invalid /\ FieldOrder[k] \in DOMAIN validated
                       /\ Assigned(schema[FieldOrder[k]], validated[FieldOrder[k]]) = Invalid}
         assigned(n) == /\ validated # Invalid /\ n \in DOMAIN validated
                        /\ \A k \in refused: \E j \in 1..(k - 1): FieldOrder[j] = n
     IN  /\ raised' = (validated = Invalid \/ refused # {})
         /\ values' = [n \in FieldNames |-> IF assigned(n) THEN Assigned(schema[n], validated[n])
                                                      ELSE values[n]]
  /\ UNCHANGED <<use, schema, results>>

-----------------------------------------------------------------------------
(* The outputs of results that share a schema. *)

\* What json.dumps writes.
Jsonable(v) == v = None \/ \E part \in {"int", "float", "bool", "text", "list", "dict"}: Has(v, part)

\* ExecutionResult.save: a field that holds a value is written in place of the
\* run's own output, or cannot be: then there is no result.
Run(data) ==
  /\ use = "outputs" /\ Len(results) < MaxRuns /\ \A n \in DOMAIN data: Jsonable(data[n])
  /\ LET own == Restrict(data, FieldNames \cap DOMAIN data)
         saved == [n \in DOMAIN own |-> IF values[n] # None THEN Serialize(schema[n], values[n])
                                                            ELSE own[n]]
     IN  /\ raised' = \E n \in DOMAIN saved: saved[n] = Invalid
         /\ results' = IF raised' THEN results ELSE Append(results, [data |-> own, saved |-> saved])
  /\ UNCHANGED <<use, schema, values>>

\* OutputData.__getattr__
ReadOutput(k, n) ==
  /\ use = "outputs" /\ k \in DOMAIN results /\ n \in DOMAIN results[k].data
  /\ LET read == Deserialize(schema[n], results[k].data[n])
     IN  /\ raised' = (read = Invalid)
         /\ values' = IF raised' THEN values ELSE [values EXCEPT ![n] = read]
  /\ UNCHANGED <<use, schema, results>>

SNext == \/ \E n \in FieldNames: \E v \in Raws[n]: SetField(n, v)
         \/ \E data \in Data: SetValues(data)
         \/ \E data \in Outputs: Run(data)
         \/ \E k \in 1..MaxRuns, n \in FieldNames: ReadOutput(k, n)

-----------------------------------------------------------------------------
\* A field that takes its own default, and whose choices, if they name elements,
\* hold their symbols too.
Steady(f) ==
  /\ Assigned(f, f.default) # Invalid
  /\ f.type = "Element" => \A name \in f.choices \cap DOMAIN ElementOf: ElementOf[name] \in f.choices

(* A set_values that raises has assigned nothing: what has been validated is *)
(* valid when it is assigned.  Only a default that its own field refuses,    *)
(* which nothing validates before, and an element that is a choice by its    *)
(* name and not by its symbol, let an assignment fail half-way.              *)
SetAllOrNothing ==
  [][ raised' /\ (\A n \in FieldNames: Steady(schema[n])) => UNCHANGED values ]_svars

\* What a field takes and what is written of it cannot be read, or written: a
\* quantity in offset units, an image of a mode PNG has not, an element whose
\* symbol is not among the choices.
Unreadable(f, v) ==
  \/ f.type = "Number" /\ Has(v, "magnitude") /\ v.units \in OffsetUnits
  \/ f.type = "Image" /\ Has(v, "image") /\ v.image \notin PNGImages
  \/ f.type = "Element" /\ Has(v, "element") /\ f.choices # {} /\ v.element \notin f.choices

(* What a simulation stores is read back as what it was.  The schema loaded   *)
(* from its stored form judges every value as the schema did, with the same   *)
(* default unless the field is an image; and a value written by the one and   *)
(* read by the other is the same value, except that a number field without    *)
(* units gives a float for whatever plain value it was given.  The values     *)
(* that are Unreadable raise: none is read as another value.                  *)
ReadBack ==
  \A n \in DOMAIN schema:
    LET f == schema[n]
        g == LoadedSchema(schema)[n]
    IN  /\ \A v \in Raws[n]: Validate(g, v) = Validate(f, v)
        /\ g.optional = f.optional /\ (f.type # "Image" => g.default = f.default)
        /\ values[n] # None =>
             LET back == Deserialize(g, Serialize(f, values[n]))
             IN  IF Unreadable(f, values[n]) THEN back = Invalid
                 ELSE \/ back = values[n]
                      \/ /\ f.type = "Number" /\ f.units = None
                         /\ back = [float |-> Float(values[n])]

(* Every result is saved with the outputs of its own run. *)
SavedOwnOutputs ==
  \A k \in DOMAIN results: results[k].saved = results[k].data
=============================================================================
