-------------------------------- MODULE XmlShape --------------------------------
(***************************************************************************)
(* genesispy-json2xml and genesispy-xml2json (tools/xml_json.py): a JSON   *)
(* value, the elements it becomes, and the JSON value they become again.   *)
(*                                                                         *)
(* A value is a dict, a list or an atom.  Of the atoms only those a text   *)
(* cannot tell apart have a kind of their own: "" and null, a number and   *)
(* a string of digits.                                                     *)
(***************************************************************************)
EXTENDS SequencesExt

Value(is, keys, of) == [is |-> is, keys |-> keys, of |-> of]
Dict(keys, of) == Value("dict", keys, of)
List(of)       == Value("list", <<>>, of)
Atom(x)        == Value(x, <<>>, <<>>)
EmptyText      == Atom("")

IsDict(v)  == v.is = "dict"
HasKey(v, k) == IsDict(v) /\ k \in ToSet(v.keys)
Get(v, k)  == v.of[CHOOSE n \in DOMAIN v.keys : v.keys[n] = k]
Each(v, F(_)) == [v EXCEPT !.of = [n \in DOMAIN @ |-> F(@[n])]]

-----------------------------------------------------------------------------
(* JSON to the shape of the XML. *)

TypedKeys == {"__ArrayType__", "__HashType__", "__Val__"}
\* A slip: one that is not in the table.
WrapperShort == [k \in {"Parameters", "ImmutableParameters", "Range"} |->
                IF k = "Range" THEN "List" ELSE "ParameterItem"]
\* _PLURAL_WRAPPERS
Wrapper   == [k \in {"Parameters", "ImmutableParameters", "SubInstances", "Range"} |->
                CASE k = "SubInstances" -> "SubInstanceItem" [] k = "Range" -> "List"
                  [] OTHER -> "ParameterItem"]

\* <ArrayType> and <HashType> around their items.
Array(items) == Dict(<<"ArrayItem">>, <<List(items)>>)
Hash(items)  == Dict(<<"HashItem">>, <<List(items)>>)
Keyed(key, k, v) == Dict(<<"Key", k>>, <<Atom(key), v>>)

RECURSIVE FromNative(_), ArrayItem(_), HashItem(_, _)
ArrayItems(v) == Array([n \in DOMAIN v.of |-> ArrayItem(v.of[n])])
HashItems(v)  == Hash([n \in DOMAIN v.of |-> HashItem(v.keys[n], v.of[n])])

\* _array_item, _hash_item
ArrayItem(v) ==
    CASE v.is = "list" -> Dict(<<"ArrayType">>, <<ArrayItems(v)>>)
      [] IsDict(v) /\ TypedKeys \cap ToSet(v.keys) # {} -> FromNative(v)
      [] IsDict(v) /\ TypedKeys \cap ToSet(v.keys) = {} -> Dict(<<"HashType">>, <<HashItems(v)>>)
      [] OTHER -> Dict(<<"Val">>, <<v>>)
HashItem(key, v) ==
    CASE v.is = "list"               -> Keyed(key, "ArrayType", ArrayItems(v))
      [] HasKey(v, "__ArrayType__")  -> Keyed(key, "ArrayType", ArrayItems(Get(v, "__ArrayType__")))
      [] HasKey(v, "__HashType__")   -> Keyed(key, "HashType", HashItems(Get(v, "__HashType__")))
      [] HasKey(v, "__Val__")        -> Keyed(key, "Val", Get(v, "__Val__"))
      [] IsDict(v) /\ TypedKeys \cap ToSet(v.keys) = {} -> Keyed(key, "HashType", HashItems(v))
      [] OTHER -> Keyed(key, "Val", v)

\* One entry of a dict.
Entry(k, v) ==
    CASE k = "__ArrayType__" \/ (k \in {"Val", "__Val__"} /\ v.is = "list") ->
            <<"ArrayType", IF v.is = "list" THEN ArrayItems(v) ELSE Array(<<>>)>>
      [] k = "__HashType__" \/ (k \in {"Val", "__Val__"} /\ IsDict(v)) ->
            <<"HashType", IF IsDict(v) THEN HashItems(v) ELSE Hash(<<>>)>>
      [] k \in {"Val", "__Val__"} /\ v.is \notin {"list", "dict"} -> <<"Val", v>>
      [] k \in DOMAIN Wrapper /\ v.is = "list" ->
            <<k, Dict(<<Wrapper[k]>>, <<Each(v, FromNative)>>)>>
      [] OTHER -> <<k, FromNative(v)>>
\* _from_native
FromNative(v) ==
    IF IsDict(v)
    THEN LET e == [n \in DOMAIN v.of |-> Entry(v.keys[n], v.of[n])]
         IN  Dict([n \in DOMAIN e |-> e[n][1]], [n \in DOMAIN e |-> e[n][2]])
    ELSE IF v.is = "list" THEN Each(v, FromNative) ELSE v

-----------------------------------------------------------------------------
(* Written as XML and read again. *)

\* DEFAULT_FORCE_LIST
ForceList == {"Parameter", "ParameterItem", "ParamArray", "ArrayItem", "HashItem", "Module",
              "SubInstance", "SubInstanceItem", "List"}

\* _obj_to_element puts a list out as elements side by side, one list in
\* another no differently; _element_to_obj groups elements by tag, and an
\* element with nothing in it is "".
RECURSIVE ThroughText(_), Elements(_)
Elements(v) == IF v.is = "list" THEN FlattenSeq([n \in DOMAIN v.of |-> Elements(v.of[n])])
               ELSE <<ThroughText(v)>>
Grouped(k, elements) ==
    IF Len(elements) = 1 /\ k \notin ForceList THEN elements[1] ELSE List(elements)
ThroughText(v) ==
    IF IsDict(v)
    THEN LET seen == SelectSeq([n \in DOMAIN v.of |-> <<v.keys[n], Elements(v.of[n])>>],
                               LAMBDA e : e[2] # <<>>)
         IN  IF seen = <<>> THEN EmptyText
             ELSE Dict([n \in DOMAIN seen |-> seen[n][1]],
                       [n \in DOMAIN seen |-> Grouped(seen[n][1], seen[n][2])])
    ELSE IF v.is = "null" THEN EmptyText ELSE v

-----------------------------------------------------------------------------
(* The shape of the XML to JSON. *)

Collapsed == {"Parameter", "ParameterItem", "ParamArray", "Module", "SubInstance",
              "SubInstanceItem", "List"}
Renamed(k) == CASE k = "ArrayType" -> "__ArrayType__" [] k = "HashType" -> "__HashType__"
                [] k = "Val" -> "__Val__" [] OTHER -> k
AsList(v) == IF v.is = "list" THEN v.of ELSE <<v>>

RECURSIVE ToNative(_), NativeArray(_), NativeHash(_)
\* _native_array of what stands in <ArrayType>: its items, or the value alone.
NativeArray(v) ==
    CASE v.is = "list" -> Each(v, ToNative)
      [] IsDict(v) ->
            LET items == IF HasKey(v, "ArrayItem") THEN AsList(Get(v, "ArrayItem")) ELSE <<>>
                Only(i, k) == IsDict(i) /\ i.keys = <<k>>
            IN  List([n \in DOMAIN items |->
                    LET i == items[n]
                    IN  CASE Only(i, "Val")       -> ToNative(i.of[1])
                          [] Only(i, "ArrayType") -> NativeArray(i.of[1])
                          [] Only(i, "HashType")  -> NativeHash(i.of[1])
                          [] OTHER                -> ToNative(i)])
      [] OTHER -> List(<<v>>)
\* _native_hash
NativeHash(v) ==
    CASE IsDict(v) /\ HasKey(v, "HashItem") ->
            LET items == AsList(Get(v, "HashItem"))
            IN  Dict([n \in DOMAIN items |-> Get(items[n], "Key").is],
                     [n \in DOMAIN items |->
                        LET i == items[n]
                        IN  CASE HasKey(i, "Val")       -> ToNative(Get(i, "Val"))
                              [] HasKey(i, "ArrayType") -> NativeArray(Get(i, "ArrayType"))
                              [] HasKey(i, "HashType")  -> NativeHash(Get(i, "HashType"))])
      [] IsDict(v) /\ ~HasKey(v, "HashItem") -> Each(v, ToNative)
      [] OTHER -> Dict(<<>>, <<>>)
\* _to_native; coerce_canonical types what a text of digits spells.
ToNative(v) ==
    CASE v.is = "list"   -> Each(v, ToNative)
      [] v.is = "digits" -> Atom("number")
      [] IsDict(v) ->
            IF v.keys = <<"ArrayType">> THEN NativeArray(v.of[1])
            ELSE IF v.keys = <<"HashType">> THEN NativeHash(v.of[1])
            ELSE IF Len(v.keys) = 1 /\ Head(v.keys) \in Collapsed
            THEN List([n \in DOMAIN AsList(v.of[1]) |-> ToNative(AsList(v.of[1])[n])])
            ELSE Dict([n \in DOMAIN v.keys |-> Renamed(v.keys[n])],
                      [n \in DOMAIN v.of |->
                          CASE v.keys[n] = "ArrayType" -> NativeArray(v.of[n])
                            [] v.keys[n] = "HashType"  -> NativeHash(v.of[n])
                            [] OTHER                   -> ToNative(v.of[n])])
      [] OTHER -> v

\* json_to_xml, then xml_to_json.
ThereAndBack(v) == ToNative(ThroughText(FromNative(v)))

\* What it keeps: a list with nothing in it comes back as <<"">>, null as "",
\* and digits as a number.
RECURSIVE Survives(_)
Survives(v) ==
    /\ v # List(<<>>) /\ v.is \notin {"null", "digits"}
    /\ \A n \in DOMAIN v.of : Survives(v.of[n])
=============================================================================
