---------------------------- MODULE MaskPipeline ----------------------------
(***************************************************************************)
(* Sensitive-field masking of log events on their way to the output:       *)
(*   - MaskEvent (pkg/common/log/processevents/mask_event.go), and the     *)
(*     legacy maskEvent of common/log/mask_event.go, which differs only in *)
(*     maskQuery returning url.ParseQuery's error;                         *)
(*   - xmlMaskEvent / maskXML of common/log/xml_mask_event.go;             *)
(*   - Writer.Write (pkg/common/log/writer.go), the decorator that decodes *)
(*     the event, applies ProcessEvent and re-encodes it, chained by       *)
(*     configureWriter as XML writer -> mask writer -> file/stdout.        *)
(* Data is abstracted to what the masking tells apart.  A decoded event is *)
(* a function from field names to values; a value is JSON null, a number,  *)
(* a nested object or a string; a string is described by how it parses:    *)
(* as a JSON object, a URL query, an XML document, a single word (which    *)
(* ParseQuery reads as one key with an empty value), the mask token, or    *)
(* text ParseQuery rejects (a ';' or a malformed '%' escape).  `canon`     *)
(* records whether the text is in the layout its encoder produces          *)
(* (json.Marshal, url.Values.Encode, mxj Xml), so re-encoding is visible.  *)
(* Indentation and console colouring only change layout and are left out.  *)
(***************************************************************************)
EXTENDS Naturals, FiniteSets, TLC

CONSTANTS
    Keyword,        \* the sensitive keyword (sensitiveKeywords)
    UpperKeyword,   \* a field or element name whose lower case is Keyword
    Plain,          \* a name that is not sensitive
    Variant         \* "monorepo" (processevents) or "legacy" (common/log)

Keywords == {Keyword}                \* sensitiveKeywords
Names == {Keyword, UpperKeyword, Plain}
Lower(n) == IF n = UpperKeyword THEN Keyword ELSE n

(* Texts, i.e. what a Go string holds. *)
MaskText == [k |-> "mask"]                       \* strings.Mask
BadText  == [k |-> "bad"]
Word(w)  == [k |-> "word", w |-> w]
JsonText(f, c)  == [k |-> "json", f |-> f, canon |-> c]
QueryText(f, c) == [k |-> "query", f |-> f, canon |-> c]
XmlText(f, c)   == [k |-> "xml", f |-> f, canon |-> c]

(* Decoded JSON values. *)
Null == [t |-> "null"]
Num  == [t |-> "num"]
Str(s) == [t |-> "str", s |-> s]
Obj(f) == [t |-> "obj", f |-> f]

(* Go's (value, error) results: a value, a nil value, or an error. *)
Ok(x) == [r |-> "ok", v |-> x]
Nil == [r |-> "nil", v |-> "none"]
Err == [r |-> "err", v |-> "none"]

(* The inputs: every value a field of a decoded event may hold, up to one  *)
(* level of nesting inside objects and structured strings.                 *)
Secret == Str(Word(Plain))
Leaf == {Null, Num, Secret}
Structured ==
    { Str(JsonText(f, FALSE)) : f \in [{Keyword} -> Leaf] \cup [{Plain} -> {Secret}] }
    \cup { Str(JsonText(Plain :> Obj(Keyword :> Secret), FALSE)) }
    \cup { Str(QueryText(f, FALSE)) : f \in {Keyword :> Word(Plain) @@ Plain :> Word(Plain),
                                             Plain :> Word(Plain)} }
    \cup { Str(XmlText(n :> Word(Plain), FALSE)) : n \in Names }
    \cup { Obj(Keyword :> Secret) }
Values == Leaf \cup Structured \cup {Str(Word(Keyword)), Str(BadText), Str(MaskText)}
FieldNames == {Keyword, Plain}
Events == UNION { [D -> Values] : D \in SUBSET FieldNames }

Configs == IF Variant = "monorepo"
             THEN [mask : BOOLEAN, xml : {FALSE}]
             ELSE [mask : BOOLEAN, xml : BOOLEAN]

VARIABLES
    config,   \* MaskSensitiveFields / XMLMaskSensitiveFields of Configuration
    input,    \* the event the logger hands to the outermost Writer
    output,   \* the event that reaches the file / stdout writer
    status    \* "pending", "written", or "failed" (Write returned an error)

vars == <<config, input, output, status>>

-----------------------------------------------------------------------------
(* maskMap: every keyword whose value is not nil (absent or JSON null) is  *)
(* set to strings.Mask; `changed` reports whether any was.                 *)
MapChanged(m) == \E kw \in Keywords \cap DOMAIN m : m[kw] # Null

\* Fault variant: the nil test is dropped, so absent keywords are added.
MaskMapNoNilTest(m) ==
    [k \in DOMAIN m \cup Keywords |-> IF k \in Keywords THEN Str(MaskText) ELSE m[k]]

MaskMap(m) ==
    [k \in DOMAIN m |-> IF k \in Keywords /\ m[k] # Null THEN Str(MaskText) ELSE m[k]]

\* Fault variant: a changed document is returned as the original text.
MaskJSONNoMarshal(s) ==
    IF s.k # "json" THEN Nil ELSE Ok(s)

\* Fault variant: the document is re-marshalled even when nothing changed.
MaskJSONAlwaysMarshal(s) ==
    IF s.k # "json" THEN Nil ELSE Ok(JsonText(MaskMap(s.f), TRUE))

(* maskJSON: json.Unmarshal into a map; not a map -> nil, nil; unchanged   *)
(* -> the original data; otherwise json.Marshal of the masked map.         *)
MaskJSON(s) ==
    IF s.k # "json" THEN Nil
    ELSE IF ~MapChanged(s.f) THEN Ok(s)
    ELSE Ok(JsonText(MaskMap(s.f), TRUE))

(* url.ParseQuery of a text. A JSON or XML text has no '=' that could make *)
(* a sensitive key here, so it reads as one key that is not sensitive.     *)
ParseQuery(s) ==
    CASE s.k = "query" -> Ok(s.f)
      [] s.k = "word"  -> Ok(s.w :> Word(Plain))
      [] s.k = "bad"   -> Err
      [] OTHER         -> Ok(Plain :> Word(Plain))

(* query.Set(keyword, strings.Mask) for every keyword present, then        *)
(* query.Encode(), which yields the canonical layout.                      *)
MaskedQuery(q) ==
    QueryText([k \in DOMAIN q |-> IF k \in Keywords THEN MaskText ELSE q[k]], TRUE)

\* Fault variant: a text ParseQuery rejects is reported as an error.
MaskQueryParseError(s) ==
    LET q == ParseQuery(s) IN
    IF q = Err THEN Err
    ELSE IF Keywords \cap DOMAIN q.v = {} THEN Ok(s)
    ELSE Ok(MaskedQuery(q.v))

(* maskQuery: keywords present in the query are masked and the query       *)
(* re-encoded; unchanged -> the original data.  A parse failure is nil in  *)
(* processevents and an error in the legacy package.                       *)
MaskQuery(s) ==
    LET q == ParseQuery(s) IN
    IF q = Err THEN (IF Variant = "legacy" THEN Err ELSE Nil)
    ELSE IF Keywords \cap DOMAIN q.v = {} THEN Ok(s)
    ELSE Ok(MaskedQuery(q.v))

(* maskString: JSON first, then query, else the original string.          *)
MaskString(s) ==
    LET j == MaskJSON(s) IN
    IF j # Nil THEN j
    ELSE LET q == MaskQuery(s) IN
         IF q = Err THEN Err ELSE IF q # Nil THEN q ELSE Ok(s)

(* maskValue: only strings are masked.                                     *)
MaskValue(v) ==
    IF v.t # "str" THEN Ok(v)
    ELSE LET r == MaskString(v.s) IN IF r = Err THEN Err ELSE Ok(Str(r.v))

(* MaskEvent: maskMap on the top level, then maskValue on every field; any *)
(* error aborts the event.                                                 *)
MaskEvent(e) ==
    LET m == MaskMap(e) IN
    IF \E k \in DOMAIN m : MaskValue(m[k]) = Err THEN Err
    ELSE Ok([k \in DOMAIN m |-> MaskValue(m[k]).v])

(* maskXML: a text mxj cannot parse is nil; otherwise every leaf path      *)
(* whose lower case contains keyword + ".#text" gets its text replaced by  *)
(* the mask, and the document is always re-encoded.                        *)
MaskXML(s) ==
    IF s.k # "xml" THEN Nil
    ELSE Ok(XmlText([n \in DOMAIN s.f |-> IF Lower(n) \in Keywords THEN MaskText ELSE s.f[n]],
                    TRUE))

(* xmlMaskEvent: every string field that parses as XML is replaced.        *)
XMLMaskEvent(e) ==
    [k \in DOMAIN e |->
        IF e[k].t = "str" /\ MaskXML(e[k].s) # Nil THEN Str(MaskXML(e[k].s).v) ELSE e[k]]

(* configureWriter: Writer{ProcessEvent: xmlMaskEvent} wraps               *)
(* Writer{ProcessEvent: maskEvent}, which wraps the file/stdout writers.   *)
(* Each Writer.Write decodes, processes (an error aborts the write) and    *)
(* encodes; encoding a decoded event does not change its fields.           *)
WriteChain(cfg, e) ==
    LET afterXML == IF cfg.xml THEN XMLMaskEvent(e) ELSE e IN
    IF cfg.mask THEN MaskEvent(afterXML) ELSE Ok(afterXML)

-----------------------------------------------------------------------------
TypeOK ==
    /\ config \in Configs
    /\ input \in Events
    /\ status \in {"pending", "written", "failed"}
    /\ status = "written" => DOMAIN output = DOMAIN input

Init ==
    /\ config \in Configs
    /\ input \in Events
    /\ output = input
    /\ status = "pending"

(* One zerolog write of the event through the configured chain.           *)
Write ==
    /\ status = "pending"
    /\ LET r == WriteChain(config, input) IN
         IF r = Err
           THEN /\ status' = "failed"
                /\ UNCHANGED output
           ELSE /\ status' = "written"
                /\ output' = r.v
    /\ UNCHANGED <<config, input>>

Next == Write

Spec == Init /\ [][Next]_vars

-----------------------------------------------------------------------------
(* Reference definitions from the specification (sections 3, 4.1-4.3).    *)

Sensitive(n) == Lower(n) \in Keywords

(* The structured document a string holds, as the field names it has.      *)
DocKeys(s) ==
    CASE s.k \in {"json", "query", "xml"} -> DOMAIN s.f
      [] s.k = "word" -> {s.w}
      [] OTHER -> {}

(* A string as the spec wants it after masking: every sensitive key of     *)
(* the JSON object, query or XML document it holds carries the mask, all   *)
(* other keys keep their values.                                           *)
StringMasked(a, b, xml) ==
    \/ a.k = "json" /\ b.k = "json" /\ DOMAIN b.f = DOMAIN a.f
       /\ \A n \in DOMAIN a.f : b.f[n] = IF n \in Keywords /\ a.f[n] # Null
                                           THEN Str(MaskText) ELSE a.f[n]
    \/ a.k \in {"query", "word"} /\ b.k = "query"
       /\ \A n \in DOMAIN b.f : b.f[n] = IF n \in Keywords THEN MaskText ELSE ParseQuery(a).v[n]
    \/ a.k = "xml" /\ xml /\ b.k = "xml" /\ DOMAIN b.f = DOMAIN a.f
       /\ \A n \in DOMAIN a.f : b.f[n] = IF Sensitive(n) THEN MaskText ELSE a.f[n]
    \/ a.k = "xml" /\ ~xml /\ b = a
    \/ a.k \in {"bad", "mask"} /\ b = a
    \/ DocKeys(a) \cap Keywords = {} /\ b = a

(* Properties *)

(* An event written with masking on has every non-null top-level sensitive *)
(* field masked and, in every string field, every sensitive key of the     *)
(* JSON object, URL query or (with XML masking) XML document it holds      *)
(* masked with the rest preserved: what MaskEvent, maskJSON, maskQuery     *)
(* and maskXML promise between them.                                       *)
MaskedAsPromised ==
    (status = "written" /\ config.mask) =>
        \A n \in DOMAIN input :
            IF n \in Keywords
              THEN output[n] = IF input[n] = Null THEN Null ELSE Str(MaskText)
              ELSE \/ input[n].t # "str" /\ output[n] = input[n]
                   \/ input[n].t = "str" /\ output[n].t = "str"
                      /\ StringMasked(input[n].s, output[n].s, config.xml)

(* A string field whose content holds no sensitive key is written exactly  *)
(* as it came in, layout included (spec section 3: no needless re-encoding *)
(* when nothing is found; section 4.3 for XML).                            *)
UnchangedWithoutKeyword ==
    status = "written" =>
        \A n \in DOMAIN input \ Keywords :
            (input[n].t = "str" /\ \A d \in DocKeys(input[n].s) : ~Sensitive(d))
                => output[n] = input[n]

(* Masking never drops an event: a string that is not JSON, a query or XML *)
(* is not an error (spec section 4.1), so a decodable event is written.    *)
NoEventDropped ==
    status # "failed"
=============================================================================
