---------------------------- MODULE DataTasksProofs ----------------------------
(***************************************************************************)
(* What the driver of the data management tasks does, for all tasks: any   *)
(* number of parties, any parameters and any components added to those of  *)
(* compdef.py, as long as they have the types of their messages.           *)
(*                                                                         *)
(* The reader is followed through component.py, protobuf and               *)
(* eval_param_reader.py first (from_json, definition, Stored, Read); then  *)
(* TaskInv says what each process has done at each stage, and every        *)
(* property of a state follows from it.  CapsuleInv adds what the Capsule  *)
(* Manager holds.                                                          *)
(***************************************************************************)
EXTENDS DataTasks, DataExportProofs

-----------------------------------------------------------------------------
(* A task contains at most one export.                                     *)

(* The processes of a task take the steps of the export, and no others:    *)
(* what DataExport promises holds within main.py.                          *)
THEOREM TasksExport == TaskSpec => Spec
<1>1. TaskInit => Init
  BY DEF TaskInit
<1>2. [TaskNext]_allvars => [Next]_vars
  <2>1. ASSUME NEW i \in Parties, PartyStep(i) PROVE [Next]_vars
    BY <2>1 DEF PartyStep, Import, FromFile, GetCertFromConfigManager, Dispatch,
       ReadParams, SenderStep, ReceiverStep, Authorize, Unauthorize, Delete, OtherBody,
       CapsuleCall, Next
  <2> QED
    BY <2>1 DEF TaskNext, OwnerStep, Next, allvars
<1> QED
  BY <1>1, <1>2, PTL DEF TaskSpec, Spec

(* So the export's variables have their types.                             *)
THEOREM ExportsTyped == TaskSpec => []TypeOK
BY TasksExport, TypeCorrect, PTL

(* And output that a task has listed is complete.                          *)
THEOREM ExportsListWhole == TaskSpec => []ListedComplete
BY TasksExport, ListedWhole, PTL

-----------------------------------------------------------------------------
(* Parameters.                                                             *)

(* JSON to protobuf keeps everything but the precision of floats.          *)
LEMMA FromJson ==
  ASSUME NEW inst, IsParams(inst)
  PROVE  /\ from_json(inst).ident = inst.ident
         /\ from_json(inst).attr_paths = inst.attr_paths
         /\ from_json(inst).inputs = inst.inputs
         /\ from_json(inst).output_uris = inst.output_uris
         /\ IsSeq(from_json(inst).attrs) /\ Len(from_json(inst).attrs) = Len(inst.attrs)
         /\ \A k \in 1..Len(inst.attrs) :
              /\ from_json(inst).attrs[k].kind = inst.attrs[k].kind
              /\ from_json(inst).attrs[k].is_list = inst.attrs[k].is_list
              /\ from_json(inst).attrs[k].is_na = inst.attrs[k].is_na
              /\ from_json(inst).attrs[k].value
                   = Stored(inst.attrs[k].kind, inst.attrs[k].value)
<1> DEFINE A == [k \in DOMAIN inst.attrs |->
     [inst.attrs[k] EXCEPT !.value = Stored(inst.attrs[k].kind, inst.attrs[k].value)]]
<1>1. from_json(inst) = [inst EXCEPT !.attrs = A]
  BY DEF from_json
<1>2. /\ from_json(inst).ident = inst.ident
      /\ from_json(inst).attr_paths = inst.attr_paths
      /\ from_json(inst).inputs = inst.inputs
      /\ from_json(inst).output_uris = inst.output_uris
      /\ from_json(inst).attrs = A
  <2> HIDE DEF A
  <2> QED
    BY <1>1 DEF IsParams
<1>3. Len(inst.attrs) \in Nat /\ DOMAIN inst.attrs = 1..Len(inst.attrs)
  BY DEF IsParams, IsSeq
<1>4. IsSeq(A) /\ Len(A) = Len(inst.attrs)
  <2>1. DOMAIN A = 1..Len(inst.attrs)
    BY <1>3
  <2> HIDE DEF A
  <2>2. Len(A) = Len(inst.attrs)
    BY <1>3, <2>1
  <2> QED
    BY <1>3, <2>1, <2>2 DEF IsSeq
<1>5. ASSUME NEW k \in 1..Len(inst.attrs)
      PROVE  /\ A[k].kind = inst.attrs[k].kind
             /\ A[k].is_list = inst.attrs[k].is_list
             /\ A[k].is_na = inst.attrs[k].is_na
             /\ A[k].value = Stored(inst.attrs[k].kind, inst.attrs[k].value)
  <2> DEFINE v == Stored(inst.attrs[k].kind, inst.attrs[k].value)
  <2>1. A[k] = [inst.attrs[k] EXCEPT !.value = v]
    BY <1>3
  <2>2. DOMAIN inst.attrs[k] = {"kind", "is_list", "value", "is_na"}
    BY <1>3 DEF IsParams
  <2> HIDE DEF A, v
  <2>3. /\ A[k].kind = inst.attrs[k].kind
        /\ A[k].is_list = inst.attrs[k].is_list
        /\ A[k].is_na = inst.attrs[k].is_na
        /\ A[k].value = v
    BY <2>1, <2>2
  <2> QED
    BY <2>3 DEF v
<1> HIDE DEF A
<1> QED
  BY <1>2, <1>4, <1>5

(* What is given for a name is the same before and after, and is one       *)
(* attribute if the reader accepts the paths.                              *)
LEMMA Given ==
  ASSUME NEW inst, IsParams(inst)
  PROVE  /\ Zipped(inst) \subseteq 1..Len(inst.attrs)
         /\ Zipped(inst) \subseteq 1..Len(inst.attr_paths)
         /\ Zipped(from_json(inst)) = Zipped(inst)
         /\ \A n : GivenAt(from_json(inst), n) = GivenAt(inst, n)
         /\ PathsOnce(from_json(inst)) =>
              \A n : \A j, k \in GivenAt(inst, n) : j = k
<1>1. Len(inst.attrs) \in Nat /\ Len(inst.attr_paths) \in Nat
  BY DEF IsParams, IsSeq
<1>2. /\ Zipped(inst) \subseteq 1..Len(inst.attrs)
      /\ Zipped(inst) \subseteq 1..Len(inst.attr_paths)
  BY <1>1 DEF Zipped
<1>3. Zipped(from_json(inst)) = Zipped(inst)
  BY FromJson DEF Zipped
<1>4. ASSUME NEW n PROVE GivenAt(from_json(inst), n) = GivenAt(inst, n)
  BY <1>2, <1>3, FromJson DEF GivenAt
<1>5. ASSUME PathsOnce(from_json(inst)), NEW n, NEW j \in GivenAt(inst, n),
             NEW k \in GivenAt(inst, n), j # k
      PROVE  FALSE
  <2>1. /\ j \in Zipped(inst) /\ k \in Zipped(inst) /\ j \in Nat /\ k \in Nat
        /\ inst.attr_paths[j] = inst.attr_paths[k]
        /\ ~inst.attrs[j].is_na /\ ~inst.attrs[k].is_na
    BY <1>2, <1>5 DEF GivenAt
  <2>2. j < k \/ k < j
    BY <1>5, <2>1
  <2>3. ~from_json(inst).attrs[j].is_na /\ ~from_json(inst).attrs[k].is_na
    BY <1>2, <2>1, FromJson
  <2> QED
    BY <1>3, <1>5, <2>1, <2>2, <2>3, FromJson DEF PathsOnce
<1> QED
  BY <1>2, <1>3, <1>4, <1>5

-----------------------------------------------------------------------------
(* Definitions.                                                            *)

(* The definition has the names, inputs and outputs of the declaration.    *)
LEMMA DefinitionIs ==
  ASSUME NEW c, IsComp(c)
  PROVE  /\ definition(c).ident = c.ident
         /\ definition(c).inputs = c.inputs /\ definition(c).outputs = c.outputs
         /\ Len(definition(c).attrs) = Len(c.attrs) /\ IsSeq(definition(c).attrs)
         /\ \A i \in 1..Len(c.attrs) : definition(c).attrs[i] = AttrDef(c.attrs[i])
         /\ Names(definition(c).attrs) = Names(c.attrs)
         /\ Columns(definition(c)) = Columns(c)
         /\ \A e : NameAt(definition(c), e) = NameAt(c, e)
         /\ \A e : ColumnAt(definition(c), e) = ColumnAt(c, e)
<1>1. Len(c.attrs) \in Nat
  BY DEF IsComp, IsSeq
<1>2. /\ definition(c).ident = c.ident
      /\ definition(c).inputs = c.inputs /\ definition(c).outputs = c.outputs
      /\ definition(c).attrs = [i \in 1..Len(c.attrs) |-> AttrDef(c.attrs[i])]
  BY DEF definition
<1>3. Len(definition(c).attrs) = Len(c.attrs) /\ IsSeq(definition(c).attrs)
  <2>1. DOMAIN definition(c).attrs = 1..Len(c.attrs)
    BY <1>2
  <2> QED
    BY <1>1, <1>2, <2>1 DEF IsSeq
<1>4. \A i \in 1..Len(c.attrs) : definition(c).attrs[i] = AttrDef(c.attrs[i])
  BY <1>2
<1>5. \A i \in 1..Len(c.attrs) : AttrDef(c.attrs[i]).name = c.attrs[i].name
  BY DEF AttrDef
<1>6. Names(definition(c).attrs) = Names(c.attrs)
  BY <1>3, <1>4, <1>5 DEF Names
<1>7. Columns(definition(c)) = Columns(c)
  BY <1>2 DEF Columns
<1>8. \A e : ColumnAt(definition(c), e) = ColumnAt(c, e)
  BY <1>2 DEF ColumnAt
<1>9. \A e : NameAt(definition(c), e) = NameAt(c, e)
  BY <1>2, <1>8 DEF NameAt
<1> QED
  BY <1>2, <1>3, <1>4, <1>6, <1>7, <1>8, <1>9

(* The fields of an attribute's definition.                                *)
LEMMA AttrDefIs ==
  ASSUME NEW d
  PROVE  /\ AttrDef(d).name = d.name /\ AttrDef(d).kind = d.kind
         /\ AttrDef(d).is_list = d.is_list /\ AttrDef(d).is_optional = d.is_optional
         /\ AttrDef(d).default_value
              = IF d.default_value = None THEN <<>> ELSE Stored(d.kind, d.default_value)
         /\ AttrDef(d).allowed_values
              = IF d.allowed_values = None THEN <<>> ELSE Stored(d.kind, d.allowed_values)
         /\ ~AttrDef(d).lower_bound_enabled /\ ~AttrDef(d).upper_bound_enabled
BY DEF AttrDef

(* The attribute that the reader finds by the name of a declared one.      *)
LEMMA NamedIs ==
  ASSUME NEW c, IsComp(c), Defined(c), NEW i \in 1..Len(c.attrs)
  PROVE  /\ c.attrs[i].name \in Names(definition(c).attrs)
         /\ AttrNamed(definition(c), c.attrs[i].name) = AttrDef(c.attrs[i])
<1> DEFINE n == c.attrs[i].name
           S == ToSet(definition(c).attrs)
<1>1. S = {AttrDef(c.attrs[j]) : j \in 1..Len(c.attrs)}
  <2>1. DOMAIN definition(c).attrs = 1..Len(c.attrs)
    BY DefinitionIs DEF IsSeq
  <2>2. S = {definition(c).attrs[j] : j \in 1..Len(c.attrs)}
    BY <2>1 DEF ToSet
  <2> QED
    BY <2>2, DefinitionIs
<1>2. \A a \in S : a.name = n <=> a = AttrDef(c.attrs[i])
  <2> SUFFICES ASSUME NEW j \in 1..Len(c.attrs)
               PROVE  AttrDef(c.attrs[j]).name = n <=> AttrDef(c.attrs[j]) = AttrDef(c.attrs[i])
    BY <1>1
  <2>1. AttrDef(c.attrs[j]).name = c.attrs[j].name /\ AttrDef(c.attrs[i]).name = n
    BY AttrDefIs
  <2> QED
    BY <2>1 DEF Defined
<1>3. AttrDef(c.attrs[i]) \in S
  BY <1>1
<1>4. n \in Names(definition(c).attrs)
  BY DefinitionIs, Zenon DEF Names
<1> HIDE DEF S, n
<1>5. (CHOOSE a \in S : a.name = n) = AttrDef(c.attrs[i])
  BY <1>2, <1>3
<1> QED
  BY <1>4, <1>5 DEF AttrNamed, S, n

(* What the reader has for a declared attribute, an input and an output.   *)
LEMMA ReadIs ==
  ASSUME NEW c, IsComp(c), Defined(c), NEW inst
  PROVE  /\ \A i \in 1..Len(c.attrs) :
              Read(inst, definition(c)).attrs[c.attrs[i].name]
                = AttrValue(inst, AttrDef(c.attrs[i]))
         /\ \A e \in Columns(c) : NameAt(c, e) \notin Names(c.attrs) =>
              Read(inst, definition(c)).attrs[NameAt(c, e)] = ColumnValue(inst, NameAt(c, e))
         /\ DOMAIN Read(inst, definition(c)).inputs = Names(c.inputs)
         /\ DOMAIN Read(inst, definition(c)).outputs = Names(c.outputs)
<1> DEFINE def == definition(c)
           N == Names(def.attrs)
           C == {NameAt(def, e) : e \in Columns(def)}
<1>1. /\ Read(inst, def).attrs
           = [n \in N \cup C |-> IF n \in N THEN AttrValue(inst, AttrNamed(def, n))
                                 ELSE ColumnValue(inst, n)]
      /\ Read(inst, def).inputs = [n \in Names(def.inputs) |-> inst.inputs[InputNamed(def, n)]]
      /\ Read(inst, def).outputs
           = [n \in Names(def.outputs) |-> inst.output_uris[OutputNamed(def, n)]]
  BY DEF Read
<1>2. ASSUME NEW i \in 1..Len(c.attrs)
      PROVE  Read(inst, def).attrs[c.attrs[i].name] = AttrValue(inst, AttrDef(c.attrs[i]))
  <2>1. c.attrs[i].name \in N /\ AttrNamed(def, c.attrs[i].name) = AttrDef(c.attrs[i])
    BY NamedIs
  <2> HIDE DEF def, N, C
  <2> QED
    BY <1>1, <2>1
<1>3. ASSUME NEW e \in Columns(c), NameAt(c, e) \notin Names(c.attrs)
      PROVE  Read(inst, def).attrs[NameAt(c, e)] = ColumnValue(inst, NameAt(c, e))
  <2>1. NameAt(c, e) \in C /\ NameAt(c, e) \notin N
    BY <1>3, DefinitionIs
  <2> HIDE DEF def, N, C
  <2> QED
    BY <1>1, <2>1
<1>4. DOMAIN Read(inst, def).inputs = Names(c.inputs)
  BY <1>1, DefinitionIs
<1>5. DOMAIN Read(inst, def).outputs = Names(c.outputs)
  BY <1>1, DefinitionIs
<1> QED
  BY <1>2, <1>3, <1>4, <1>5

-----------------------------------------------------------------------------
(* Values.                                                                 *)

(* Two floats of single precision that are close are the same.             *)
LEMMA SingleIs ==
  /\ \A v \in Int : \E m \in Int : Single(v) = 4 * m
  /\ \A m, n \in Int : IsClose(4 * m, 4 * n) => m = n
<1>1. ASSUME NEW v \in Int PROVE \E m \in Int : Single(v) = 4 * m
  <2>1. (v + 2) \div 4 \in Int
    OBVIOUS
  <2> QED
    BY <2>1 DEF Single
<1>2. ASSUME NEW m \in Int, NEW n \in Int, IsClose(4 * m, 4 * n) PROVE m = n
  BY <1>2 DEF IsClose
<1> QED
  BY <1>1, <1>2

(* v is a value as a message holds it.                                     *)
Held(kind, v) == kind = "float" => \E m \in Int : v = 4 * m

(* What a message keeps of a value.                                        *)
LEMMA StoredIs ==
  ASSUME NEW kind, NEW v, IsValues(kind, v)
  PROVE  /\ IsSeq(Stored(kind, v)) /\ Len(Stored(kind, v)) = Len(v)
         /\ \A k \in 1..Len(v) : Held(kind, Stored(kind, v)[k])
         /\ \A k \in 1..Len(v) :
              Stored(kind, v)[k] = IF kind = "float" THEN Single(v[k]) ELSE v[k]
<1>1. Len(v) \in Nat /\ DOMAIN v = 1..Len(v)
  BY DEF IsValues, IsSeq
<1>2. CASE kind = "float"
  <2>1. Stored(kind, v) = [i \in 1..Len(v) |-> Single(v[i])]
    BY <1>2 DEF Stored
  <2>2. DOMAIN Stored(kind, v) = 1..Len(v)
    BY <2>1
  <2>3. Len(Stored(kind, v)) = Len(v)
    BY <1>1, <2>1, <2>2
  <2>4. \A k \in 1..Len(v) : Stored(kind, v)[k] = Single(v[k]) /\ v[k] \in Int
    BY <1>1, <1>2, <2>1 DEF IsValues
  <2>5. \A n \in Int : Held(kind, Single(n))
    BY SingleIs, Zenon DEF Held
  <2>6. \A k \in 1..Len(v) : Held(kind, Stored(kind, v)[k])
    BY <2>4, <2>5, Zenon
  <2> QED
    BY <1>1, <1>2, <2>2, <2>3, <2>4, <2>6 DEF IsSeq
<1>3. CASE kind # "float"
  BY <1>1, <1>3 DEF Stored, IsSeq, Held
<1> QED
  BY <1>2, <1>3

(* The values of a message that are among given ones.                      *)
LEMMA StoredAmong ==
  ASSUME NEW kind, NEW v, IsValues(kind, v), NEW w,
         IsValues(kind, w), ToSet(v) \subseteq ToSet(w)
  PROVE  ToSet(Stored(kind, v)) \subseteq ToSet(Stored(kind, w))
<1> DEFINE F(x) == IF kind = "float" THEN Single(x) ELSE x
<1>1. ASSUME NEW x, IsValues(kind, x)
      PROVE  /\ ToSet(x) = {x[k] : k \in 1..Len(x)}
             /\ ToSet(Stored(kind, x)) = {F(x[k]) : k \in 1..Len(x)}
  <2>1. DOMAIN x = 1..Len(x)
    BY <1>1 DEF IsValues, IsSeq
  <2>2. /\ DOMAIN Stored(kind, x) = 1..Len(x)
        /\ \A k \in 1..Len(x) : Stored(kind, x)[k] = F(x[k])
    BY <1>1, StoredIs DEF IsSeq
  <2> QED
    BY <2>1, <2>2 DEF ToSet
<1> HIDE DEF F
<1>2. /\ ToSet(v) = {v[k] : k \in 1..Len(v)}
      /\ ToSet(Stored(kind, v)) = {F(v[k]) : k \in 1..Len(v)}
  BY <1>1
<1>3. /\ ToSet(w) = {w[k] : k \in 1..Len(w)}
      /\ ToSet(Stored(kind, w)) = {F(w[k]) : k \in 1..Len(w)}
  BY <1>1
<1>4. \A k \in 1..Len(v) : \E j \in 1..Len(w) : v[k] = w[j]
  BY <1>2, <1>3, Zenon
<1> QED
  BY <1>2, <1>3, <1>4

(* The value of an attribute: what is given for it, or its default.        *)
LEMMA ValueIs ==
  ASSUME NEW inst, IsParams(inst), NEW d, IsDecl(d)
  PROVE  /\ GivenAt(inst, d.name) = {} /\ d.default_value # None =>
              AttrValue(from_json(inst), AttrDef(d)) = Stored(d.kind, d.default_value)
         /\ GivenAt(inst, d.name) # {} =>
              LET a == inst.attrs[CHOOSE k \in GivenAt(inst, d.name) : TRUE]
              IN AttrValue(from_json(inst), AttrDef(d))
                   = IF a.kind = d.kind /\ a.is_list = d.is_list
                     THEN Stored(d.kind, a.value)
                     ELSE IF d.is_list THEN <<>> ELSE <<Zero(d.kind)>>
<1> DEFINE j == from_json(inst)
           G == GivenAt(inst, d.name)
           i == CHOOSE k \in G : TRUE
<1>1. /\ AttrDef(d).name = d.name /\ AttrDef(d).kind = d.kind
      /\ AttrDef(d).is_list = d.is_list
      /\ d.default_value # None => AttrDef(d).default_value = Stored(d.kind, d.default_value)
  BY AttrDefIs
<1>2. GivenAt(j, d.name) = G /\ G \subseteq 1..Len(inst.attrs)
  <2>1. GivenAt(j, d.name) = G
    BY Given
  <2>2. G \subseteq Zipped(inst) /\ Zipped(inst) \subseteq 1..Len(inst.attrs)
    BY Given DEF GivenAt
  <2> QED
    BY <2>1, <2>2
<1>3. AttrValue(j, AttrDef(d))
        = get_value(IF G = {} THEN DefaultAttribute(AttrDef(d)) ELSE j.attrs[i],
                    d.kind, d.is_list)
  BY <1>1, <1>2 DEF AttrValue, Chosen
<1>4. G = {} /\ d.default_value # None =>
        AttrValue(j, AttrDef(d)) = Stored(d.kind, d.default_value)
  BY <1>1, <1>3 DEF get_value, DefaultAttribute
<1>5. ASSUME G # {}
      PROVE  AttrValue(j, AttrDef(d))
               = IF inst.attrs[i].kind = d.kind /\ inst.attrs[i].is_list = d.is_list
                 THEN Stored(d.kind, inst.attrs[i].value)
                 ELSE IF d.is_list THEN <<>> ELSE <<Zero(d.kind)>>
  <2>1. i \in 1..Len(inst.attrs)
    BY <1>2, <1>5
  <2>2. /\ j.attrs[i].kind = inst.attrs[i].kind
        /\ j.attrs[i].is_list = inst.attrs[i].is_list
        /\ j.attrs[i].value = Stored(inst.attrs[i].kind, inst.attrs[i].value)
    BY <2>1, FromJson
  <2> HIDE DEF j, i, G
  <2> QED
    BY <1>3, <1>5, <2>2 DEF get_value
<1> QED
  BY <1>4, <1>5

-----------------------------------------------------------------------------
(* The reader against the declaration.                                     *)

(* What the checks of a declaration say of allowed values and defaults.    *)
LEMMA DeclaredIs ==
  ASSUME NEW d, IsDecl(d), attr_declared(d)
  PROVE  /\ d.is_optional => d.default_value # None
         /\ d.kind # "bool" => DefaultAllowed(d)
         /\ d.kind \in {"float", "int"} => BoundsSettable(d)
BY Zenon DEF IsDecl, Kinds, attr_declared, float_attr, int_attr, str_attr, bool_attr,
   DefaultIfOptional

(* What the reader has for a declared attribute meets the declaration.     *)
LEMMA AttrMeets ==
  ASSUME NEW inst, IsParams(inst), NEW d, IsDecl(d), attr_declared(d),
         PathsOnce(from_json(inst)), AttrRead(from_json(inst), AttrDef(d)),
         NEW v, v = AttrValue(from_json(inst), AttrDef(d))
  PROVE  /\ GivenAt(inst, d.name) = {} =>
              d.is_optional /\ v = Stored(d.kind, d.default_value)
         /\ \A k \in GivenAt(inst, d.name) :
              v = IF inst.attrs[k].kind = d.kind /\ inst.attrs[k].is_list = d.is_list
                  THEN Stored(d.kind, inst.attrs[k].value)
                  ELSE IF d.is_list THEN <<>> ELSE <<Zero(d.kind)>>
         /\ d.allowed_values \notin {None, <<>>} /\ ~d.is_list
              => v[1] \in ToSet(Stored(d.kind, d.allowed_values))
         /\ d.allowed_values \notin {None, <<>>} /\ GivenAt(inst, d.name) = {}
              => ToSet(v) \subseteq ToSet(Stored(d.kind, d.allowed_values))
<1> DEFINE G == GivenAt(inst, d.name)
           i == CHOOSE k \in G : TRUE
<1>1. G = {} => d.is_optional /\ d.default_value # None
  BY Given, AttrDefIs, DeclaredIs DEF AttrRead
<1>2. G = {} => v = Stored(d.kind, d.default_value)
  BY <1>1, ValueIs, Zenon
<1>3. G # {} => v = IF inst.attrs[i].kind = d.kind /\ inst.attrs[i].is_list = d.is_list
                    THEN Stored(d.kind, inst.attrs[i].value)
                    ELSE IF d.is_list THEN <<>> ELSE <<Zero(d.kind)>>
  BY ValueIs, Zenon
<1>4. \A k \in G : i = k
  BY Given
<1>5. \A k \in G :
        v = IF inst.attrs[k].kind = d.kind /\ inst.attrs[k].is_list = d.is_list
            THEN Stored(d.kind, inst.attrs[k].value)
            ELSE IF d.is_list THEN <<>> ELSE <<Zero(d.kind)>>
  <2> SUFFICES ASSUME NEW k \in G
               PROVE  v = IF inst.attrs[k].kind = d.kind
                               /\ inst.attrs[k].is_list = d.is_list
                          THEN Stored(d.kind, inst.attrs[k].value)
                          ELSE IF d.is_list THEN <<>> ELSE <<Zero(d.kind)>>
    OBVIOUS
  <2>1. G # {} /\ i = k
    BY <1>4
  <2> HIDE DEF G, i
  <2> QED
    BY <1>3, <2>1, Zenon
<1>6. ASSUME d.allowed_values \notin {None, <<>>}, ~d.is_list
      PROVE  v[1] \in ToSet(Stored(d.kind, d.allowed_values))
  <2> DEFINE A == Stored(d.kind, d.allowed_values)
  <2>1. IsValues(d.kind, d.allowed_values) /\ d.kind # "bool"
    BY <1>6 DEF IsDecl
  <2>2. IsSeq(A) /\ Len(A) = Len(d.allowed_values)
    BY <2>1, StoredIs
  <2>3. A # <<>>
    <3>1. CASE d.kind = "float"
      <4>1. Len(d.allowed_values) # 0
        BY <1>6, <2>1, <3>1 DEF IsValues, IsSeq
      <4> HIDE DEF A
      <4> QED
        BY <2>2, <4>1
    <3>2. CASE d.kind # "float"
      BY <1>6, <3>2 DEF Stored
    <3> QED
      BY <3>1, <3>2
  <2>4. check_allowed_values(v, AttrDef(d))
    BY DEF AttrRead
  <2>5. PICK w \in ToSet(A) : Same(AttrDef(d), v[1], w)
    <3>1. AttrDef(d).allowed_values = A
      BY <1>6, AttrDefIs
    <3> HIDE DEF A
    <3> QED
      BY <1>6, <2>1, <2>3, <2>4, <3>1, AttrDefIs DEF check_allowed_values
  <2>6. CASE d.kind # "float"
    BY <2>5, <2>6, AttrDefIs DEF Same
  <2>7. CASE d.kind = "float"
    <3>1. PICK n \in Int : w = 4 * n
      <4>1. \A k \in DOMAIN A : Held("float", A[k])
        BY <2>1, <2>2, <2>7, StoredIs DEF IsSeq
      <4> HIDE DEF A
      <4> QED
        BY <2>5, <4>1 DEF Held, ToSet
    <3>2. \E m \in Int : v[1] = 4 * m
      <4>1. ASSUME NEW x, IsValues("float", x), Len(x) = 1
            PROVE  \E m \in Int : Stored("float", x)[1] = 4 * m
        BY <4>1, StoredIs DEF Held
      <4>2. CASE G = {}
        BY <1>1, <1>2, <1>6, <2>7, <4>1, <4>2 DEF IsDecl, IsValue
      <4>3. CASE G # {}
        <5>1. i \in 1..Len(inst.attrs)
          <6>1. G \subseteq Zipped(inst)
            BY DEF GivenAt
          <6> HIDE DEF G
          <6> QED
            BY <4>3, <6>1, Given
        <5>2. IsValue(inst.attrs[i], inst.attrs[i].value)
          BY <5>1 DEF IsParams, IsSeq
        <5>3. Zero("float") = 4 * 0
          BY DEF Zero
        <5> HIDE DEF i, G
        <5>4. CASE inst.attrs[i].kind = d.kind /\ inst.attrs[i].is_list = d.is_list
          <6>1. IsValues("float", inst.attrs[i].value) /\ Len(inst.attrs[i].value) = 1
            BY <1>6, <2>7, <5>2, <5>4 DEF IsValue
          <6>2. v = Stored("float", inst.attrs[i].value)
            BY <1>3, <2>7, <4>3, <5>4, Zenon
          <6> QED
            BY <4>1, <6>1, <6>2, Zenon
        <5>5. CASE ~(inst.attrs[i].kind = d.kind /\ inst.attrs[i].is_list = d.is_list)
          <6>1. v = <<Zero("float")>>
            BY <1>3, <1>6, <2>7, <4>3, <5>5, Zenon
          <6> QED
            BY <5>3, <6>1
        <5> QED
          BY <5>4, <5>5
      <4> QED
        BY <4>2, <4>3
    <3>3. IsClose(v[1], w)
      BY <2>5, <2>7, AttrDefIs DEF Same
    <3>4. v[1] = w
      BY <3>1, <3>2, <3>3, SingleIs
    <3> QED
      BY <2>5, <3>4
  <2> QED
    BY <2>6, <2>7
<1>7. ASSUME d.allowed_values \notin {None, <<>>}, G = {}
      PROVE  ToSet(v) \subseteq ToSet(Stored(d.kind, d.allowed_values))
  <2>1. IsValues(d.kind, d.allowed_values) /\ d.kind # "bool"
    BY <1>7 DEF IsDecl
  <2>2. IsValues(d.kind, d.default_value)
    BY <1>1, <1>7 DEF IsDecl, IsValue
  <2>3. ToSet(d.default_value) \subseteq ToSet(d.allowed_values)
    BY <1>1, <1>7, <2>1, DeclaredIs DEF DefaultAllowed
  <2>4. v = Stored(d.kind, d.default_value)
    BY <1>2, <1>7
  <2> QED
    BY <2>1, <2>2, <2>3, <2>4, StoredAmong, Zenon
<1> QED
  BY <1>1, <1>2, <1>5, <1>6, <1>7

(* With the documented fields no declared attribute has a bound.           *)
LEMMA NoBounds ==
  ASSUME FieldsDocumented, NEW d, IsDecl(d), attr_declared(d)
  PROVE  d.lower_bound = None /\ d.upper_bound = None
BY DeclaredIs DEF FieldsDocumented, BoundsSettable, IsDecl, Kinds

(* A column has the same value before and after protobuf.                  *)
LEMMA ColumnIs ==
  ASSUME NEW inst, IsParams(inst), NEW n
  PROVE  ColumnValue(from_json(inst), n) = ColumnValue(inst, n)
<1> DEFINE G == GivenAt(inst, n)
           i == CHOOSE k \in G : TRUE
<1>1. GivenAt(from_json(inst), n) = G
  BY Given
<1>2. ASSUME G # {}
      PROVE  get_value(from_json(inst).attrs[i], "str", TRUE)
               = get_value(inst.attrs[i], "str", TRUE)
  <2>1. i \in 1..Len(inst.attrs)
    <3>1. G \subseteq Zipped(inst)
      BY DEF GivenAt
    <3> HIDE DEF G
    <3> QED
      BY <1>2, <3>1, Given
  <2> HIDE DEF i, G
  <2> QED
    BY <2>1, FromJson, Zenon DEF get_value, Stored
<1> QED
  BY <1>1, <1>2, Zenon DEF ColumnValue

(* An attribute whose value is legal is accepted.                          *)
LEMMA LegalRead ==
  ASSUME FieldsDocumented, NEW inst, IsParams(inst), PathsOnce(from_json(inst)),
         NEW d, IsDecl(d), attr_declared(d),
         \/ d.is_optional /\ d.name \notin ToSet(inst.attr_paths)
         \/ \E k \in GivenAt(inst, d.name) :
              /\ inst.attrs[k].kind = d.kind /\ inst.attrs[k].is_list = d.is_list
              /\ \/ d.allowed_values = None
                 \/ ToSet(inst.attrs[k].value) \subseteq ToSet(d.allowed_values)
  PROVE  AttrRead(from_json(inst), AttrDef(d))
<1> DEFINE G == GivenAt(inst, d.name)
           i == CHOOSE k \in G : TRUE
           v == AttrValue(from_json(inst), AttrDef(d))
<1>1. PICK x : /\ v = Stored(d.kind, x) /\ IsValue(d, x)
               /\ d.kind # "bool" /\ d.allowed_values # None
                    => ToSet(x) \subseteq ToSet(d.allowed_values)
               /\ G = {} => d.is_optional
  <2>1. CASE d.is_optional /\ d.name \notin ToSet(inst.attr_paths)
    <3>1. G = {}
      <4>1. DOMAIN inst.attr_paths = 1..Len(inst.attr_paths)
        BY DEF IsParams, IsSeq
      <4> QED
        BY <2>1, <4>1, Given DEF GivenAt, ToSet
    <3>2. d.default_value # None
      BY <2>1, DeclaredIs
    <3>3. v = Stored(d.kind, d.default_value)
      BY <3>1, <3>2, ValueIs, Zenon
    <3>4. IsValue(d, d.default_value)
      BY <3>2 DEF IsDecl
    <3>5. d.kind # "bool" /\ d.allowed_values # None
            => ToSet(d.default_value) \subseteq ToSet(d.allowed_values)
      BY <3>2, DeclaredIs DEF DefaultAllowed
    <3> HIDE DEF v, G
    <3> QED
      BY <2>1, <3>3, <3>4, <3>5, Zenon
  <2>2. CASE \E k \in G :
               /\ inst.attrs[k].kind = d.kind /\ inst.attrs[k].is_list = d.is_list
               /\ \/ d.allowed_values = None
                  \/ ToSet(inst.attrs[k].value) \subseteq ToSet(d.allowed_values)
    <3>1. PICK k \in G :
            /\ inst.attrs[k].kind = d.kind /\ inst.attrs[k].is_list = d.is_list
            /\ \/ d.allowed_values = None
               \/ ToSet(inst.attrs[k].value) \subseteq ToSet(d.allowed_values)
      BY <2>2
    <3>2. i = k
      BY Given
    <3>3. v = Stored(d.kind, inst.attrs[k].value)
      <4>1. v = IF inst.attrs[i].kind = d.kind /\ inst.attrs[i].is_list = d.is_list
                THEN Stored(d.kind, inst.attrs[i].value)
                ELSE IF d.is_list THEN <<>> ELSE <<Zero(d.kind)>>
        BY <3>1, ValueIs, Zenon
      <4> HIDE DEF v, i, G
      <4> QED
        BY <3>1, <3>2, <4>1
    <3>4. IsValue(d, inst.attrs[k].value)
      <4>1. k \in 1..Len(inst.attrs)
        BY Given DEF GivenAt
      <4>2. IsValue(inst.attrs[k], inst.attrs[k].value)
        BY <4>1 DEF IsParams, IsSeq
      <4> HIDE DEF G
      <4> QED
        BY <3>1, <4>2, Zenon DEF IsValue
    <3> HIDE DEF v, G
    <3> QED
      BY <3>1, <3>3, <3>4
  <2> QED
    BY <2>1, <2>2, Zenon
<1>2. check_allowed_values(v, AttrDef(d))
  <2> HIDE DEF v
  <2>0. SUFFICES ASSUME ~d.is_list, d.kind # "bool", AttrDef(d).allowed_values # <<>>
                 PROVE  \E w \in ToSet(AttrDef(d).allowed_values) :
                          Same(AttrDef(d), v[1], w)
    BY AttrDefIs DEF check_allowed_values
  <2>1. /\ d.allowed_values # None
        /\ AttrDef(d).allowed_values = Stored(d.kind, d.allowed_values)
    BY <2>0, AttrDefIs
  <2>2. IsValues(d.kind, d.allowed_values) /\ IsValues(d.kind, x) /\ Len(x) = 1
    BY <1>1, <2>0, <2>1 DEF IsDecl, IsValue
  <2>3. ToSet(v) \subseteq ToSet(AttrDef(d).allowed_values)
    BY <1>1, <2>0, <2>1, <2>2, StoredAmong
  <2>4. IsSeq(v) /\ Len(v) = 1 /\ Held(d.kind, v[1])
    BY <1>1, <2>2, StoredIs
  <2>5. v[1] \in ToSet(AttrDef(d).allowed_values)
    BY <2>3, <2>4 DEF IsSeq, ToSet
  <2>6. Same(AttrDef(d), v[1], v[1])
    BY <2>4, AttrDefIs DEF Same, Held, IsClose
  <2> QED
    BY <2>5, <2>6
<1>3. check_lower_bound(v, AttrDef(d)) /\ check_upper_bound(v, AttrDef(d))
  BY AttrDefIs, Zenon DEF check_lower_bound, check_upper_bound
<1>4. GivenAt(from_json(inst), AttrDef(d).name) = {} => AttrDef(d).is_optional
  BY <1>1, Given, AttrDefIs, Zenon
<1> QED
  BY <1>2, <1>3, <1>4, Zenon DEF AttrRead, FieldsDocumented

(* Legal parameters of a declared component are accepted.                  *)
LEMMA LegalAccepted ==
  ASSUME FieldsDocumented, NEW c, IsComp(c), Declared(c), NEW inst, IsParams(inst),
         Legal(c, inst)
  PROVE  Accepts(from_json(inst), definition(c))
<1> DEFINE j == from_json(inst)
           def == definition(c)
<1>1. j.ident = def.ident
  BY FromJson, DefinitionIs, Zenon DEF Legal
<1>2. PathsOnce(j)
  <2>1. ASSUME NEW k \in Zipped(inst), NEW l \in Zipped(inst),
               k < l, inst.attr_paths[k] = inst.attr_paths[l]
        PROVE  FALSE
    <3>1. /\ k \in DOMAIN inst.attr_paths /\ l \in DOMAIN inst.attr_paths
          /\ k \in Nat /\ l \in Nat
      BY Given DEF IsParams, IsSeq
    <3> QED
      BY <2>1, <3>1 DEF Legal, IsInjective
  <2> QED
    BY <2>1, Given, FromJson, Zenon DEF PathsOnce
<1>3. ASSUME NEW i \in 1..Len(def.attrs) PROVE AttrRead(j, def.attrs[i])
  <2>1. i \in DOMAIN c.attrs /\ def.attrs[i] = AttrDef(c.attrs[i])
    BY DefinitionIs, Zenon DEF IsComp, IsSeq
  <2>2. c.attrs[i] \in ToSet(c.attrs)
    BY <2>1 DEF ToSet
  <2>3. IsDecl(c.attrs[i]) /\ attr_declared(c.attrs[i])
    BY <2>1, <2>2 DEF IsComp, Declared
  <2> DEFINE d == c.attrs[i]
  <2>4. \/ d.is_optional /\ d.name \notin ToSet(inst.attr_paths)
        \/ \E k \in GivenAt(inst, d.name) :
             /\ inst.attrs[k].kind = d.kind /\ inst.attrs[k].is_list = d.is_list
             /\ \/ d.allowed_values = None
                \/ ToSet(inst.attrs[k].value) \subseteq ToSet(d.allowed_values)
    BY <2>2 DEF Legal
  <2> QED
    BY <1>2, <2>1, <2>3, <2>4, LegalRead, Zenon
<1>4. InputsRead(j, def)
  BY FromJson, DefinitionIs DEF Legal, InputsRead
<1>5. ColumnsRead(j, def)
  <2>1. ColumnsRead(inst, c)
    BY DEF Legal
  <2>2. /\ Columns(def) = Columns(c) /\ Names(def.attrs) = Names(c.attrs)
        /\ \A e : NameAt(def, e) = NameAt(c, e) /\ ColumnAt(def, e) = ColumnAt(c, e)
    BY DefinitionIs
  <2>3. \A n : ColumnValue(j, n) = ColumnValue(inst, n)
    BY ColumnIs
  <2> HIDE DEF def, j
  <2> QED
    BY <2>1, <2>2, <2>3 DEF ColumnsRead
<1>6. Len(j.output_uris) = Len(def.outputs)
  BY FromJson, DefinitionIs DEF Legal
<1> QED
  BY <1>1, <1>2, <1>3, <1>4, <1>5, <1>6, Zenon DEF Accepts

-----------------------------------------------------------------------------
(* The component of a task.                                                *)

(* Sequences written out.                                                  *)
LEMMA Tuples ==
  /\ IsSeq(<<>>)
  /\ \A a : IsSeq(<<a>>) /\ Len(<<a>>) = 1 /\ <<a>>[1] = a
  /\ \A a, b : IsSeq(<<a, b>>) /\ Len(<<a, b>>) = 2 /\ <<a, b>>[1] = a /\ <<a, b>>[2] = b
  /\ \A a, b, c, d, e :
       LET s == <<a, b, c, d, e>>
       IN IsSeq(s) /\ Len(s) = 5
            /\ s[1] = a /\ s[2] = b /\ s[3] = c /\ s[4] = d /\ s[5] = e
BY DEF IsSeq

(* A string attribute of compdef.py has the types of component.py.         *)
LEMMA StrDecl == ASSUME NEW n PROVE IsDecl(StrAttr(n, TRUE)) /\ IsDecl(StrAttr(n, FALSE))
<1>1. ASSUME NEW a, a.kind = "str", a.is_list \in BOOLEAN, a.is_optional = FALSE,
             a.allowed_values = None, a.lower_bound = None, a.upper_bound = None,
             IsValue(a, a.default_value)
      PROVE  IsDecl(a)
  BY <1>1, Zenon DEF IsDecl, Kinds
<1>2. IsDecl(StrAttr(n, TRUE))
  <2> DEFINE a == StrAttr(n, TRUE)
  <2>1. /\ a.kind = "str" /\ a.is_list = TRUE /\ a.is_optional = FALSE
        /\ a.allowed_values = None /\ a.lower_bound = None /\ a.upper_bound = None
        /\ a.default_value = <<>>
    BY DEF StrAttr
  <2> HIDE DEF a
  <2>2. IsValue(a, a.default_value)
    BY <2>1, Tuples DEF IsValue, IsValues
  <2>3. IsDecl(a)
    BY <1>1, <2>1, <2>2, Zenon
  <2> QED
    BY <2>3, Zenon DEF a
<1>3. IsDecl(StrAttr(n, FALSE))
  <2> DEFINE a == StrAttr(n, FALSE)
  <2>1. /\ a.kind = "str" /\ a.is_list = FALSE /\ a.is_optional = FALSE
        /\ a.allowed_values = None /\ a.lower_bound = None /\ a.upper_bound = None
        /\ a.default_value = <<"">>
    BY Zenon DEF StrAttr
  <2> HIDE DEF a
  <2>2. IsValue(a, a.default_value)
    BY <2>1, Tuples, Zenon DEF IsValue, IsValues
  <2>3. IsDecl(a)
    BY <1>1, <2>1, <2>2, Zenon
  <2> QED
    BY <2>3, Zenon DEF a
<1> QED
  BY <1>2, <1>3, Zenon

(* The components of compdef.py are declared with those types.             *)
LEMMA CompdefComps == \A c \in compdef : IsComp(c)
<1>1. ASSUME NEW c, IsSeq(c.attrs), IsSeq(c.inputs), IsSeq(c.outputs),
             \A i \in 1..Len(c.attrs) : IsDecl(c.attrs[i])
      PROVE  IsComp(c)
  BY <1>1 DEF IsComp, IsSeq
<1>2. IsComp(data_upload_comp)
  <2>1. /\ IsSeq(data_upload_comp.attrs) /\ Len(data_upload_comp.attrs) = 1
        /\ IsSeq(data_upload_comp.inputs) /\ IsSeq(data_upload_comp.outputs)
    BY Tuples DEF data_upload_comp
  <2>2. IsDecl(data_upload_comp.attrs[1])
    BY StrDecl, Tuples, Zenon DEF data_upload_comp
  <2> QED
    BY <1>1, <2>1, <2>2
<1>3. IsComp(data_auth_comp)
  <2>1. /\ IsSeq(data_auth_comp.attrs) /\ Len(data_auth_comp.attrs) = 5
        /\ IsSeq(data_auth_comp.inputs) /\ IsSeq(data_auth_comp.outputs)
    BY Tuples DEF data_auth_comp
  <2>2. /\ IsDecl(data_auth_comp.attrs[1])
        /\ IsDecl(data_auth_comp.attrs[2])
        /\ IsDecl(data_auth_comp.attrs[3])
        /\ IsDecl(data_auth_comp.attrs[4])
        /\ IsDecl(data_auth_comp.attrs[5])
    BY StrDecl, Tuples, Zenon DEF data_auth_comp
  <2> QED
    BY <1>1, <2>1, <2>2
<1>4. IsComp(data_export_comp)
  <2>1. /\ IsSeq(data_export_comp.attrs) /\ Len(data_export_comp.attrs) = 2
        /\ IsSeq(data_export_comp.inputs) /\ IsSeq(data_export_comp.outputs)
    BY Tuples DEF data_export_comp
  <2>2. /\ IsDecl(data_export_comp.attrs[1])
        /\ IsDecl(data_export_comp.attrs[2])
    BY StrDecl, Tuples, Zenon DEF data_export_comp
  <2> QED
    BY <1>1, <2>1, <2>2
<1>5. IsComp(data_delete_comp)
  <2>1. /\ IsSeq(data_delete_comp.attrs) /\ Len(data_delete_comp.attrs) = 1
        /\ IsSeq(data_delete_comp.inputs) /\ IsSeq(data_delete_comp.outputs)
    BY Tuples DEF data_delete_comp
  <2>2. IsDecl(data_delete_comp.attrs[1])
    BY StrDecl, Tuples, Zenon DEF data_delete_comp
  <2> QED
    BY <1>1, <2>1, <2>2
<1>6. IsComp(data_unauth_comp)
  <2>1. /\ IsSeq(data_unauth_comp.attrs) /\ Len(data_unauth_comp.attrs) = 1
        /\ IsSeq(data_unauth_comp.inputs) /\ IsSeq(data_unauth_comp.outputs)
    BY Tuples DEF data_unauth_comp
  <2>2. IsDecl(data_unauth_comp.attrs[1])
    BY StrDecl, Tuples, Zenon DEF data_unauth_comp
  <2> QED
    BY <1>1, <2>1, <2>2
<1> QED
  BY <1>2, <1>3, <1>4, <1>5, <1>6 DEF compdef

(* Their names.                                                            *)
LEMMA CompdefNames ==
  /\ data_upload_comp.ident.name = "upload" /\ data_auth_comp.ident.name = "authorize"
  /\ data_export_comp.ident.name = "download" /\ data_delete_comp.ident.name = "delete"
  /\ data_unauth_comp.ident.name = "unauthorize"
BY DEF data_upload_comp, data_auth_comp, data_export_comp, data_delete_comp,
   data_unauth_comp, Ident

(* A task is about one component, which has the task's name.               *)
LEMMA CompIs ==
  ASSUME task \in Tasks, Supported
  PROVE  /\ CompOf \in Comps /\ CompOf.ident.name = TaskName /\ IsComp(CompOf)
         /\ TaskName = "upload" => CompOf = data_upload_comp
         /\ TaskName = "authorize" => CompOf = data_auth_comp
         /\ TaskName = "download" => CompOf = data_export_comp
         /\ TaskName = "delete" => CompOf = data_delete_comp
         /\ TaskName = "unauthorize" => CompOf = data_unauth_comp
<1>1. CompOf \in Comps /\ CompOf.ident.name = TaskName
  BY DEF CompOf, Supported
<1>2. \A c \in task.added : IsComp(c) /\ c.ident.name \notin {d.ident.name : d \in compdef}
  BY TasksAssumption
<1>3. IsComp(CompOf)
  BY <1>1, <1>2, CompdefComps DEF Comps
<1>4. TaskName \in {"upload", "authorize", "download", "delete", "unauthorize"}
        => CompOf \in compdef
  BY <1>1, <1>2, CompdefNames DEF Comps, compdef
<1> QED
  BY <1>1, <1>3, <1>4, CompdefNames DEF compdef

-----------------------------------------------------------------------------
(* The processes.                                                          *)

Stages == Ended \cup {"import", "config", "cert", "dispatch", "read", "body"}

(* r is what EvalParamReader made of the task's parameters.                *)
IsReader(r) ==
  /\ Supported /\ Defined(CompOf) /\ \A c \in Comps : Declared(c)
  /\ Accepts(from_json(task.inst), definition(CompOf))
  /\ r = Read(from_json(task.inst), definition(CompOf))

(* What the process of a party has done at a stage.                        *)
PartyInv(s, r) ==
  /\ s \notin {"import", "undeclared"} => \A c \in Comps : Declared(c)
  /\ s \in {"read", "refused"} => Supported
  /\ s \in {"body", "ok"} => r # None
  /\ s = "refused" => ~Accepts(from_json(task.inst), definition(CompOf))
  /\ r # None => IsReader(r)

TaskInv ==
  /\ task \in Tasks /\ stage \in [Parties -> Stages] /\ DOMAIN reader = Parties
  /\ \A i \in Parties : PartyInv(stage[i], reader[i])

(* The task stays the same.                                                *)
LEMMA SameTask ==
  ASSUME task' = task
  PROVE  /\ Parties' = Parties /\ Comps' = Comps /\ CompOf' = CompOf
         /\ TaskName' = TaskName /\ Supported' = Supported
BY DEF Parties, Comps, CompOf, TaskName, Supported

(* A step of one party.                                                    *)
LEMMA Move ==
  ASSUME TaskInv, task' = task, NEW i \in Parties, NEW s \in Stages,
         stage' = [stage EXCEPT ![i] = s], DOMAIN reader' = DOMAIN reader,
         \A k \in Parties : k # i => reader'[k] = reader[k], PartyInv(s, reader'[i])
  PROVE  TaskInv'
<1>1. /\ Parties' = Parties /\ Comps' = Comps /\ CompOf' = CompOf
      /\ Supported' = Supported
  BY SameTask
<1>2. \A k \in Parties : PartyInv(stage'[k], reader'[k])
  BY DEF TaskInv
<1>3. ASSUME NEW k \in Parties PROVE PartyInv(stage[k], reader[k])'
  BY <1>1, <1>2, Zenon DEF PartyInv, IsReader
<1> QED
  BY <1>1, <1>3 DEF TaskInv

(* The invariant holds at the start.                                       *)
LEMMA TaskInvInit == TaskInit => TaskInv
<1> SUFFICES ASSUME TaskInit PROVE TaskInv
  OBVIOUS
<1>1. task \in Tasks /\ stage \in [Parties -> Stages] /\ DOMAIN reader = Parties
  BY DEF TaskInit, Stages
<1>2. \A i \in Parties : stage[i] = "import" /\ reader[i] = None
  BY DEF TaskInit
<1> QED
  BY <1>1, <1>2 DEF TaskInv, PartyInv

(* Nothing of it changes with the task, the stages and the readers.        *)
LEMMA TaskInvSame ==
  ASSUME TaskInv, task' = task, stage' = stage, reader' = reader
  PROVE  TaskInv'
<1>1. /\ Parties' = Parties /\ Comps' = Comps /\ CompOf' = CompOf
      /\ Supported' = Supported
  BY SameTask
<1>2. ASSUME NEW k \in Parties PROVE PartyInv(stage[k], reader[k])'
  BY <1>1 DEF TaskInv, PartyInv, IsReader
<1> QED
  BY <1>1, <1>2 DEF TaskInv

(* A party keeps it.                                                       *)
LEMMA PartyKeeps ==
  ASSUME TaskInv, NEW i \in Parties, PartyStep(i)
  PROVE  TaskInv'
<1>0. PartyInv(stage[i], reader[i]) /\ DOMAIN reader = Parties
  BY DEF TaskInv
<1>1. CASE Import(i)
  <2> DEFINE s == IF \A c \in Comps : Declared(c) THEN "config" ELSE "undeclared"
  <2>1. /\ stage[i] = "import" /\ stage' = [stage EXCEPT ![i] = s]
        /\ task' = task /\ reader' = reader
    BY <1>1 DEF Import, Goto
  <2>2. PartyInv(s, reader[i]) /\ s \in Stages
    BY <1>0 DEF PartyInv, Stages, Ended
  <2> HIDE DEF s
  <2> QED
    BY <2>1, <2>2, Move, Zenon
<1>2. CASE FromFile(i) \/ GetCertFromConfigManager(i)
  <2>1. PICK s \in {"cert", "dispatch", "failed"} :
          /\ stage[i] \in {"config", "cert"} /\ stage' = [stage EXCEPT ![i] = s]
          /\ task' = task /\ reader' = reader
    BY <1>2 DEF FromFile, GetCertFromConfigManager, Goto
  <2>2. PartyInv(s, reader[i]) /\ s \in Stages
    BY <1>0, <2>1 DEF PartyInv, Stages, Ended
  <2> QED
    BY <2>1, <2>2, Move, Zenon
<1>3. CASE Dispatch(i)
  <2> DEFINE s == IF Supported /\ Len(task.parties) = PartyCount(TaskName)
                  THEN "read" ELSE "unsupported"
  <2>1. /\ stage[i] = "dispatch" /\ stage' = [stage EXCEPT ![i] = s]
        /\ task' = task /\ reader' = reader
    BY <1>3 DEF Dispatch, Goto
  <2>2. PartyInv(s, reader[i]) /\ s \in Stages
    BY <1>0, <2>1 DEF PartyInv, Stages, Ended
  <2> HIDE DEF s
  <2> QED
    BY <2>1, <2>2, Move, Zenon
<1>4. CASE ReadParams(i)
  <2> DEFINE inst == from_json(task.inst)
             def == definition(CompOf)
  <2>0. stage[i] = "read" /\ task' = task
    BY <1>4 DEF ReadParams
  <2>1. CASE ~Defined(CompOf)
    <3>1. stage' = [stage EXCEPT ![i] = "undefined"] /\ reader' = reader
      BY <1>4, <2>1 DEF ReadParams, Goto
    <3>2. PartyInv("undefined", reader[i]) /\ "undefined" \in Stages
      BY <1>0, <2>0, Zenon DEF PartyInv, Stages, Ended
    <3> QED
      BY <2>0, <3>1, <3>2, Move, Zenon
  <2>2. CASE Defined(CompOf) /\ ~Accepts(inst, def)
    <3>1. stage' = [stage EXCEPT ![i] = "refused"] /\ reader' = reader
      BY <1>4, <2>2 DEF ReadParams, Goto
    <3>2. PartyInv("refused", reader[i]) /\ "refused" \in Stages
      BY <1>0, <2>0, <2>2, Zenon DEF PartyInv, Stages, Ended
    <3> QED
      BY <2>0, <3>1, <3>2, Move, Zenon
  <2>3. CASE Defined(CompOf) /\ Accepts(inst, def)
    <3> DEFINE r == Read(inst, def)
    <3>1. stage' = [stage EXCEPT ![i] = "body"] /\ reader' = [reader EXCEPT ![i] = r]
      BY <1>4, <2>3 DEF ReadParams, Goto
    <3>2. Supported /\ \A c \in Comps : Declared(c)
      BY <1>0, <2>0, Zenon DEF PartyInv
    <3>3. r # None
      BY <2>3, <3>2, CompIs, ReaderAssumption, Zenon DEF TaskInv, Comps, TaskName
    <3>4. PartyInv("body", r) /\ "body" \in Stages
      BY <2>3, <3>2, <3>3 DEF PartyInv, IsReader, Stages
    <3> HIDE DEF r
    <3>5. /\ DOMAIN reader' = DOMAIN reader /\ reader'[i] = r
          /\ \A k \in Parties : k # i => reader'[k] = reader[k]
      BY <1>0, <3>1
    <3> QED
      BY <2>0, <3>1, <3>4, <3>5, Move, Zenon
  <2> QED
    BY <2>1, <2>2, <2>3
<1>5. ASSUME NEW s \in {"ok", "failed", "body"}, stage[i] = "body",
             stage' = [stage EXCEPT ![i] = s], task' = task, reader' = reader
      PROVE  TaskInv'
  <2>1. PartyInv(s, reader[i]) /\ s \in Stages
    BY <1>0, <1>5 DEF PartyInv, Stages, Ended
  <2> QED
    BY <1>5, <2>1, Move, Zenon
<1>6. CASE SenderStep(i) \/ ReceiverStep(i)
  <2>1. \E s \in {"ok", "failed", "body"} :
          /\ stage[i] = "body" /\ stage' = [stage EXCEPT ![i] = s]
          /\ task' = task /\ reader' = reader
    BY <1>6 DEF SenderStep, ReceiverStep, Exporting, Goto
  <2> QED
    BY <1>5, <2>1, Zenon
<1>7. CASE Authorize(i) \/ Unauthorize(i) \/ Delete(i)
  <2>1. stage[i] = "body" /\ \E after : CapsuleCall(i, after)
    BY <1>7 DEF Authorize, Unauthorize, Delete
  <2>2. \E s \in {"ok", "failed", "body"} :
          /\ stage' = [stage EXCEPT ![i] = s] /\ task' = task /\ reader' = reader
    BY <2>1 DEF CapsuleCall, Goto
  <2> QED
    BY <1>5, <2>1, <2>2, Zenon
<1>8. CASE OtherBody(i)
  BY <1>5, <1>8, Zenon DEF OtherBody, Goto
<1> QED
  BY <1>1, <1>2, <1>3, <1>4, <1>6, <1>7, <1>8 DEF PartyStep

(* Every step keeps it.                                                    *)
LEMMA TaskInvStep == TaskInv /\ [TaskNext]_allvars => TaskInv'
<1> SUFFICES ASSUME TaskInv, [TaskNext]_allvars PROVE TaskInv'
  OBVIOUS
<1>1. CASE \E i \in Parties : PartyStep(i)
  BY <1>1, PartyKeeps
<1>2. CASE OwnerStep \/ UNCHANGED allvars
  <2>1. task' = task /\ stage' = stage /\ reader' = reader
    BY <1>2 DEF OwnerStep, tvars, allvars
  <2> QED
    BY <2>1, TaskInvSame
<1> QED
  BY <1>1, <1>2 DEF TaskNext

(* It is invariant.                                                        *)
THEOREM TasksInvariant == TaskSpec => []TaskInv
BY TaskInvInit, TaskInvStep, PTL DEF TaskSpec

(* Processes are at a stage of main.py, and have read the parameters       *)
(* before a body starts.                                                   *)
THEOREM TasksTyped == TaskSpec => []TaskTypeOK
<1>1. TaskInv => TaskTypeOK
  <2> SUFFICES ASSUME TaskInv PROVE TaskTypeOK
    OBVIOUS
  <2>1. \A i \in Parties : stage[i] \in {"body", "ok"} => reader[i] # None
    BY DEF TaskInv, PartyInv
  <2> QED
    BY <2>1 DEF TaskInv, TaskTypeOK, Stages
<1> QED
  BY <1>1, TasksInvariant, PTL

(* The component declares an attribute that a body asks for.               *)
Answers(c, nl) == \E d \in ToSet(c.attrs) : d.name = nl[1] /\ d.is_list = nl[2]

(* The table of a component that declares one.                             *)
LEMMA OneTable == ASSUME NEW n PROVE n \in Names(<<Table(n)>>)
<1>1. Table(n).name = n
  BY DEF Table
<1>2. Len(<<Table(n)>>) = 1 /\ <<Table(n)>>[1] = Table(n)
  BY Tuples, Zenon
<1> QED
  BY <1>1, <1>2 DEF Names

(* The attributes of data_auth_comp that the execution reads.              *)
LEMMA AuthAttrs ==
  /\ data_auth_comp.attrs[3] = StrAttr(<<"authorization_info/root_certs">>, TRUE)
  /\ data_auth_comp.attrs[4] = StrAttr(<<"authorization_info/project_id">>, FALSE)
  /\ data_auth_comp.attrs[5] = StrAttr(<<"authorization_info/columns">>, TRUE)
  /\ {3, 4, 5} \subseteq 1..Len(data_auth_comp.attrs)
<1>1. Len(data_auth_comp.attrs) = 5
  BY Tuples, Zenon DEF data_auth_comp
<1>2. /\ data_auth_comp.attrs[3] = StrAttr(<<"authorization_info/root_certs">>, TRUE)
      /\ data_auth_comp.attrs[4] = StrAttr(<<"authorization_info/project_id">>, FALSE)
      /\ data_auth_comp.attrs[5] = StrAttr(<<"authorization_info/columns">>, TRUE)
  BY Tuples, Zenon DEF data_auth_comp
<1> QED
  BY <1>1, <1>2

(* So do the string attributes of compdef.py.                              *)
LEMMA AskedFor ==
  ASSUME NEW c, IsComp(c), NEW k \in 1..Len(c.attrs), NEW n
  PROVE  /\ c.attrs[k] = StrAttr(n, TRUE) => Answers(c, <<n, TRUE>>)
         /\ c.attrs[k] = StrAttr(n, FALSE) => Answers(c, <<n, FALSE>>)
<1>1. c.attrs[k] \in ToSet(c.attrs)
  BY DEF IsComp, IsSeq, ToSet
<1>2. /\ StrAttr(n, TRUE).name = n /\ StrAttr(n, TRUE).is_list = TRUE
      /\ StrAttr(n, FALSE).name = n /\ StrAttr(n, FALSE).is_list = FALSE
  BY Zenon DEF StrAttr
<1>3. <<n, TRUE>>[1] = n /\ <<n, TRUE>>[2] = TRUE
  OBVIOUS
<1>4. <<n, FALSE>>[1] = n /\ <<n, FALSE>>[2] = FALSE
  OBVIOUS
<1> QED
  BY <1>1, <1>2, <1>3, <1>4, Zenon DEF Answers

(* No body in main.py asks for a name that compdef.py does not declare.    *)
THEOREM BodiesAnswered == TaskSpec => []TasksRead
<1>1. TaskInv => TasksRead
  <2> SUFFICES ASSUME TaskInv, NEW i \in Parties, reader[i] # None
               PROVE  /\ \A nl \in Asked(TaskName).attrs : Answers(CompOf, nl)
                      /\ Asked(TaskName).inputs \subseteq DOMAIN reader[i].inputs
                      /\ Asked(TaskName).outputs \subseteq DOMAIN reader[i].outputs
    BY DEF TasksRead, Answers
  <2>1. Supported /\ reader[i] = Read(from_json(task.inst), definition(CompOf))
        /\ Defined(CompOf) /\ task \in Tasks
    BY DEF TaskInv, PartyInv, IsReader
  <2>2. IsComp(CompOf)
    BY <2>1, CompIs
  <2>3. /\ DOMAIN reader[i].inputs = Names(CompOf.inputs)
        /\ DOMAIN reader[i].outputs = Names(CompOf.outputs)
    BY <2>1, <2>2, ReadIs
  <2>5. CASE TaskName = "upload"
    <3>1. CompOf = data_upload_comp
      BY <2>1, <2>5, CompIs
    <3>2. /\ Asked(TaskName).attrs = {<<<<"uploader/domain_id">>, FALSE>>}
          /\ Asked(TaskName).inputs = {<<"uploader_input">>}
          /\ Asked(TaskName).outputs = {<<"receive_output">>}
      BY <2>5, Zenon DEF Asked
    <3>3. /\ CompOf.attrs[1] = StrAttr(<<"uploader/domain_id">>, FALSE)
          /\ 1 \in 1..Len(CompOf.attrs)
      BY <3>1, Tuples DEF data_upload_comp
    <3>6. \A nl \in Asked(TaskName).attrs : Answers(CompOf, nl)
      <4>1. Answers(CompOf, <<<<"uploader/domain_id">>, FALSE>>)
        BY <2>2, <3>3, AskedFor, Zenon
      <4> QED
        BY <3>2, <4>1, Zenon
    <3>4. <<"uploader_input">> \in Names(CompOf.inputs)
      BY <3>1, OneTable, Zenon DEF data_upload_comp
    <3>5. <<"receive_output">> \in Names(CompOf.outputs)
      BY <3>1, OneTable, Zenon DEF data_upload_comp
    <3> QED
      BY <2>3, <3>2, <3>4, <3>5, <3>6, Zenon
  <2>6. CASE TaskName = "authorize"
    <3>1. CompOf = data_auth_comp
      BY <2>1, <2>6, CompIs
    <3>2. /\ Asked(TaskName).attrs = {<<<<"authorization_info/project_id">>, FALSE>>,
                                     <<<<"authorization_info/columns">>, TRUE>>,
                                     <<<<"authorization_info/root_certs">>, TRUE>>}
          /\ Asked(TaskName).inputs = {<<"authorize_input">>}
          /\ Asked(TaskName).outputs = {}
      BY <2>6, Zenon DEF Asked
    <3>3. /\ CompOf.attrs[3] = StrAttr(<<"authorization_info/root_certs">>, TRUE)
          /\ CompOf.attrs[4] = StrAttr(<<"authorization_info/project_id">>, FALSE)
          /\ CompOf.attrs[5] = StrAttr(<<"authorization_info/columns">>, TRUE)
          /\ {3, 4, 5} \subseteq 1..Len(CompOf.attrs)
      BY <3>1, AuthAttrs, Zenon
    <3>6. \A nl \in Asked(TaskName).attrs : Answers(CompOf, nl)
      <4>1. /\ Answers(CompOf, <<<<"authorization_info/root_certs">>, TRUE>>)
            /\ Answers(CompOf, <<<<"authorization_info/project_id">>, FALSE>>)
            /\ Answers(CompOf, <<<<"authorization_info/columns">>, TRUE>>)
        BY <2>2, <3>3, AskedFor, Zenon
      <4> QED
        BY <3>2, <4>1, Zenon
    <3>4. <<"authorize_input">> \in Names(CompOf.inputs)
      BY <3>1, OneTable, Zenon DEF data_auth_comp
    <3> QED
      BY <2>3, <3>2, <3>4, <3>6, Zenon
  <2>7. CASE TaskName = "download"
    <3>1. CompOf = data_export_comp
      BY <2>1, <2>7, CompIs
    <3>2. /\ Asked(TaskName).attrs = {<<<<"receiver/domain_id">>, FALSE>>,
                                     <<<<"receiver/vote_result">>, FALSE>>}
          /\ Asked(TaskName).inputs = {<<"sender_input">>}
          /\ Asked(TaskName).outputs = {<<"receiver_output">>}
      BY <2>7, Zenon DEF Asked
    <3>3. /\ CompOf.attrs[1] = StrAttr(<<"receiver/domain_id">>, FALSE)
          /\ CompOf.attrs[2] = StrAttr(<<"receiver/vote_result">>, FALSE)
          /\ {1, 2} \subseteq 1..Len(CompOf.attrs)
      BY <3>1, Tuples DEF data_export_comp
    <3>6. \A nl \in Asked(TaskName).attrs : Answers(CompOf, nl)
      <4>1. /\ Answers(CompOf, <<<<"receiver/domain_id">>, FALSE>>)
            /\ Answers(CompOf, <<<<"receiver/vote_result">>, FALSE>>)
        BY <2>2, <3>3, AskedFor, Zenon
      <4> QED
        BY <3>2, <4>1, Zenon
    <3>4. <<"sender_input">> \in Names(CompOf.inputs)
      BY <3>1, OneTable, Zenon DEF data_export_comp
    <3>5. <<"receiver_output">> \in Names(CompOf.outputs)
      BY <3>1, OneTable, Zenon DEF data_export_comp
    <3> QED
      BY <2>3, <3>2, <3>4, <3>5, <3>6, Zenon
  <2>8. CASE TaskName = "delete"
    <3>1. CompOf = data_delete_comp
      BY <2>1, <2>8, CompIs
    <3>2. Asked(TaskName) = [attrs |-> {}, inputs |-> {<<"delete_input">>}, outputs |-> {}]
      BY <2>8 DEF Asked
    <3>3. <<"delete_input">> \in Names(CompOf.inputs)
      BY <3>1, OneTable, Zenon DEF data_delete_comp
    <3> QED
      BY <2>3, <3>2, <3>3
  <2>9. CASE TaskName = "unauthorize"
    <3>1. CompOf = data_unauth_comp
      BY <2>1, <2>9, CompIs
    <3>2. Asked(TaskName)
            = [attrs |-> {}, inputs |-> {<<"unauthorize_input">>}, outputs |-> {}]
      BY <2>9 DEF Asked
    <3>3. <<"unauthorize_input">> \in Names(CompOf.inputs)
      BY <3>1, OneTable, Zenon DEF data_unauth_comp
    <3> QED
      BY <2>3, <3>2, <3>3
  <2>10. CASE TaskName \notin {"upload", "authorize", "download", "delete", "unauthorize"}
    BY <2>10, Zenon DEF Asked
  <2> QED
    BY <2>5, <2>6, <2>7, <2>8, <2>9, <2>10, Zenon
<1> QED
  BY <1>1, TasksInvariant, PTL

(* What a body reads, whatever the component: the default of an attribute  *)
(* left out, and of one given what its field holds, nothing if it was put  *)
(* in another; an allowed value unless a list was given, although floats   *)
(* are compared with isclose; as many columns as declared; and never an    *)
(* attribute with bounds.                                                  *)
THEOREM ReadsMeet == FieldsDocumented => (TaskSpec => []ParamsMeet)
<1> SUFFICES ASSUME FieldsDocumented PROVE TaskSpec => []ParamsMeet
  OBVIOUS
<1>1. TaskInv => ParamsMeet
  <2> SUFFICES ASSUME TaskInv, NEW i \in Parties, reader[i] # None
      PROVE
        /\ \A d \in ToSet(CompOf.attrs) :
             LET v == reader[i].attrs[d.name]
                 at == GivenAt(task.inst, d.name)
                 allowed == ToSet(Stored(d.kind, d.allowed_values))
             IN /\ at = {} => d.is_optional /\ v = Stored(d.kind, d.default_value)
                /\ \A k \in at :
                     LET a == task.inst.attrs[k]
                     IN v = IF a.kind = d.kind /\ a.is_list = d.is_list
                            THEN Stored(d.kind, a.value)
                            ELSE IF d.is_list THEN <<>> ELSE <<Zero(d.kind)>>
                /\ d.allowed_values \notin {None, <<>>} =>
                     /\ ~d.is_list => v[1] \in allowed
                     /\ at = {} => ToSet(v) \subseteq allowed
                /\ d.lower_bound = None /\ d.upper_bound = None
        /\ \A c \in Columns(CompOf) :
             LET n == Len(reader[i].attrs[NameAt(CompOf, c)])
                 col == ColumnAt(CompOf, c)
             IN (col.min = 0 \/ n >= col.min) /\ (col.max = 0 \/ n <= col.max)
    BY Zenon DEF ParamsMeet
  <2> DEFINE inst == from_json(task.inst)
             def == definition(CompOf)
  <2>1. /\ Supported /\ Defined(CompOf) /\ task \in Tasks
        /\ \A c \in Comps : Declared(c)
        /\ Accepts(inst, def) /\ reader[i] = Read(inst, def)
    BY DEF TaskInv, PartyInv, IsReader
  <2>2. IsComp(CompOf) /\ Declared(CompOf) /\ IsParams(task.inst)
    BY <2>1, CompIs, TasksAssumption
  <2>3. ASSUME NEW d \in ToSet(CompOf.attrs), NEW v, v = reader[i].attrs[d.name]
        PROVE  /\ GivenAt(task.inst, d.name) = {} =>
                    d.is_optional /\ v = Stored(d.kind, d.default_value)
               /\ \A k \in GivenAt(task.inst, d.name) :
                    v = IF /\ task.inst.attrs[k].kind = d.kind
                           /\ task.inst.attrs[k].is_list = d.is_list
                        THEN Stored(d.kind, task.inst.attrs[k].value)
                        ELSE IF d.is_list THEN <<>> ELSE <<Zero(d.kind)>>
               /\ d.allowed_values \notin {None, <<>>} /\ ~d.is_list
                    => v[1] \in ToSet(Stored(d.kind, d.allowed_values))
               /\ d.allowed_values \notin {None, <<>>} /\ GivenAt(task.inst, d.name) = {}
                    => ToSet(v) \subseteq ToSet(Stored(d.kind, d.allowed_values))
               /\ d.lower_bound = None /\ d.upper_bound = None
    <3>1. PICK k \in 1..Len(CompOf.attrs) : d = CompOf.attrs[k]
      BY <2>2, Zenon DEF ToSet, IsComp, IsSeq
    <3>2. IsDecl(d) /\ attr_declared(d)
      BY <2>2, <3>1, Zenon DEF IsComp, IsSeq, Declared
    <3>3. v = AttrValue(inst, AttrDef(d))
      BY <2>1, <2>2, <2>3, <3>1, ReadIs, Zenon
    <3>4. PathsOnce(inst) /\ AttrRead(inst, AttrDef(d))
      BY <2>1, <2>2, <3>1, DefinitionIs, Zenon DEF Accepts
    <3> HIDE DEF inst, def
    <3>5. d.lower_bound = None /\ d.upper_bound = None
      BY <3>2, NoBounds
    <3> QED
      BY <2>2, <3>2, <3>3, <3>4, <3>5, AttrMeets, Zenon DEF inst
  <2>4. ASSUME NEW c \in Columns(CompOf)
        PROVE  LET n == Len(reader[i].attrs[NameAt(CompOf, c)])
                   col == ColumnAt(CompOf, c)
               IN (col.min = 0 \/ n >= col.min) /\ (col.max = 0 \/ n <= col.max)
    <3>1. /\ NameAt(CompOf, c) \notin Names(CompOf.attrs)
          /\ check_table_attr_col_cnt(ColumnValue(inst, NameAt(CompOf, c)),
                                      ColumnAt(CompOf, c))
      <4>1. ColumnsRead(inst, def)
        BY <2>1, Zenon DEF Accepts
      <4>2. /\ Columns(def) = Columns(CompOf) /\ Names(def.attrs) = Names(CompOf.attrs)
            /\ NameAt(def, c) = NameAt(CompOf, c) /\ ColumnAt(def, c) = ColumnAt(CompOf, c)
        BY <2>2, DefinitionIs
      <4> HIDE DEF inst, def
      <4> QED
        BY <4>1, <4>2 DEF ColumnsRead
    <3>2. reader[i].attrs[NameAt(CompOf, c)] = ColumnValue(inst, NameAt(CompOf, c))
      BY <2>1, <2>2, <3>1, ReadIs, Zenon
    <3> HIDE DEF inst, def
    <3> QED
      BY <3>1, <3>2 DEF check_table_attr_col_cnt
  <2> HIDE DEF inst, def
  <2> QED
    BY <2>3, <2>4, Zenon
<1> QED
  BY <1>1, TasksInvariant, PTL

(* The reader refuses no parameters that agree with the declaration,       *)
(* whatever the component and its floats.                                  *)
THEOREM LegalNotRefused == FieldsDocumented => (TaskSpec => []ChoicesAccepted)
<1> SUFFICES ASSUME FieldsDocumented PROVE TaskSpec => []ChoicesAccepted
  OBVIOUS
<1>1. TaskInv => ChoicesAccepted
  <2> SUFFICES ASSUME TaskInv, NEW i \in Parties, stage[i] = "refused",
                      Legal(CompOf, task.inst)
               PROVE  FALSE
    BY DEF ChoicesAccepted
  <2>1. /\ Supported /\ task \in Tasks /\ \A c \in Comps : Declared(c)
        /\ ~Accepts(from_json(task.inst), definition(CompOf))
    BY DEF TaskInv, PartyInv
  <2>2. IsComp(CompOf) /\ Declared(CompOf) /\ IsParams(task.inst)
    BY <2>1, CompIs, TasksAssumption, Zenon
  <2> QED
    BY <2>1, <2>2, LegalAccepted
<1> QED
  BY <1>1, TasksInvariant, PTL

-----------------------------------------------------------------------------
(* The Capsule Manager.                                                    *)

(* What an authorization has read is what its parameters say.              *)
LEMMA ReadAsGiven ==
  ASSUME AuthorizationsTyped, TaskInv, NEW i \in Parties, reader[i] # None,
         TaskName = "authorize", NEW k \in 1..Len(data_auth_comp.attrs),
         ~data_auth_comp.attrs[k].is_optional, data_auth_comp.attrs[k].kind = "str"
  PROVE  reader[i].attrs[data_auth_comp.attrs[k].name] = Asks(data_auth_comp.attrs[k].name)
<1> DEFINE d == data_auth_comp.attrs[k]
           inst == from_json(task.inst)
           G == GivenAt(task.inst, d.name)
           j == CHOOSE l \in G : TRUE
<1>1. /\ Supported /\ Defined(CompOf) /\ task \in Tasks
      /\ \A c \in Comps : Declared(c)
      /\ Accepts(inst, definition(CompOf)) /\ reader[i] = Read(inst, definition(CompOf))
  BY DEF TaskInv, PartyInv, IsReader
<1>2. /\ CompOf = data_auth_comp /\ IsComp(CompOf) /\ Declared(CompOf)
      /\ IsParams(task.inst)
  BY <1>1, CompIs, TasksAssumption, Zenon
<1>3. IsDecl(d) /\ attr_declared(d) /\ d \in ToSet(data_auth_comp.attrs)
  BY <1>2, Zenon DEF IsComp, IsSeq, Declared, ToSet
<1>4. reader[i].attrs[d.name] = AttrValue(inst, AttrDef(d))
  BY <1>1, <1>2, ReadIs, Zenon
<1>5. PathsOnce(inst) /\ AttrRead(inst, AttrDef(d))
  BY <1>1, <1>2, DefinitionIs, Zenon DEF Accepts
<1>6. /\ G = {} => d.is_optional
      /\ \A l \in G : task.inst.attrs[l].kind = d.kind /\ task.inst.attrs[l].is_list = d.is_list
           => reader[i].attrs[d.name] = Stored(d.kind, task.inst.attrs[l].value)
  BY <1>2, <1>3, <1>4, <1>5, AttrMeets, Zenon
<1>7. \A l \in G : task.inst.attrs[l].kind = d.kind /\ task.inst.attrs[l].is_list = d.is_list
  BY <1>1, <1>3, Zenon DEF AuthorizationsTyped, TaskName
<1>8. d.kind = "str" /\ ~d.is_optional
  OBVIOUS
<1>9. j \in G
  BY <1>6, <1>8, Zenon
<1>10. Asks(d.name) = task.inst.attrs[j].value
  BY DEF Asks
<1> HIDE DEF d, G, j, inst
<1>11. reader[i].attrs[d.name] = Asks(d.name)
  BY <1>6, <1>7, <1>8, <1>9, <1>10 DEF Stored
<1> QED
  BY <1>11, Zenon DEF d

(* So the policy it creates is the one asked for.                          *)
LEMMA CreatesAsked ==
  ASSUME AuthorizationsTyped, TaskInv, NEW i \in Parties, reader[i] # None,
         TaskName = "authorize"
  PROVE  IsAsked(Policy(reader[i].attrs[<<"authorization_info/project_id">>][1],
                        reader[i].attrs))
<1>1. ASSUME NEW k \in 1..Len(data_auth_comp.attrs), NEW n,
             \/ data_auth_comp.attrs[k] = StrAttr(n, TRUE)
             \/ data_auth_comp.attrs[k] = StrAttr(n, FALSE)
      PROVE  reader[i].attrs[n] = Asks(n)
  <2>1. /\ StrAttr(n, TRUE).name = n /\ StrAttr(n, TRUE).kind = "str"
        /\ ~StrAttr(n, TRUE).is_optional
        /\ StrAttr(n, FALSE).name = n /\ StrAttr(n, FALSE).kind = "str"
        /\ ~StrAttr(n, FALSE).is_optional
    BY DEF StrAttr
  <2>2. /\ data_auth_comp.attrs[k].name = n /\ data_auth_comp.attrs[k].kind = "str"
        /\ ~data_auth_comp.attrs[k].is_optional
    BY <1>1, <2>1, Zenon
  <2> QED
    BY <2>2, ReadAsGiven
<1>2. 3 \in {3, 4, 5} /\ 4 \in {3, 4, 5} /\ 5 \in {3, 4, 5}
  OBVIOUS
<1>3. reader[i].attrs[<<"authorization_info/root_certs">>]
        = Asks(<<"authorization_info/root_certs">>)
  BY <1>1, <1>2, AuthAttrs, Zenon
<1>4. reader[i].attrs[<<"authorization_info/project_id">>]
        = Asks(<<"authorization_info/project_id">>)
  BY <1>1, <1>2, AuthAttrs, Zenon
<1>5. reader[i].attrs[<<"authorization_info/columns">>]
        = Asks(<<"authorization_info/columns">>)
  BY <1>1, <1>2, AuthAttrs, Zenon
<1> QED
  BY <1>3, <1>4, <1>5 DEF IsAsked, Policy

(* The policies and keys are what CapsuleFollows says, for a task with a   *)
(* party that has read its parameters, and with one that is done or not.   *)
Follows(now, keys, read, done) ==
  /\ now \ task.before # {} =>
       TaskName = "authorize" /\ read /\ \A p \in now \ task.before : IsAsked(p)
  /\ task.before \ now # {} =>
       /\ TaskName = "unauthorize" /\ read
       /\ \A p \in task.before \ now : p.data = "input" /\ p.scope = task.scope
  /\ "other" \in keys
  /\ "input" \notin keys => TaskName = "delete" /\ read
  /\ done /\ TaskName = "authorize" => \E p \in now : IsAsked(p)
  /\ done /\ TaskName = "unauthorize" =>
       ~\E p \in now : p.data = "input" /\ p.scope = task.scope
  /\ done /\ TaskName = "delete" => "input" \notin keys

Done == \E i \in Parties : stage[i] = "ok"
HasRead == \E i \in Parties : reader[i] # None

CapsuleInv ==
  /\ DOMAIN capsule = {"policies", "keys"}
  /\ Follows(capsule.policies, capsule.keys, HasRead, Done)

(* That is the property.                                                   *)
LEMMA CapsuleInvIs == CapsuleInv => CapsuleFollows
<1> SUFFICES ASSUME CapsuleInv PROVE CapsuleFollows
  OBVIOUS
<1> QED
  BY Zenon DEF CapsuleInv, Follows, CapsuleFollows, Done, HasRead

(* The same while the task is the same.                                    *)
LEMMA FollowsNext ==
  ASSUME task' = task, DOMAIN capsule' = {"policies", "keys"},
         Follows(capsule'.policies, capsule'.keys, HasRead', Done')
  PROVE  CapsuleInv'
<1>1. /\ TaskName' = TaskName /\ task.before' = task.before /\ task.scope' = task.scope
      /\ \A p : IsAsked(p)' <=> IsAsked(p)
  BY SameTask, Zenon DEF IsAsked, Asks
<1> QED
  BY <1>1, Zenon DEF CapsuleInv, Follows

(* A step that leaves the Capsule Manager alone.                           *)
LEMMA FollowsOn ==
  ASSUME CapsuleInv, task' = task, capsule' = capsule, HasRead => HasRead',
         Done' => Done \/ TaskName \notin {"authorize", "unauthorize", "delete"}
  PROVE  CapsuleInv'
<1>1. Follows(capsule.policies, capsule.keys, HasRead', Done')
  BY DEF CapsuleInv, Follows
<1> QED
  BY <1>1, FollowsNext DEF CapsuleInv

(* A party moves to another stage; what it has read stays.                 *)
LEMMA DoneNext ==
  ASSUME TaskInv, task' = task, NEW i \in Parties, NEW s,
         stage' = [stage EXCEPT ![i] = s]
  PROVE  Done' => Done \/ s = "ok"
BY SameTask, Zenon DEF Done, TaskInv

(* A reader is never taken away.                                           *)
LEMMA ReadNext ==
  ASSUME TaskInv, task' = task, \A i \in Parties : reader[i] # None => reader'[i] # None
  PROVE  HasRead => HasRead'
BY SameTask DEF HasRead

(* What a call of the Capsule Manager leaves.                              *)
LEMMA CapsuleCalls ==
  ASSUME TaskInv, CapsuleInv, NEW i \in Parties, NEW after, CapsuleCall(i, after),
         DOMAIN after = {"policies", "keys"},
         Follows(after.policies, after.keys, HasRead, TRUE)
  PROVE  CapsuleInv'
<1>1. task' = task /\ reader' = reader
  BY DEF CapsuleCall
<1>2. HasRead' <=> HasRead
  BY <1>1, SameTask DEF HasRead
<1>3. CASE capsule' = after
  <2>1. Follows(after.policies, after.keys, HasRead', Done')
    BY <1>2 DEF Follows
  <2> QED
    BY <1>1, <1>3, <2>1, FollowsNext
<1>4. CASE capsule' = capsule /\ Goto(i, "failed")
  <2>1. Done' => Done
    BY <1>1, <1>4, DoneNext, Zenon DEF Goto
  <2> QED
    BY <1>1, <1>2, <1>4, <2>1, FollowsOn
<1> QED
  BY <1>3, <1>4 DEF CapsuleCall

(* The steps of a party keep the invariant.                                *)
LEMMA CapsuleKeeps ==
  ASSUME AuthorizationsTyped, TaskInv, CapsuleInv, NEW i \in Parties, PartyStep(i)
  PROVE  CapsuleInv'
<1>0. stage[i] \in {"body", "ok"} => reader[i] # None
  BY DEF TaskInv, PartyInv
<1>1. ASSUME task' = task, capsule' = capsule, reader' = reader, NEW s,
             stage' = [stage EXCEPT ![i] = s],
             s = "ok" => TaskName \notin {"authorize", "unauthorize", "delete"}
      PROVE  CapsuleInv'
  BY <1>1, DoneNext, ReadNext, FollowsOn, Zenon
<1>2. CASE \/ Import(i) \/ FromFile(i) \/ GetCertFromConfigManager(i) \/ Dispatch(i)
           \/ OtherBody(i)
  <2>1. \E s : /\ stage' = [stage EXCEPT ![i] = s]
               /\ s = "ok" => TaskName \notin {"authorize", "unauthorize", "delete"}
    BY <1>2, Zenon DEF Import, FromFile, GetCertFromConfigManager, Dispatch, OtherBody, Goto
  <2>2. task' = task /\ capsule' = capsule /\ reader' = reader
    BY <1>2 DEF Import, FromFile, GetCertFromConfigManager, Dispatch, OtherBody
  <2> QED
    BY <1>1, <2>1, <2>2, Zenon
<1>3. CASE SenderStep(i) \/ ReceiverStep(i)
  <2>1. TaskName = "download" /\ \E s : stage' = [stage EXCEPT ![i] = s]
    BY <1>3 DEF SenderStep, ReceiverStep, Exporting, Goto
  <2>2. task' = task /\ capsule' = capsule /\ reader' = reader
    BY <1>3 DEF SenderStep, ReceiverStep
  <2> QED
    BY <1>1, <2>1, <2>2, Zenon
<1>4. CASE ReadParams(i)
  <2>1. PICK s \in {"undefined", "refused", "body"} : stage' = [stage EXCEPT ![i] = s]
    BY <1>4 DEF ReadParams, Goto
  <2>2. task' = task /\ capsule' = capsule
    BY <1>4 DEF ReadParams
  <2>3. Done' => Done
    BY <2>1, <2>2, DoneNext, Zenon
  <2>4. \A k \in Parties : reader[k] # None => reader'[k] # None
    <3>1. CASE reader' = reader
      BY <3>1
    <3>2. CASE stage' = [stage EXCEPT ![i] = "body"]
      <4>1. TaskInv' /\ Parties' = Parties
        BY <2>2, PartyKeeps, SameTask
      <4>2. reader'[i] # None
        BY <3>2, <4>1, Zenon DEF TaskInv, PartyInv
      <4>3. \A k \in Parties : k # i => reader'[k] = reader[k]
        BY <1>4 DEF ReadParams, TaskInv
      <4> QED
        BY <4>2, <4>3
    <3> QED
      BY <1>4, <3>1, <3>2 DEF ReadParams, Goto
  <2> QED
    BY <2>2, <2>3, <2>4, ReadNext, FollowsOn
<1>5. CASE Authorize(i)
  <2> DEFINE P == Policy(reader[i].attrs[<<"authorization_info/project_id">>][1],
                         reader[i].attrs)
             after == [capsule EXCEPT !.policies = @ \cup {P}]
  <2>1. TaskName = "authorize" /\ reader[i] # None /\ CapsuleCall(i, after)
    BY <1>0, <1>5 DEF Authorize
  <2>2. IsAsked(P)
    BY <2>1, CreatesAsked
  <2> HIDE DEF P
  <2>3. /\ DOMAIN after = {"policies", "keys"} /\ after.keys = capsule.keys
        /\ after.policies = capsule.policies \cup {P}
    BY DEF CapsuleInv
  <2> HIDE DEF after
  <2>4. Follows(after.policies, after.keys, HasRead, TRUE)
    <3>1. HasRead
      BY <2>1 DEF HasRead
    <3> QED
      BY <2>1, <2>2, <2>3, <3>1 DEF CapsuleInv, Follows
  <2> QED
    BY <2>1, <2>3, <2>4, CapsuleCalls, Zenon
<1>6. CASE Unauthorize(i)
  <2> DEFINE after == [capsule EXCEPT
               !.policies = {p \in @ : p.data # "input" \/ p.scope # task.scope}]
  <2>1. TaskName = "unauthorize" /\ reader[i] # None /\ CapsuleCall(i, after)
    BY <1>0, <1>6 DEF Unauthorize
  <2>2. /\ DOMAIN after = {"policies", "keys"} /\ after.keys = capsule.keys
        /\ after.policies
             = {p \in capsule.policies : p.data # "input" \/ p.scope # task.scope}
    BY DEF CapsuleInv
  <2> HIDE DEF after
  <2>3. Follows(after.policies, after.keys, HasRead, TRUE)
    <3>1. HasRead
      BY <2>1 DEF HasRead
    <3> QED
      BY <2>1, <2>2, <3>1 DEF CapsuleInv, Follows
  <2> QED
    BY <2>1, <2>2, <2>3, CapsuleCalls, Zenon
<1>7. CASE Delete(i)
  <2> DEFINE after == [capsule EXCEPT !.keys = @ \ {"input"}]
  <2>1. TaskName = "delete" /\ reader[i] # None /\ CapsuleCall(i, after)
    BY <1>0, <1>7 DEF Delete
  <2>2. /\ DOMAIN after = {"policies", "keys"} /\ after.keys = capsule.keys \ {"input"}
        /\ after.policies = capsule.policies
    BY DEF CapsuleInv
  <2> HIDE DEF after
  <2>3. Follows(after.policies, after.keys, HasRead, TRUE)
    <3>1. HasRead
      BY <2>1 DEF HasRead
    <3> QED
      BY <2>1, <2>2, <3>1 DEF CapsuleInv, Follows
  <2> QED
    BY <2>1, <2>2, <2>3, CapsuleCalls, Zenon
<1> QED
  BY <1>2, <1>3, <1>4, <1>5, <1>6, <1>7 DEF PartyStep

(* A task changes at the Capsule Manager what its parameters ask for and   *)
(* nothing else, also when answers are lost.                               *)
THEOREM CapsuleIsFollowed == AuthorizationsTyped => (TaskSpec => []CapsuleFollows)
<1> SUFFICES ASSUME AuthorizationsTyped PROVE TaskSpec => []CapsuleFollows
  OBVIOUS
<1>1. TaskInit => CapsuleInv
  <2> SUFFICES ASSUME TaskInit PROVE CapsuleInv
    OBVIOUS
  <2>1. /\ DOMAIN capsule = {"policies", "keys"} /\ capsule.policies = task.before
        /\ capsule.keys = {"input", "other"} /\ ~Done
    BY DEF TaskInit, Done
  <2> QED
    BY <2>1 DEF CapsuleInv, Follows
<1>2. TaskInv /\ CapsuleInv /\ [TaskNext]_allvars => CapsuleInv'
  <2> SUFFICES ASSUME TaskInv, CapsuleInv, [TaskNext]_allvars PROVE CapsuleInv'
    OBVIOUS
  <2>1. CASE \E i \in Parties : PartyStep(i)
    BY <2>1, CapsuleKeeps
  <2>2. CASE OwnerStep \/ UNCHANGED allvars
    <3>1. task' = task /\ stage' = stage /\ reader' = reader /\ capsule' = capsule
      BY <2>2 DEF OwnerStep, tvars, allvars
    <3>2. (HasRead' <=> HasRead) /\ (Done' <=> Done)
      BY <3>1, SameTask DEF HasRead, Done
    <3> QED
      BY <3>1, <3>2, FollowsOn
  <2> QED
    BY <2>1, <2>2 DEF TaskNext
<1> QED
  BY <1>1, <1>2, CapsuleInvIs, TasksInvariant, PTL DEF TaskSpec
===============================================================================
