------------------------------- MODULE DataTasks -------------------------------
(***************************************************************************)
(* The driver of the data management tasks, main.py.  Kuscia starts it     *)
(* once for every party of a task, each with the same parameters.  A       *)
(* process imports the declared components, loads its configuration, gets  *)
(* a certificate, reads the parameters as the component's definition says, *)
(* decides its role and runs the task.  The body of an export is the one   *)
(* of DataExport; authorization, its withdrawal and deletion are one call  *)
(* of the Capsule Manager; an upload, in DataUpload, returns or raises.    *)
(***************************************************************************)
EXTENDS DataExport, ComponentEval

CONSTANTS Tasks \* the tasks considered: [added, inst, parties, scope, before]

VARIABLES task,    \* the task
          stage,   \* where the process of each party is
          reader,  \* its EvalParamReader, or None
          capsule  \* the Capsule Manager's policies and owners' keys

tvars == <<task, stage, reader, capsule>>
allvars == <<vars, tvars>>

-----------------------------------------------------------------------------
(* The components of compdef.py.                                           *)

StrAttr(name, is_list) ==
  [kind |-> "str", name |-> name, is_list |-> is_list, is_optional |-> FALSE,
   default_value |-> IF is_list THEN <<>> ELSE <<"">>, allowed_values |-> None,
   lower_bound |-> None, upper_bound |-> None,
   lower_bound_inclusive |-> FALSE, upper_bound_inclusive |-> FALSE,
   list_min_length_inclusive |-> None, list_max_length_inclusive |-> None]

Table(name) ==
  [name |-> name, types |-> <<"sf.table.individual">>, cols |-> <<>>]

Ident(name) == [domain |-> "data_management", name |-> name, version |-> "0.0.1"]

data_upload_comp ==
  [ident |-> Ident("upload"),
   attrs |-> <<StrAttr(<<"uploader/domain_id">>, FALSE)>>,
   inputs |-> <<Table(<<"uploader_input">>)>>,
   outputs |-> <<Table(<<"receive_output">>)>>]

(* Fault: the certificates are declared as one string.                     *)
data_auth_comp_one_cert ==
  [ident |-> Ident("authorize"),
   attrs |-> <<StrAttr(<<"owner/domain_id">>, FALSE),
               StrAttr(<<"authorization_info/domain_ids">>, TRUE),
               StrAttr(<<"authorization_info/root_certs">>, FALSE),
               StrAttr(<<"authorization_info/project_id">>, FALSE),
               StrAttr(<<"authorization_info/columns">>, TRUE)>>,
   inputs |-> <<Table(<<"authorize_input">>)>>,
   outputs |-> <<>>]

data_auth_comp ==
  [ident |-> Ident("authorize"),
   attrs |-> <<StrAttr(<<"owner/domain_id">>, FALSE),
               StrAttr(<<"authorization_info/domain_ids">>, TRUE),
               StrAttr(<<"authorization_info/root_certs">>, TRUE),
               StrAttr(<<"authorization_info/project_id">>, FALSE),
               StrAttr(<<"authorization_info/columns">>, TRUE)>>,
   inputs |-> <<Table(<<"authorize_input">>)>>,
   outputs |-> <<>>]

data_export_comp ==
  [ident |-> Ident("download"),
   attrs |-> <<StrAttr(<<"receiver/domain_id">>, FALSE),
               StrAttr(<<"receiver/vote_result">>, FALSE)>>,
   inputs |-> <<Table(<<"sender_input">>)>>,
   outputs |-> <<Table(<<"receiver_output">>)>>]

data_delete_comp ==
  [ident |-> Ident("delete"),
   attrs |-> <<StrAttr(<<"deleter/domain_id">>, FALSE)>>,
   inputs |-> <<Table(<<"delete_input">>)>>,
   outputs |-> <<>>]

data_unauth_comp ==
  [ident |-> Ident("unauthorize"),
   attrs |-> <<StrAttr(<<"owner/domain_id">>, FALSE)>>,
   inputs |-> <<Table(<<"unauthorize_input">>)>>,
   outputs |-> <<>>]

compdef == {data_upload_comp, data_auth_comp, data_export_comp,
            data_delete_comp, data_unauth_comp}

-----------------------------------------------------------------------------
(* Declarations and parameters are messages and Python objects of their    *)
(* types; a component that is added has a name of its own.                 *)

Kinds == {"float", "int", "str", "bool"}

IsSeq(s) == Len(s) \in Nat /\ DOMAIN s = 1..Len(s)

IsValues(kind, v) ==
  IsSeq(v) /\ (kind = "float" => \A k \in DOMAIN v : v[k] \in Int)

IsValue(a, v) == IsValues(a.kind, v) /\ (~a.is_list => Len(v) = 1)

IsDecl(d) ==
  /\ d.kind \in Kinds /\ {d.is_list, d.is_optional} \subseteq BOOLEAN
  /\ d.default_value = None \/ IsValue(d, d.default_value)
  /\ d.allowed_values = None \/ IsValues(d.kind, d.allowed_values)
  /\ d.kind = "bool" => d.allowed_values = None
  /\ d.kind \in {"str", "bool"} => d.lower_bound = None /\ d.upper_bound = None

IsComp(c) ==
  /\ IsSeq(c.attrs) /\ \A i \in DOMAIN c.attrs : IsDecl(c.attrs[i])
  /\ IsSeq(c.inputs) /\ IsSeq(c.outputs)

IsParams(inst) ==
  /\ DOMAIN inst = {"ident", "attr_paths", "attrs", "inputs", "output_uris"}
  /\ IsSeq(inst.attr_paths) /\ IsSeq(inst.attrs)
  /\ \A k \in DOMAIN inst.attrs :
       /\ DOMAIN inst.attrs[k] = {"kind", "is_list", "value", "is_na"}
       /\ inst.attrs[k].kind \in Kinds /\ inst.attrs[k].is_list \in BOOLEAN
       /\ IsValue(inst.attrs[k], inst.attrs[k].value)

ASSUME TasksAssumption ==
  \A t \in Tasks :
    /\ Len(t.parties) \in Nat /\ IsParams(t.inst)
    /\ \A c \in t.added : IsComp(c) /\ c.ident.name \notin {d.ident.name : d \in compdef}

(* What the bodies in main.py ask the reader for: attributes, with whether *)
(* they are used as lists, inputs and outputs.                             *)
Asked(name) ==
  CASE name = "upload" ->
         [attrs |-> {<<<<"uploader/domain_id">>, FALSE>>},
          inputs |-> {<<"uploader_input">>}, outputs |-> {<<"receive_output">>}]
    [] name = "authorize" ->
         [attrs |-> {<<<<"authorization_info/project_id">>, FALSE>>,
                     <<<<"authorization_info/columns">>, TRUE>>,
                     <<<<"authorization_info/root_certs">>, TRUE>>},
          inputs |-> {<<"authorize_input">>}, outputs |-> {}]
    [] name = "download" ->
         [attrs |-> {<<<<"receiver/domain_id">>, FALSE>>,
                     <<<<"receiver/vote_result">>, FALSE>>},
          inputs |-> {<<"sender_input">>}, outputs |-> {<<"receiver_output">>}]
    [] name = "delete" ->
         [attrs |-> {}, inputs |-> {<<"delete_input">>}, outputs |-> {}]
    [] name = "unauthorize" ->
         [attrs |-> {}, inputs |-> {<<"unauthorize_input">>}, outputs |-> {}]
    [] OTHER -> [attrs |-> {}, inputs |-> {}, outputs |-> {}]

-----------------------------------------------------------------------------
(* The processes.                                                          *)

Parties == 1..Len(task.parties)
TaskName == task.inst.ident.name
Comps == compdef \cup task.added
Supported == TaskName \in {c.ident.name : c \in Comps}
CompOf == CHOOSE c \in Comps : c.ident.name = TaskName

(* The number of parties asserted by each body.                            *)
PartyCount(name) == IF name \in {"upload", "download"} THEN 2 ELSE 1

(* ParseDict stores floats in single precision.                            *)
from_json(inst) ==
  [inst EXCEPT !.attrs = [k \in DOMAIN inst.attrs |->
     [inst.attrs[k] EXCEPT !.value = Stored(inst.attrs[k].kind, inst.attrs[k].value)]]]

(* None is not an EvalParamReader.                                         *)
ASSUME ReaderAssumption ==
  \A t \in Tasks : \A c \in compdef \cup t.added :
    c.ident.name = t.inst.ident.name /\ Declared(c) /\ Defined(c)
      /\ Accepts(from_json(t.inst), definition(c))
        => Read(from_json(t.inst), definition(c)) # None

Goto(i, s) == stage' = [stage EXCEPT ![i] = s]

Import(i) ==
  /\ stage[i] = "import"
  /\ Goto(i, IF \A c \in Comps : Declared(c) THEN "config" ELSE "undeclared")
  /\ UNCHANGED <<vars, task, reader, capsule>>

(* The configuration is loaded, or a key is missing or malformed.          *)
FromFile(i) ==
  /\ stage[i] = "config"
  /\ \E s \in {"cert", "failed"} : Goto(i, s)
  /\ UNCHANGED <<vars, task, reader, capsule>>

(* The config manager answers with a certificate, or an assertion fails.   *)
GetCertFromConfigManager(i) ==
  /\ stage[i] = "cert"
  /\ \E s \in {"dispatch", "failed"} : Goto(i, s)
  /\ UNCHANGED <<vars, task, reader, capsule>>

(* Fault: the body starts without a reader.                                *)
DispatchUnread(i) ==
  /\ stage[i] = "dispatch"
  /\ Goto(i, IF Supported /\ Len(task.parties) = PartyCount(TaskName)
              THEN "body" ELSE "unsupported")
  /\ UNCHANGED <<vars, task, reader, capsule>>

(* main.py chooses the body by the name of the component.                  *)
Dispatch(i) ==
  /\ stage[i] = "dispatch"
  /\ Goto(i, IF Supported /\ Len(task.parties) = PartyCount(TaskName)
              THEN "read" ELSE "unsupported")
  /\ UNCHANGED <<vars, task, reader, capsule>>

(* definition() and EvalParamReader.                                       *)
ReadParams(i) ==
  LET def == definition(CompOf)
      inst == from_json(task.inst)
  IN /\ stage[i] = "read"
     /\ IF ~Defined(CompOf) THEN Goto(i, "undefined") /\ UNCHANGED reader
        ELSE IF Accepts(inst, def)
        THEN Goto(i, "body") /\ reader' = [reader EXCEPT ![i] = Read(inst, def)]
        ELSE Goto(i, "refused") /\ UNCHANGED reader
     /\ UNCHANGED <<vars, task, capsule>>

(* The party named as receiver fetches the data, the other one serves it.  *)
IsReceiver(i) == reader[i].attrs[<<"receiver/domain_id">>] = <<task.parties[i]>>

Exporting(i) == stage[i] = "body" /\ TaskName = "download"

(* start_server runs dmserver and looks at its exit code.                  *)
SenderStep(i) ==
  /\ Exporting(i) /\ ~IsReceiver(i)
  /\ ServerNext
  /\ Goto(i, CASE server' = "failed" -> "failed" [] server' = "exited" -> "ok"
               [] OTHER -> "body")
  /\ UNCHANGED <<task, reader, capsule>>

ReceiverStep(i) ==
  /\ Exporting(i) /\ IsReceiver(i)
  /\ ReceiverNext
  /\ Goto(i, IF pc' \in {"ok", "failed"} THEN pc' ELSE "body")
  /\ UNCHANGED <<task, reader, capsule>>

(* A call of the Capsule Manager, which then holds after: it is answered,  *)
(* its answer is lost, or it is refused.                                   *)
CapsuleCall(i, after) ==
  /\ \/ capsule' = after /\ \E s \in {"ok", "failed"} : Goto(i, s)
     \/ Goto(i, "failed") /\ UNCHANGED capsule
  /\ UNCHANGED <<vars, task, reader>>

(* create_data_policy for the parameters as read.                          *)
Policy(scope, attrs) ==
  [data     |-> "input",
   scope    |-> scope,
   grantees |-> attrs[<<"authorization_info/root_certs">>],
   columns  |-> attrs[<<"authorization_info/columns">>]]

(* Fault: the policy is created in the scope of the configuration.         *)
AuthorizeInScope(i) ==
  /\ stage[i] = "body" /\ TaskName = "authorize"
  /\ CapsuleCall(i, [capsule EXCEPT
       !.policies = @ \cup {Policy(task.scope, reader[i].attrs)}])

Authorize(i) ==
  /\ stage[i] = "body" /\ TaskName = "authorize"
  /\ LET project_id == reader[i].attrs[<<"authorization_info/project_id">>]
     IN CapsuleCall(i, [capsule EXCEPT
          !.policies = @ \cup {Policy(project_id[1], reader[i].attrs)}])

(* delete_data_policy in the scope of the configuration.                   *)
Unauthorize(i) ==
  /\ stage[i] = "body" /\ TaskName = "unauthorize"
  /\ CapsuleCall(i, [capsule EXCEPT
       !.policies = {p \in @ : p.data # "input" \/ p.scope # task.scope}])

Delete(i) ==
  /\ stage[i] = "body" /\ TaskName = "delete"
  /\ CapsuleCall(i, [capsule EXCEPT !.keys = @ \ {"input"}])

(* The calls of another body return, or one of them raises.                *)
OtherBody(i) ==
  /\ stage[i] = "body"
  /\ TaskName \notin {"download", "authorize", "unauthorize", "delete"}
  /\ \E s \in {"ok", "failed"} : Goto(i, s)
  /\ UNCHANGED <<vars, task, reader, capsule>>

(* The owner of exported data, whose tasks are not this one.               *)
OwnerStep == TaskName = "download" /\ OwnerNext /\ UNCHANGED tvars

PartyStep(i) ==
  \/ Import(i) \/ FromFile(i) \/ GetCertFromConfigManager(i) \/ Dispatch(i)
  \/ ReadParams(i) \/ SenderStep(i) \/ ReceiverStep(i)
  \/ Authorize(i) \/ Unauthorize(i) \/ Delete(i) \/ OtherBody(i)

TaskInit ==
  /\ Init
  /\ task \in Tasks
  /\ stage = [i \in Parties |-> "import"]
  /\ reader = [i \in Parties |-> None]
  /\ capsule = [policies |-> task.before, keys |-> {"input", "other"}]

TaskNext == (\E i \in Parties : PartyStep(i)) \/ OwnerStep

(* Tasks with more parties than any body accepts are not considered.       *)
MaxParties == 2

(* The calls of a party return or raise, and its dmserver is scheduled.    *)
TaskSpec ==
  /\ TaskInit /\ [][TaskNext]_allvars
  /\ \A i \in 1..MaxParties : WF_allvars(i \in Parties /\ PartyStep(i))

-----------------------------------------------------------------------------
(* Properties.                                                             *)

Ended == {"ok", "failed", "undeclared", "undefined", "unsupported", "refused"}

(* Processes are at a stage of main.py, and those in a body or done with   *)
(* it have read the parameters.                                            *)
TaskTypeOK ==
  /\ stage \in [Parties -> Ended \cup {"import", "config", "cert", "dispatch",
                                       "read", "body"}]
  /\ DOMAIN reader = Parties
  /\ \A i \in Parties : stage[i] \in {"body", "ok"} => reader[i] # None

(* The parameters as their author wrote them agree with the declaration:   *)
(* each attribute is given once, with a value of its kind that is among    *)
(* the allowed ones, or is optional and left out; inputs, columns and      *)
(* outputs are as declared.                                                *)
Legal(c, inst) ==
  /\ inst.ident = c.ident
  /\ Len(inst.attr_paths) = Len(inst.attrs) /\ IsInjective(inst.attr_paths)
  /\ \A d \in ToSet(c.attrs) :
       \/ d.is_optional /\ d.name \notin ToSet(inst.attr_paths)
       \/ \E k \in GivenAt(inst, d.name) :
            /\ inst.attrs[k].kind = d.kind /\ inst.attrs[k].is_list = d.is_list
            /\ \/ d.allowed_values = None
               \/ ToSet(inst.attrs[k].value) \subseteq ToSet(d.allowed_values)
  /\ InputsRead(inst, c) /\ ColumnsRead(inst, c)
  /\ Len(inst.output_uris) = Len(c.outputs)

(* The fields of AtomicAttrDesc that docs/architecture/apps/split.md shows *)
(* are those the reader looks at; the ones a declaration with bounds sets  *)
(* are not among them.                                                     *)
FieldsDocumented ==
  /\ {"lower_bound_enabled", "upper_bound_enabled"} \subseteq AtomicFields
  /\ {"has_lower_bound", "has_upper_bound"} \cap AtomicFields = {}

(* A component whose declaration was accepted can be used as declared: the *)
(* reader refuses neither a default nor an allowed value, although both go *)
(* through protobuf, floats in single precision (component.py,             *)
(* eval_param_reader.py).                                                  *)
ChoicesAccepted == \A i \in Parties : stage[i] = "refused" => ~Legal(CompOf, task.inst)

(* What a body reads is what was asked for.  An attribute left out is      *)
(* optional and has its default; one given in the field of its kind has    *)
(* the value given, and one given in another field is zero or empty, as    *)
(* the reader does not tell.  What is not a list is among the allowed      *)
(* values, if there are any, and so is the default of a list; elements of  *)
(* a list that is given are not looked at.  No component with bounds is    *)
(* ever read, as declaring them fails.  Columns are as many as declared    *)
(* (eval_param_reader.py 30-46, 122-234 against component.py 141-147).     *)
ParamsMeet ==
  \A i \in Parties : reader[i] # None =>
    /\ \A d \in ToSet(CompOf.attrs) :
         LET v == reader[i].attrs[d.name]
             at == GivenAt(task.inst, d.name)
             allowed == ToSet(Stored(d.kind, d.allowed_values))
         IN /\ at = {} => d.is_optional /\ v = Stored(d.kind, d.default_value)
            /\ \A k \in at :
                 LET a == task.inst.attrs[k]
                 IN v = IF a.kind = d.kind /\ a.is_list = d.is_list
                        THEN Stored(d.kind, a.value)
                        ELSE IF d.is_list THEN <<>> ELSE <<Zero(d.kind)>>
            /\ d.allowed_values \notin {None, <<>>} =>
                 /\ ~d.is_list => v[1] \in allowed
                 /\ at = {} => ToSet(v) \subseteq allowed
            /\ d.lower_bound = None /\ d.upper_bound = None
    /\ \A c \in Columns(CompOf) :
         LET n == Len(reader[i].attrs[NameAt(CompOf, c)])
             col == ColumnAt(CompOf, c)
         IN (col.min = 0 \/ n >= col.min) /\ (col.max = 0 \/ n <= col.max)

(* Every name a body asks the reader for is declared by its component, as  *)
(* a list where it is used as one: no body ends with "does not exist", an  *)
(* export's not after it was given the key (main.py 321, compdef.py).      *)
TasksRead ==
  \A i \in Parties : reader[i] # None =>
    /\ \A nl \in Asked(TaskName).attrs :
         \E d \in ToSet(CompOf.attrs) : d.name = nl[1] /\ d.is_list = nl[2]
    /\ Asked(TaskName).inputs \subseteq DOMAIN reader[i].inputs
    /\ Asked(TaskName).outputs \subseteq DOMAIN reader[i].outputs

(* The policy that the parameters of an authorization ask for.             *)
Asks(name) == task.inst.attrs[CHOOSE k \in GivenAt(task.inst, name) : TRUE].value
IsAsked(p) ==
  /\ p.data = "input"
  /\ p.scope = Asks(<<"authorization_info/project_id">>)[1]
  /\ p.grantees = Asks(<<"authorization_info/root_certs">>)
  /\ p.columns = Asks(<<"authorization_info/columns">>)

(* Authorizations give each declared attribute in the field of its kind:   *)
(* the reader looks at no other one, and takes it for empty.               *)
AuthorizationsTyped ==
  \A t \in Tasks : t.inst.ident.name = "authorize" =>
    \A d \in ToSet(data_auth_comp.attrs) : \A k \in GivenAt(t.inst, d.name) :
      t.inst.attrs[k].kind = d.kind /\ t.inst.attrs[k].is_list = d.is_list

(* A task changes at the Capsule Manager what its parameters ask for and   *)
(* nothing else: with success the policy for the given project, parties    *)
(* and columns is there, or those of the data in the task's scope or its   *)
(* key are gone; without, they may be (a lost answer); and tasks whose     *)
(* parameters are refused change nothing.                                  *)
CapsuleFollows ==
  LET was == task.before
      now == capsule.policies
      Done == \E i \in Parties : stage[i] = "ok"
      HasRead == \E i \in Parties : reader[i] # None
  IN /\ now \ was # {} =>
          /\ TaskName = "authorize" /\ HasRead
          /\ \A p \in now \ was : IsAsked(p)
     /\ was \ now # {} =>
          /\ TaskName = "unauthorize" /\ HasRead
          /\ \A p \in was \ now : p.data = "input" /\ p.scope = task.scope
     /\ "other" \in capsule.keys
     /\ "input" \notin capsule.keys => TaskName = "delete" /\ HasRead
     /\ Done =>
          CASE TaskName = "authorize" -> \E p \in now : IsAsked(p)
            [] TaskName = "unauthorize" ->
                 ~\E p \in now : p.data = "input" /\ p.scope = task.scope
            [] TaskName = "delete" -> "input" \notin capsule.keys
            [] OTHER -> TRUE

(* A task ends, with success or an error, whatever the peer and the owner  *)
(* do; only the process that serves an export waits for its receiver.      *)
TaskEnds ==
  \A i \in 1..MaxParties :
    <>(i \in Parties => stage[i] \in Ended \/ (Exporting(i) /\ ~IsReceiver(i)))

(* A successful export ends the whole task: the receiver stops the         *)
(* sender's server, and the sender's process ends with success too.        *)
ExportReleases == pc = "ok" ~> \A i \in Parties : stage[i] = "ok"
===============================================================================
