----------------------------- MODULE Mutations -----------------------------
(***************************************************************************)
(* The three mutation classes of graphene-django as functions from what a  *)
(* client and the application's form or serializer make of one mutation    *)
(* field to what resolving the field does:                                 *)
(*   - DjangoFormMutation and DjangoModelFormMutation (forms/mutation.py), *)
(*   - SerializerMutation (rest_framework/mutation.py).                    *)
(*                                                                         *)
(* The forms, serializers and models are the application's: an input says  *)
(* how they answer.  `broken` is the state of the transaction: once it is  *)
(* marked for rollback Django refuses every query until the block ends.    *)
(***************************************************************************)

\* save() stores the object, or the database refuses it, or it raises before
\* it has written anything.
SaveResult == {"stores", "refused", "raises"}

FormInput ==
    [kind : {"form", "model_form"},
     pk : {"absent", "found", "missing"},  \* the `id` popped by get_form_kwargs
     valid : BOOLEAN,                      \* form.is_valid()
     checks_db : BOOLEAN,                  \* is_valid() runs a query
     has_save : BOOLEAN,                   \* hasattr(form, "save")
     save : SaveResult,
     resolves : BOOLEAN]                   \* the payload and its subfields do not raise

SerializerInput ==
    [kind : {"serializer"},
     has_model : BOOLEAN,                  \* _meta.model_class is set
     model_operations : {{"create"}, {"update"}, {"create", "update"}},
     pk : {"absent", "found", "missing"},  \* the lookup_field of the input
     valid : BOOLEAN, checks_db : BOOLEAN, save : SaveResult, resolves : BOOLEAN]

MutationInput == FormInput \cup SerializerInput

\* What resolving a field amounts to: what the response holds for it, and
\* whether it saved, set the errors flag, and was refused by the database.
Outcome ==
    [data : {"payload", "errors", "null"}, saved : BOOLEAN,
     flagged : BOOLEAN, refused : BOOLEAN]

Raises(saved, refused) ==
    [data |-> "null", saved |-> saved, flagged |-> FALSE, refused |-> refused]

Returns(data, saved, flagged) ==
    [data |-> data, saved |-> saved, flagged |-> flagged, refused |-> FALSE]

-----------------------------------------------------------------------------
\* form.save() or serializer.save(), then the payload built from the result.
SaveAndReturn(in, broken) ==
    IF broken \/ in.save # "stores" THEN Raises(FALSE, broken \/ in.save = "refused")
    ELSE IF in.resolves THEN Returns("payload", TRUE, FALSE)
    ELSE Raises(TRUE, FALSE)

\* _set_errors_flag_to_context, then a payload that carries the form's errors; a
\* DjangoFormMutation also gives it the form's raw data, which it may not take.
FormErrors(in) ==
    IF in.kind = "form" /\ ~in.resolves THEN [Raises(FALSE, FALSE) EXCEPT !.flagged = TRUE]
    ELSE Returns("errors", FALSE, TRUE)

\* get_form: `id` selects an instance through the model of a model form; a
\* DjangoFormMutation has no model in its options, so there the `id` raises.
GetFormRaises(in, broken) ==
    \/ in.pk # "absent" /\ (in.kind = "form" \/ broken)
    \/ in.pk = "missing"

PerformFormMutate(in, broken) ==
    IF in.kind = "form" /\ ~in.has_save
    THEN IF in.resolves THEN Returns("payload", FALSE, FALSE) ELSE Raises(FALSE, FALSE)
    ELSE SaveAndReturn(in, broken)

FormMutate(in, broken) ==
    IF GetFormRaises(in, broken) \/ (in.checks_db /\ broken)
    THEN Raises(FALSE, FALSE)
    ELSE IF ~in.valid THEN FormErrors(in) ELSE PerformFormMutate(in, broken)

-----------------------------------------------------------------------------
\* get_serializer_kwargs: an update looks the instance up, a create does not,
\* and an update without its lookup field is refused.
UpdatesInstance(in) == "update" \in in.model_operations /\ in.pk # "absent"

GetSerializerRaises(in, broken) ==
    /\ in.has_model
    /\ IF UpdatesInstance(in) THEN in.pk = "missing" \/ broken
       ELSE "create" \notin in.model_operations

\* The errors payload of a SerializerMutation does not set the flag.
SerializerErrors == Returns("errors", FALSE, FALSE)

SerializerMutate(in, broken) ==
    IF GetSerializerRaises(in, broken) \/ (in.checks_db /\ broken)
    THEN Raises(FALSE, FALSE)
    ELSE IF ~in.valid THEN SerializerErrors ELSE SaveAndReturn(in, broken)

Mutate(in, broken) ==
    IF in.kind = "serializer" THEN SerializerMutate(in, broken)
    ELSE FormMutate(in, broken)

\* Everything a mutation field can do, in a sound and in a broken transaction.
Outcomes == [broken \in BOOLEAN |-> {Mutate(in, broken) : in \in MutationInput}]
=============================================================================
