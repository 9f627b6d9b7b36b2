----------------------------- MODULE FormDialog -----------------------------
(***************************************************************************)
(* The dialog of the forms that create things                              *)
(* (webui/src/app/ui/formDialog.tsx), and the checks that the forms make   *)
(* before they send a request (webui/src/app/ui/formCreation.tsx).  The    *)
(* page that shows the form supplies the request.  Messages are left out.  *)
(*                                                                         *)
(* What is typed into a field is "ok", "blank" when it has white space in  *)
(* it, or for a list of nodes "none" when the list is empty.               *)
(***************************************************************************)
VARIABLE form      \* showDialog and submitting

NoForm == [open |-> FALSE, submitting |-> FALSE]

FormType == [open : BOOLEAN, submitting : BOOLEAN]

openDialog == ~form.open /\ form' = [form EXCEPT !.open = TRUE]

(* The dialog can be left at any time, by a click beside it or by Escape.  *)
closeDialog == form.open /\ form' = [form EXCEPT !.open = FALSE]

(* handleSubmit up to the await, for input that passes the checks; other   *)
(* input has no effect but a message.                                      *)
handleSubmit == form.open /\ ~form.submitting /\ form' = [form EXCEPT !.submitting = TRUE]

(* The rest of handleSubmit.  Success closes the dialog even if it has     *)
(* been left and opened again.                                             *)
EndSubmit(error) ==
    form' = [open |-> form.open /\ error # "", submitting |-> FALSE]

-----------------------------------------------------------------------------
containsWhitespace(value) == value = "blank"

(* There is an error message.                                              *)
validateFormData(formData, fields) == \E f \in fields : containsWhitespace(formData[f])

NamespaceCreation(formData) == ~validateFormData(formData, {"name"})

ClusterCreation(formData) ==
    ~validateFormData(formData, {"name", "replicas"}) /\ formData["nodes"] = "ok"

ShardCreation(formData) ==
    ~validateFormData(formData, {"nodes"}) /\ formData["nodes"] = "ok"

ImportCluster(formData) == formData["nodes"] = "ok"

NodeCreation(formData) == ~validateFormData(formData, {"address", "role"})
=============================================================================
