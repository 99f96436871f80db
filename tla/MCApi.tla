-------------------------------- MODULE MCApi --------------------------------
(***************************************************************************)
(* One run for the parts of the API and of its clients that do not share   *)
(* state: a behaviour is one of the streams and their sockets, of an       *)
(* account, of the notifications, of the tags of a stream and their editor,*)
(* of a client's requests, of an iteration over pages or of the toasts.    *)
(* No fair action of a part is enabled in its initial state, so the parts  *)
(* that stand still do not restrict the others.                            *)
(***************************************************************************)
EXTENDS StreamsApi, Accounts, Notifications, StreamTags, SdkClient, SdkPages, Toasts

VARIABLE part

Init ==
  /\ part \in {"streams", "account", "notices", "tags", "sdk", "pages", "toasts"}
  /\ StreamsInit /\ AccountsInit /\ NoticesInit /\ ToastsInit
  /\ TagsInit /\ SdkInit /\ PagesInit
  /\ part # "sdk" => client = "sdk"
  /\ part # "pages" => list = <<>>
  /\ part # "tags" => tagRows = {}

Next ==
  \/ /\ part = "streams" /\ StreamsNext
     /\ UNCHANGED <<part, accountVars, noticeVars, tagVars, sdkVars, pageVars, toastVars>>
  \/ /\ part = "account" /\ AccountsNext
     /\ UNCHANGED <<part, apiVars, noticeVars, tagVars, sdkVars, pageVars, toastVars>>
  \/ /\ part = "notices" /\ NoticesNext
     /\ UNCHANGED <<part, apiVars, accountVars, tagVars, sdkVars, pageVars, toastVars>>
  \/ /\ part = "tags" /\ TagsNext
     /\ UNCHANGED <<part, apiVars, accountVars, noticeVars, sdkVars, pageVars, toastVars>>
  \/ /\ part = "sdk" /\ SdkNext
     /\ UNCHANGED <<part, apiVars, accountVars, noticeVars, tagVars, pageVars, toastVars>>
  \/ /\ part = "pages" /\ PagesNext
     /\ UNCHANGED <<part, apiVars, accountVars, noticeVars, tagVars, sdkVars, toastVars>>
  \/ /\ part = "toasts" /\ ToastsNext
     /\ UNCHANGED <<part, apiVars, accountVars, noticeVars, tagVars, sdkVars, pageVars>>

Spec ==
  /\ Init
  /\ [][Next]_<<part, apiVars, accountVars, noticeVars, tagVars, sdkVars, pageVars, toastVars>>
  /\ NoticesFairness
  /\ ToastsFairness

\* The types of all parts.
ApiTypeOK ==
  /\ StreamsTypeOK /\ AccountsTypeOK /\ NoticesTypeOK
  /\ TagsTypeOK /\ SdkTypeOK /\ PagesTypeOK /\ ToastsTypeOK
=============================================================================
