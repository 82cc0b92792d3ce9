------------------------------ MODULE BotSender ------------------------------
(***************************************************************************)
(* max.BotSender, internal/max/bot_sender.go: a text is one post, a file is *)
(* an upload and then posts of the message that carries it, repeated while  *)
(* MAX answers that the attachment is not ready yet.                        *)
(*                                                                          *)
(* A post may fail after MAX has taken the message (a timeout, a lost       *)
(* answer), so the caller's view and MAX's differ.  A message is whatever   *)
(* the caller says it is.                                                   *)
(***************************************************************************)
EXTENDS Integers, Sequences

CONSTANT AttachmentReadyMaxAttempts   \* 5

ASSUME SenderAssumption == AttachmentReadyMaxAttempts \in Nat \ {0}

VARIABLES sending,  \* where SendFile is: not called, about to post, waiting
          tries,    \* posts of the file's message in this call
          ctxDone,  \* the caller's context is cancelled or timed out
          taken     \* history: messages MAX took, in order

senderVars == <<sending, tries, taken>>

SenderInit == sending = "idle" /\ tries = 0 /\ taken = <<>>

\* What the sender learns of a post.  "unknown" is an error although MAX has taken
\* the message; "notReady" refuses it for the time being.
Answers == {"ok", "error", "unknown", "notReady"}

\* api.Messages.Send.
Post(message, answer) ==
    taken' = IF answer \in {"ok", "unknown"} THEN Append(taken, message) ELSE taken

\* SendText; an id that parseChatID refuses never leaves the process.
SendText(message, validId, result) ==
    /\ \/ ~validId /\ result = "error" /\ UNCHANGED taken
       \/ /\ validId
          /\ \E answer \in Answers :
                /\ Post(message, answer)
                /\ result = IF answer = "ok" THEN "ok" ELSE "error"
    /\ UNCHANGED <<sending, tries>>

\* SendFile up to the upload.
UploadFile(validId, result) ==
    /\ sending = "idle"
    /\ \/ result = "error" /\ UNCHANGED <<sending, tries>>
       \/ validId /\ result = "running" /\ sending' = "post" /\ tries' = 1
    /\ UNCHANGED taken

\* A message that is posted again after any error.
AgainAfterAny(answer) == answer # "ok" /\ tries < AttachmentReadyMaxAttempts

\* The message is posted again only when MAX says that it has not taken it.
Again(answer) == answer = "notReady" /\ tries < AttachmentReadyMaxAttempts

\* One turn of sendFileMessage.
sendFileMessage(message, result) ==
    /\ sending = "post"
    /\ \E answer \in Answers :
          /\ Post(message, answer)
          /\ result = CASE answer = "ok" -> "ok" [] Again(answer) -> "running" [] OTHER -> "error"
    /\ sending' = IF result = "running" THEN "pause" ELSE "idle"
    /\ UNCHANGED tries

\* Its pause; when the context is done as well, either.
ReadyPause(result) ==
    /\ sending = "pause"
    /\ \/ ctxDone /\ result = "error" /\ sending' = "idle" /\ UNCHANGED tries
       \/ result = "running" /\ sending' = "post" /\ tries' = tries + 1
    /\ UNCHANGED taken

\* SendFile as its caller sees it, step by step.
SendFile(message, validId, result) ==
    UploadFile(validId, result) \/ sendFileMessage(message, result) \/ ReadyPause(result)
=============================================================================
