---------------------------- MODULE ExchangeProofs ----------------------------
(***************************************************************************)
(* Proofs about Exchange for pages of any length.                           *)
(*                                                                         *)
(* What the client has been sent is tied to where the handler is: Progress  *)
(* says how much of the page has been copied, why copying ended before its  *)
(* end, and which response has been begun.  With TypeOK it is inductive,    *)
(* because everything it takes for an excuse (the context is done, a        *)
(* timeout has passed, the backend or the upload broke off) stays true once *)
(* it is, and the backend's answer is fixed when its headers have arrived.  *)
(* The properties of a finished exchange are what it says of the last place *)
(* and of why a context can be done (Excused).                              *)
(***************************************************************************)
EXTENDS Exchange, SequenceTheorems, TLAPS

\* Only chunks of this exchange.
Own(s) == \A i \in 1..Len(s) : s[i] = "own"

\* Where the chunks that were read are kept.
Body == IF isHTML THEN buf ELSE got

\* Nothing has been sent or kept back yet.
Untouched ==
    /\ status = "none" /\ got = <<>> /\ buf = <<>> /\ ~isHTML /\ read = 0

\* The backend's response is under way.
Begun ==
    /\ conn # "none"
    /\ status = IF isHTML THEN "none" ELSE "backend"
    /\ IF isHTML THEN got = <<>> ELSE buf = <<>>

\* The context is done because the client has gone, or was too slow for net/http.
Excused == cancelled => gone \/ upload = "late"

\* All of the page has been copied, or there is an excuse.
Copied(s) == Len(s) = offer.size \/ BodyFails

\* What the client holds at the end, or the excuse for it.
Answer ==
    /\ status \in {"none", "empty"} => cancelled /\ (gone \/ conn = "none")
    /\ status = "504" => late \/ upload = "late"
    /\ status = "502" => backend \in {"unasked", "broken"} \/ upload = "broken"
    /\ status = "backend" => conn # "none" /\ Own(got) /\ Copied(got)
    /\ status \in {"502", "504"} => conn = "none"

Progress ==
    /\ pc \in {"ready", "build", "do", "failed", "head"} => Untouched
    /\ pc \in {"ready", "build", "do", "failed"} => conn = "none"
    /\ Excused
    /\ pc = "failed" =>
          IF err = "timeout" THEN late \/ upload = "late"
                             ELSE cancelled \/ backend = "broken" \/ upload = "broken"
    /\ pc = "head" => conn # "none"
    /\ conn # "none" => backend \in {"answered", "broken"}
    /\ pc \in {"read", "write", "drain", "strip"} => Begun /\ Own(Body)
    /\ pc = "read" => Len(Body) = read
    /\ pc = "write" => Len(Body) + 1 = read
    /\ pc \in {"drain", "strip"} => Copied(Body)
    /\ pc \in {"finish", "done"} => Answer
    /\ conn # "none" /\ pc # "head" => length = (offer.length /\ ~isHTML)

\* The types, and that nothing is offered before the backend answers.
TypeInv ==
    /\ TypeOK
    /\ pc \in {"ready", "build"} => backend = "unasked"
    /\ backend \in {"unasked", "asked"} => offer = NoResponse

IInv == TypeInv /\ Progress

\* What appending one chunk does.
LEMMA AppendChunk ==
  ASSUME NEW s \in Seq(Chunks)
  PROVE  /\ Append(s, "own") \in Seq(Chunks)
         /\ Len(s) \in Nat
         /\ Len(Append(s, "own")) = Len(s) + 1
         /\ Own(s) => Own(Append(s, "own"))
<1>1. "own" \in Chunks
  BY DEF Chunks
<1>2. /\ Append(s, "own") \in Seq(Chunks)
      /\ Len(s) \in Nat
      /\ Len(Append(s, "own")) = Len(s) + 1
      /\ \A i \in 1..Len(s) : Append(s, "own")[i] = s[i]
      /\ Append(s, "own")[Len(s) + 1] = "own"
  BY <1>1
<1>3. \A i \in 1..(Len(s) + 1) : i \in 1..Len(s) \/ i = Len(s) + 1
  BY <1>2
<1> QED  BY <1>2, <1>3 DEF Own

\* A sequence of own chunks that is as long as the page is the page.
LEMMA OwnIsPage ==
  ASSUME NEW s \in Seq(Chunks), Own(s), Len(s) = offer.size
  PROVE  s = Page
<1>1. s = [i \in 1..Len(s) |-> s[i]]
  BY LenProperties
<1> QED  BY <1>1 DEF Own, Page

\* Every action keeps the types of the variables; the bounds on what was sent and
\* read need that nothing is offered before the backend answers.
LEMMA TypeStep == TypeInv /\ [Next]_vars => TypeInv'
<1> SUFFICES ASSUME TypeInv, [Next]_vars
             PROVE  TypeInv'
  OBVIOUS
<1> USE ExchangeAssumption
    DEF TypeInv, TypeOK, handlerVars, backendVars, clientVars, events
<1>0. /\ <<>> \in Seq(Chunks) /\ <<"error">> \in Seq(Chunks)
      /\ NoResponse \in Responses /\ NoResponse.size = 0
  BY DEF Chunks, NoResponse, Responses
<1>u. CASE UNCHANGED vars
  BY <1>u DEF vars
<1>1. CASE Start
  <2>1. buf' \in Seq(Chunks) /\ got' \in Seq(Chunks) /\ offer' \in Responses
    BY <1>0, <1>1 DEF Start, Begin
  <2>2. /\ offer' = NoResponse /\ offer'.size = 0 /\ sent' = 0 /\ read' = 0
        /\ pc' = "build" /\ conn' = "none" /\ err' = "none"
        /\ backend' = "unasked" /\ status' = "none"
    BY <1>0, <1>1 DEF Start, Begin
  <2>3. /\ strip' \in BOOLEAN /\ isHTML' \in BOOLEAN /\ length' \in BOOLEAN
        /\ late' \in BOOLEAN /\ gone' \in BOOLEAN /\ cancelled' \in BOOLEAN
    BY <1>1, Zenon DEF Start, Begin
  <2>4. upload' \in {"sending", "sent"}
    BY <1>1 DEF Start, Begin
  <2> QED  BY <2>1, <2>2, <2>3, <2>4
<1>2. CASE BuildFails
  BY <1>0, <1>2 DEF BuildFails, WriteError
<1>3. CASE Ask
  BY <1>3 DEF Ask
<1>4. CASE Answered
  BY <1>4 DEF Answered
<1>5. CASE DoFails
  BY <1>5 DEF DoFails
<1>6. CASE Classify
  <2>1. got' \in Seq(Chunks)
    BY <1>0, <1>6 DEF Classify, WriteError
  <2>2. length' \in BOOLEAN
    BY <1>6, Zenon DEF Classify, WriteError
  <2>3. status' \in {status, "502", "504"} /\ pc' = "finish"
    BY <1>6 DEF Classify, WriteError
  <2> QED  BY <1>6, <2>1, <2>2, <2>3 DEF Classify
<1>7. CASE WriteHeader
  BY <1>7 DEF WriteHeader, SendHead, Responses
<1>8. CASE ReadChunk
  BY <1>8 DEF ReadChunk, Responses
<1>9. CASE CopyEnds
  BY <1>9 DEF CopyEnds
<1>10. CASE Hold
  BY <1>10, AppendChunk DEF Hold
<1>11. CASE Deliver
  BY <1>11, AppendChunk DEF Deliver
<1>12. CASE WriteFails
  BY <1>12 DEF WriteFails
<1>13. CASE DrainChunk
  BY <1>13 DEF DrainChunk, Responses
<1>14. CASE Close
  BY <1>14 DEF Close
<1>15. CASE SendStripped
  BY <1>15 DEF SendStripped
<1>16. CASE SendFails
  BY <1>16 DEF SendFails
<1>17. CASE NothingHeld
  BY <1>17 DEF NothingHeld
<1>18. CASE Finish
  BY <1>18 DEF Finish
<1>19. CASE BackendAnswers
  BY <1>0, <1>19 DEF BackendAnswers, Responses
<1>20. CASE BackendSends
  BY <1>20 DEF BackendSends, Responses
<1>21. CASE BackendBreaks
  BY <1>21 DEF BackendBreaks
<1>22. CASE Timeout
  BY <1>22 DEF Timeout
<1>23. CASE UploadEnds
  BY <1>23 DEF UploadEnds
<1>24. CASE UploadBreaks
  BY <1>24 DEF UploadBreaks
<1>25. CASE UploadTimesOut
  <2>1. cancelled' \in BOOLEAN
    BY <1>25, Zenon DEF UploadTimesOut
  <2>2. upload' = "late"
    BY <1>25 DEF UploadTimesOut
  <2>3. UNCHANGED <<pc, handlerVars, backendVars, clientVars, late, gone>>
    BY <1>25 DEF UploadTimesOut
  <2> QED  BY <2>1, <2>2, <2>3
<1>26. CASE Disconnect
  BY <1>26 DEF Disconnect
<1>27. CASE Notice
  BY <1>27 DEF Notice
<1> QED
  BY <1>u, <1>1, <1>2, <1>3, <1>4, <1>5, <1>6, <1>7, <1>8, <1>9, <1>10, <1>11,
     <1>12, <1>13, <1>14, <1>15, <1>16, <1>17, <1>18, <1>19, <1>20, <1>21,
     <1>22, <1>23, <1>24, <1>25, <1>26, <1>27 DEF Next, Handler

LEMMA TypeInit == Init => TypeInv
<1> SUFFICES ASSUME Init
             PROVE  TypeInv
  OBVIOUS
<1>1. offer \in Responses /\ offer.size = 0
  BY ExchangeAssumption DEF Init, Responses, NoResponse
<1>2. buf \in Seq(Chunks) /\ got \in Seq(Chunks)
  BY DEF Init
<1>3. /\ strip \in BOOLEAN /\ isHTML \in BOOLEAN /\ length \in BOOLEAN
      /\ late \in BOOLEAN /\ gone \in BOOLEAN /\ cancelled \in BOOLEAN
  BY Zenon DEF Init
<1> QED  BY <1>1, <1>2, <1>3 DEF Init, TypeInv, TypeOK

\* The type invariant holds for pages of any length.
THEOREM ExchangeTypeCorrect == Spec => []TypeOK
<1>1. Init => TypeInv
  BY TypeInit
<1>2. TypeInv => TypeOK
  BY DEF TypeInv
<1> QED  BY <1>1, <1>2, TypeStep, PTL DEF Spec

\* Every action keeps Progress.
LEMMA ProgressStep == IInv /\ [Next]_vars => Progress'
<1> SUFFICES ASSUME TypeInv, Progress, [Next]_vars
             PROVE  Progress'
  BY DEF IInv
<1> USE DEF TypeInv, TypeOK, Progress, Untouched, Begun, Body, Copied, BodyFails,
            Answer, Excused, handlerVars, backendVars, clientVars, events
<1>0. Len(buf) \in Nat /\ Len(got) \in Nat
  BY AppendChunk
<1>u. CASE UNCHANGED vars
  BY <1>u DEF vars, Own
<1>1. CASE Start
  BY <1>1 DEF Start, Begin
<1>2. CASE BuildFails
  BY <1>2 DEF BuildFails, WriteError
<1>3. CASE Ask
  BY <1>3 DEF Ask
<1>4. CASE Answered
  BY <1>4 DEF Answered
<1>5. CASE DoFails
  BY <1>5 DEF DoFails
<1>6. CASE Classify
  BY <1>6 DEF Classify, WriteError
<1>7. CASE WriteHeader
  BY <1>7 DEF WriteHeader, SendHead, Own
<1>8. CASE ReadChunk
  BY <1>8 DEF ReadChunk, Own
<1>9. CASE CopyEnds
  BY <1>9 DEF CopyEnds, Own
<1>10. CASE Hold
  BY <1>10, AppendChunk DEF Hold
<1>11. CASE Deliver
  BY <1>11, AppendChunk DEF Deliver
<1>12. CASE WriteFails
  BY <1>12 DEF WriteFails, Own
<1>13. CASE DrainChunk
  BY <1>13 DEF DrainChunk, Own
<1>14. CASE Close
  BY <1>14 DEF Close, Own
<1>15. CASE SendStripped
  BY <1>15 DEF SendStripped, Own
<1>16. CASE SendFails
  BY <1>16 DEF SendFails
<1>17. CASE NothingHeld
  BY <1>17 DEF NothingHeld, Own
<1>18. CASE Finish
  BY <1>18 DEF Finish, Own
<1>19. CASE BackendAnswers
  BY <1>19 DEF BackendAnswers, Running, Own
<1>20. CASE BackendSends
  BY <1>20 DEF BackendSends, Own
<1>21. CASE BackendBreaks
  BY <1>21 DEF BackendBreaks, Own
<1>22. CASE Timeout
  BY <1>22 DEF Timeout, Own
<1>23. CASE UploadEnds
  BY <1>23 DEF UploadEnds, Own
<1>24. CASE UploadBreaks
  BY <1>24 DEF UploadBreaks, Own
<1>25. CASE UploadTimesOut
  <2>1. cancelled => cancelled'
    BY <1>25, Zenon DEF UploadTimesOut
  <2>2. upload = "sending" /\ upload' = "late"
    BY <1>25 DEF UploadTimesOut
  <2>3. UNCHANGED <<pc, handlerVars, backendVars, clientVars, late, gone>>
    BY <1>25 DEF UploadTimesOut
  <2> QED  BY <2>1, <2>2, <2>3 DEF Own
<1>26. CASE Disconnect
  BY <1>26 DEF Disconnect, Own
<1>27. CASE Notice
  BY <1>27 DEF Notice, Own
<1> QED
  BY <1>u, <1>1, <1>2, <1>3, <1>4, <1>5, <1>6, <1>7, <1>8, <1>9, <1>10, <1>11,
     <1>12, <1>13, <1>14, <1>15, <1>16, <1>17, <1>18, <1>19, <1>20, <1>21,
     <1>22, <1>23, <1>24, <1>25, <1>26, <1>27 DEF Next, Handler

LEMMA ExchangeInvariant == Spec => []IInv
<1>1. Init => IInv
  BY TypeInit DEF Init, IInv, Progress, Excused, Untouched
<1>2. IInv /\ [Next]_vars => IInv'
  BY TypeStep, ProgressStep DEF IInv
<1> QED  BY <1>1, <1>2, PTL DEF Spec

\* A client that stays gets the answer that fits what happened.
THEOREM AnswerCorrect == Spec => []RightAnswer
<1>1. IInv => RightAnswer
  BY DEF IInv, TypeInv, TypeOK, Progress, Answer, Excused, RightAnswer, Received
<1> QED  BY <1>1, ExchangeInvariant, PTL

\* A page that came in time is received whole.
THEOREM PageCorrect == Spec => []WholePage
<1>1. ASSUME IInv, Received, status = "backend", UploadGood, ~late, backend # "broken"
      PROVE  LooksWhole /\ got = Page
  <2>1. Own(got) /\ Len(got) = offer.size /\ conn # "none"
    BY <1>1 DEF IInv, Progress, Answer, Copied, BodyFails, Excused, UploadGood, Received
  <2>2. got = Page
    BY <1>1, <2>1, OwnIsPage DEF IInv, TypeInv, TypeOK
  <2>3. LooksWhole
    BY <1>1, <2>1 DEF IInv, Progress, LooksWhole, Received
  <2> QED  BY <2>2, <2>3
<1>2. IInv => WholePage
  BY <1>1 DEF WholePage
<1> QED  BY <1>2, ExchangeInvariant, PTL

\* A page that was cut off looks cut off, unless its length was not to be told.
THEOREM TruncationCorrect == Spec => []TruncationShows
<1>1. ASSUME IInv, Received, status = "backend", LooksWhole, offer.length, ~isHTML
      PROVE  got = Page
  <2>1. Own(got) /\ conn # "none" /\ length
    BY <1>1 DEF IInv, Progress, Answer, Received
  <2>2. Len(got) = offer.size
    BY <1>1, <2>1 DEF LooksWhole
  <2> QED  BY <1>1, <2>1, <2>2, OwnIsPage DEF IInv, TypeInv, TypeOK
<1>2. IInv => TruncationShows
  BY <1>1 DEF TruncationShows, IInv, TypeInv, TypeOK, Responses
<1> QED  BY <1>2, ExchangeInvariant, PTL

\* Nobody is sent a piece of another page, or of an error message.
THEOREM PagesNeverMix == Spec => []OwnPage
<1>1. IInv => OwnPage
  BY DEF IInv, TypeInv, TypeOK, Progress, Untouched, Begun, Body, Answer, Own,
         OwnPage
<1> QED  BY <1>1, ExchangeInvariant, PTL
===============================================================================
