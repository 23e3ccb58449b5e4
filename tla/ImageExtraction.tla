---------------------------- MODULE ImageExtraction ----------------------------
(***************************************************************************)
(* The extraction of places from an image with an AI service               *)
(* (services/place/ai_image_extraction_client.py); like the search it is a *)
(* function of the settings, the image and the provider's answer.          *)
(*                                                                         *)
(* The text of an answer is a sequence of pieces, each of one kind:        *)
(* "blank", "prose", a JSON "object" or some "other" JSON without braces.  *)
(***************************************************************************)
EXTENDS PlaceSearch, Sequences, SequencesExt

CONSTANT Squeezed  \* a name or address in lower case and without white space

\* A setting that is missing, blank or a "your-..." placeholder is NULL.
IsConfigured(value) == value # NULL

EnsureImageSize(megabytes) == megabytes <= 15

NotBlank(text) == SelectSeq(text, LAMBDA piece : piece.kind # "blank")

\* candidates[0].content.parts
ExtractGeminiText(answer) ==
  IF answer.choices = <<>> THEN <<>> ELSE NotBlank(answer.choices[1])

\* output_text, or else every part of every output.
ExtractOpenaiResponseText(answer) ==
  IF answer.output_text.kind # "blank" THEN <<answer.output_text>>
  ELSE NotBlank(FlattenSeq(answer.choices))

\* choices[0].message.content
ExtractChatCompletionText(answer) ==
  IF answer.choices = <<>> THEN <<>> ELSE NotBlank(answer.choices[1])

\* The parts of `content` whose type is text.
ExtractAnthropicText(answer) ==
  NotBlank(SelectSeq(FlattenSeq(answer.choices), LAMBDA piece : piece.text))

\* One object, fenced or amid prose; two of them are no JSON.
LoadJsonObject(text) ==
  LET json == SelectSeq(text, LAMBDA piece : piece.kind # "prose")
  IN  IF Len(json) = 1 /\ json[1].kind = "object" THEN json[1] ELSE NULL

PlaceKey(p) ==
  <<IF p.name = NULL THEN NULL ELSE Squeezed[p.name],
    IF p.address = NULL THEN NULL ELSE Squeezed[p.address]>>

\* A place needs a name or an address, and is taken once.  Its coordinates are
\* not checked.
ParseAiPayload(object) ==
  IF object = NULL \/ ~object.list THEN Failed("invalid")
  ELSE Found(ToSet(FoldLeft(
         LAMBDA places, p :
           IF \/ p.name = NULL /\ p.address = NULL
              \/ \E q \in ToSet(places) : PlaceKey(q) = PlaceKey(p)
             THEN places
             ELSE Append(places, Place(p.name, p.address, ParseFloat(p.latitude),
                                       ParseFloat(p.longitude))),
         <<>>, object.places)))

\* Common to the providers: the call, its status and the parsed answer.
CallProvider(configured, megabytes, answer, text) ==
  IF \/ ~configured \/ ~EnsureImageSize(megabytes)
     \/ answer.sent # "answered" \/ answer.status >= 500
    THEN Failed("unavailable")
  ELSE IF answer.status >= 400 \/ ~answer.json \/ text = <<>> THEN Failed("invalid")
  ELSE ParseAiPayload(LoadJsonObject(text))

CallGemini(settings, megabytes, answer) ==
  CallProvider(IsConfigured(settings.api_key), megabytes, answer, ExtractGeminiText(answer))

CallOpenaiResponses(settings, megabytes, answer) ==
  CallProvider(IsConfigured(settings.api_key) /\ IsConfigured(settings.model),
               megabytes, answer, ExtractOpenaiResponseText(answer))

CallOpenaiChatCompletions(settings, megabytes, answer) ==
  CallProvider(IsConfigured(settings.api_key) /\ IsConfigured(settings.base_url)
                 /\ IsConfigured(settings.model),
               megabytes, answer, ExtractChatCompletionText(answer))

CallAnthropic(settings, megabytes, answer) ==
  CallProvider(IsConfigured(settings.api_key) /\ IsConfigured(settings.model),
               megabytes, answer, ExtractAnthropicText(answer))

\* In AUTO mode every base URL but OpenAI's own, also none at all, means chat
\* completions.
ShouldUseOpenaiChatCompletions(settings) ==
  settings.mode = "CHAT" \/ (settings.mode = "AUTO" /\ settings.base_url # "api.openai.com")

CallOpenai(settings, megabytes, answer) ==
  IF settings.mode \notin {"CHAT", "RESPONSES", "AUTO"} THEN Failed("unavailable")
  ELSE IF ShouldUseOpenaiChatCompletions(settings)
    THEN CallOpenaiChatCompletions(settings, megabytes, answer)
    ELSE CallOpenaiResponses(settings, megabytes, answer)

SelectedProvider(settings) == OneOf(settings.provider, "GEMINI")

ExtractPlaces(settings, megabytes, answer) ==
  CASE SelectedProvider(settings) = "GEMINI" -> CallGemini(settings, megabytes, answer)
    [] SelectedProvider(settings) = "OPENAI" -> CallOpenai(settings, megabytes, answer)
    [] SelectedProvider(settings) = "ANTHROPIC" -> CallAnthropic(settings, megabytes, answer)
    [] OTHER -> Failed("unavailable")

=============================================================================
