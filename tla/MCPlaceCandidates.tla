------------------------- MODULE MCPlaceCandidates -------------------------
(* Instances of PlaceCandidates for TLC; OtherBodies are from an image.    *)
EXTENDS PlaceCandidates, TLC

CONSTANTS p1, p2, n1, n2, a1

\* n2 differs from n1 by white space only.
Squeezed == [n \in {n1, n2, a1} |-> IF n = n2 THEN n1 ELSE n]

Images == INSTANCE ImageExtraction

Row(name, address, lat, lon) ==
  [c \in Columns |-> CASE c = "name" -> name [] c = "address" -> address
                       [] c = "latitude" -> lat [] c = "longitude" -> lon]

MCOldRows == p1 :> Row(n1, a1, NULL, NULL) @@ p2 :> Row(n1, NULL, 37, 127)

-----------------------------------------------------------------------------
(* Answers of the search providers and of the image extraction             *)

Item(name, road, lot, y, x) ==
  [name |-> name, road_address |-> road, address |-> lot, y |-> y, x |-> x]

Answers(items) ==
  [sent : {"timeout", "error", "answered"}, status : {200, 400, 429, 500}, json : BOOLEAN,
   items : items]

KakaoAnswers ==
  Answers({<<Item(n1, NULL, a1, 37, 127), Item(n2, NULL, NULL, 95, 127), Item(NULL, a1, a1, 37, 127)>>})

NaverAnswers ==
  Answers({<<Item(n1, a1, NULL, 370000000, 1270000000), Item(n1, NULL, NULL, 1270000000, 370000000),
             Item(n2, NULL, NULL, NotANumber, 127)>>})

Search(provider, configured, answer) ==
  [request |-> [keyword |-> 2, provider |-> provider, page |-> NULL, size |-> 15],
   configured |-> configured, answer |-> answer]

MCSearches ==
  {Search(p, c, a) : p \in {NULL, "KAKAO", "OTHER"}, c \in BOOLEAN, a \in KakaoAnswers}
  \cup {Search("NAVER", TRUE, a) : a \in NaverAnswers}

Piece(kind, places) == [kind |-> kind, text |-> TRUE, list |-> TRUE, places |-> places]

Extraction ==
  Piece("object", <<Place(n1, NULL, 37, NotANumber), Place(n2, NULL, NULL, NULL),
                    Place(NULL, NULL, NULL, NULL)>>)

AiAnswers ==
  [sent : {"error", "answered"}, status : {200, 400, 500}, json : BOOLEAN,
   choices : {<<>>, <<<<Piece("prose", <<>>), Extraction>>, <<Piece("other", <<>>)>>>>},
   output_text : {Piece("blank", <<>>), Extraction}]

Settings ==
  [provider : {NULL, "OPENAI", "ANTHROPIC"}, api_key : {NULL, "key"}, model : {"model"},
   base_url : {"api.openai.com"}, mode : {"AUTO", "CHAT"}]

MCOtherBodies ==
  {BodyOf(p) : p \in UNION {Images!ExtractPlaces(s, m, a).places :
                              s \in Settings, m \in {1, 16}, a \in AiAnswers}}

MCPatches ==
  {[c \in {"latitude", "longitude"} |-> NULL], [c \in {"longitude"} |-> 128],
   [c \in {"latitude"} |-> 91], [c \in {"address"} |-> a1], [c \in {"name"} |-> n2]}

Symmetry == Permutations(Requests)
=============================================================================
