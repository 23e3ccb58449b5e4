------------------------------ MODULE PlaceSearch ------------------------------
(***************************************************************************)
(* The search for places at Kakao or Naver (services/place/                *)
(* search_service.py): a function of the request, the settings and the     *)
(* provider's answer, without any state.                                   *)
(*                                                                         *)
(* Coordinates are whole degrees, and a name stands for its text without   *)
(* HTML tags and surrounding blanks; an empty text is NULL.  The places    *)
(* that were found are a set: their order and duplicates are left out.     *)
(***************************************************************************)
EXTENDS Integers

CONSTANTS
  NULL,
  NotANumber  \* a value that int() or float() rejects

\* What a source returns: an error, or the places it has found.
Failed(error) == [error |-> error, places |-> {}]
Found(places) == [error |-> "none", places |-> places]

Place(name, address, lat, lon) ==
  [name |-> name, address |-> address, latitude |-> lat, longitude |-> lon]

Present(places) == {places[i] : i \in DOMAIN places} \ {NULL}

OneOf(a, b) == IF a # NULL THEN a ELSE b

\* The keyword is as good as its length without blanks.
ValidateKeyword(length) == length \in 1..50

ValidateProvider(provider) == OneOf(provider, "KAKAO") \in {"KAKAO", "NAVER"}

\* NotANumber stands for PlaceSearchPageRequestInvalidException.
ParsePositiveInt(value, default, min_value, max_value) ==
  IF value = NULL THEN default
  ELSE IF value \in min_value..max_value THEN value ELSE NotANumber

ParseFloat(value) == IF value = NotANumber THEN NULL ELSE value

IsValidLatitude(x) == x \in -90..90
IsValidLongitude(x) == x \in -180..180

KoreaLatitudes == 33..39
KoreaLongitudes == 124..132

\* Naver's mapx and mapy are degrees, or degrees times 10,000,000.
NormalizeNaverCoordinate(value, korea) ==
  LET x == ParseFloat(value)
  IN  IF x \in korea THEN x
      ELSE IF x # NULL /\ x \div 10000000 \in korea THEN x \div 10000000
      ELSE NULL

\* Mutant of BuildPlaceSearchResult: coordinates pass unchecked.
BuildUncheckedResult(name, address, lat, lon) ==
  IF name = NULL THEN NULL ELSE Place(name, address, lat, lon)

BuildPlaceSearchResult(name, address, lat, lon) ==
  IF name # NULL /\ IsValidLatitude(lat) /\ IsValidLongitude(lon)
    THEN Place(name, address, lat, lon)
    ELSE NULL

\* What becomes of the HTTP call; `sent` is "timeout", "error" or "answered".
SearchError(answer) ==
  CASE answer.sent = "timeout" -> "unavailable"
    [] answer.sent = "error" -> "failed"
    [] OTHER ->
         IF answer.status = 429 THEN "rate limited"
         ELSE IF answer.status >= 500 THEN "unavailable"
         ELSE IF answer.status # 200 \/ ~answer.json THEN "failed"
         ELSE "none"

SearchPlacesByKakao(configured, answer) ==
  IF ~configured THEN Failed("unavailable")
  ELSE IF SearchError(answer) # "none" THEN Failed(SearchError(answer))
  ELSE Found(Present([i \in DOMAIN answer.items |->
         LET d == answer.items[i]
         IN  BuildPlaceSearchResult(d.name, OneOf(d.road_address, d.address),
                                    ParseFloat(d.y), ParseFloat(d.x))]))

\* The page that was asked for is not sent: `start` is always 1.
SearchPlacesByNaver(configured, answer) ==
  IF ~configured THEN Failed("unavailable")
  ELSE IF SearchError(answer) # "none" THEN Failed(SearchError(answer))
  ELSE Found(Present([i \in DOMAIN answer.items |->
         LET d == answer.items[i]
         IN  BuildPlaceSearchResult(d.name, OneOf(d.road_address, d.address),
                                    NormalizeNaverCoordinate(d.y, KoreaLatitudes),
                                    NormalizeNaverCoordinate(d.x, KoreaLongitudes))]))

SearchPlaces(request, configured, answer) ==
  IF \/ ~ValidateKeyword(request.keyword)
     \/ ~ValidateProvider(request.provider)
     \/ ParsePositiveInt(request.page, 1, 1, 45) = NotANumber
     \/ ParsePositiveInt(request.size, 10, 1, 15) = NotANumber
    THEN Failed("invalid")
  ELSE IF OneOf(request.provider, "KAKAO") = "KAKAO"
    THEN SearchPlacesByKakao(configured, answer)
    ELSE SearchPlacesByNaver(configured, answer)

=============================================================================
