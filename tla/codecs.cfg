SPECIFICATION Spec
CONSTANTS
  Absent = Absent
  TlsRustls = TRUE
  Token <- Words
  Numbers <- Ports
  Parts <- UriParts
  Raw <- RawUris
  Ca = Ca
  Public = Public
  Own = Own
  Site = Site
  Self = Self
  Half32 = 1048576
  Sizes <- Edges
  Ints <- SignedEdges
  Speaks <- AnyOfKnown
  ReplyBytes = {0, 1, 2, 5, 8, 9, 255}
  NoStore = NoStore
  Cert = {Ca, Public, Own, Site, Self}
  Issuer <- Issuers
  Authority = {Ca, Public}
  Rootable = {Ca, Public, Self}
  Webpki = {Public}
  Native = {Ca, Site}
  Pem <- Pems
  Stores = {{}, {Ca}}
  MaxCalls = 4
INVARIANTS
  HeaderRoundTrip
  RoundTrip
  CutRefused
  WrittenIsParsed
  SeedIsDialled
  HighestCommon
  TrustAsAsked
  ConvertRoundTrip
  RowRoundTrip
CHECK_DEADLOCK FALSE
