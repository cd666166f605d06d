\* Parameter ToStackItem / FromStackItem round trip.
CONSTANTS
    Names = {"param", ""}
    BadUtf8 = "bad-utf8"
    Int64Bits = 16
SPECIFICATION Spec
INVARIANT RoundTrip
PROPERTY FailedDecodeWritesOnlyName
