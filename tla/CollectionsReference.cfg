\* Every call with slices of up to three elements over two values, up to two
\* services over three names, and strings of up to seven bytes.
CONSTANTS
    Elems = {"a", "b"}
    Names = {"x", "y", "z"}
    Chars = {"a", "b"}
    GroupKeys = {"k1", "k2"}
    MaxLen = 4
    MaxStrLen = 7
SPECIFICATION Spec
INVARIANTS BatchesPartitionList UniqueKeepsFirstOccurrences AppendIfMissingAddsOnlyMissing ServicesToMapRejectsExactlyAmbiguous PredicatesAsDocumented GroupAsDocumented SequenceOpsAsDocumented ServiceFiltersAsDocumented RemoveBulkAndDuplicatesAsDocumented
