SPECIFICATION MCSpec
CONSTANTS
    Components = {"catalog", "parquet", "csv", "aggregates", "format", "schema", "metadata",
                  "functions", "rows"}
    Statements = {s1, s2, s3}
    Names = {t}
    CsvTables <- CsvFiles
    ParquetTables <- ParquetFiles
    RowCalls <- StoredRows
    NoFilter = NoFilter
    Null = Null
INVARIANTS
    TypesOK
    EntryHasStorage
    OrphansAreKnown
    OneCreatorWins
    ScansReturnRows
    AggregatesAgree
    MetadataReadBack
    DamageRefused
    SchemaFits
    OrderAsMeant
