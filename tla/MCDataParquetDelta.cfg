SPECIFICATION MCSpec
CONSTANTS
    Components = {"parquet"}
    Statements = {s1, s2, s3}
    Names = {t}
    CsvTables <- CsvFiles
    ParquetTables <- LongDeltaPage
    RowCalls = {}
    NoFilter = NoFilter
    Null = Null
INVARIANTS
    ScansReturnRows
