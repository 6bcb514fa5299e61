SPECIFICATION MCSpec
CONSTANTS
    Components = {"csv"}
    Statements = {s1, s2, s3}
    Names = {t}
    CsvTables <- LeadingEmptyField
    ParquetTables <- ParquetFiles
    RowCalls = {}
    NoFilter = NoFilter
    Null = Null
INVARIANTS
    ScansReturnRows
