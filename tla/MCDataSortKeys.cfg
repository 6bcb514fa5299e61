SPECIFICATION MCSpec
CONSTANTS
    Components = {"rows"}
    Statements = {s1}
    Names = {t}
    CsvTables = {}
    ParquetTables = {}
    RowCalls <- WrongKeys
    NoFilter = NoFilter
    Null = Null
INVARIANT OrderAsMeant
