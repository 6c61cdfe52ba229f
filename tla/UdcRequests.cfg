SPECIFICATION Spec
CONSTANTS
    NbIface = 2
    DescLen <- MCDescLen
    HidLen = 2
    ReportDescLen <- MCReportDescLen
    Reports <- MCReports
    Requests <- MCRequests
INVARIANT AnswerFits
PROPERTY EnumerationServed
