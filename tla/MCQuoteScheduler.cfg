\* Marks, requests and refreshed lists of services.
SPECIFICATION FairSpec
CONSTANTS
    p1 = p1
    p2 = p2
    f1 = f1
    f2 = f2
    s1 = s1
    s2 = s2
    s3 = s3
    g1 = g1
    g2 = g2
    NoGroup = NoGroup
    MaxRefreshes = 2
    Product <- MCProduct
    Field <- MCField
    Service <- MCService
    Group <- MCGroup
    GroupOf <- MCGroupOf
    Products <- MCProducts
    Fields <- MCFields
    MaxProducts <- MCMaxProducts
    Queries <- MCQueries
    Lists <- MCLists
INVARIANTS TypeOK MarkedOnce NothingForgotten
PROPERTIES FinallyAskedFor
